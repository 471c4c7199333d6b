\* The server refuses to authenticate once, and the user subscribes again.
SPECIFICATION Spec
CONSTANTS
  Channels = {"ticker", "orders"}
  PrivateChannels = {"orders"}
  Keyed = TRUE
  ReconnectChoices = {TRUE}
  MaxAttempts = Forever
  Forever = Forever
  MaxExponent = 1023
  UserCalls = {"subscribe"}
  MaxCalls = 2
  MaxPushes = 1
  MaxFaults = 1
INVARIANT AuthenticatesFirst
