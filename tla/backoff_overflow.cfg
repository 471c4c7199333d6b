\* An outage of 1024 attempts to reconnect, with the exponent of a double.
SPECIFICATION Spec
CONSTANTS
  Channels = {"ticker"}
  PrivateChannels = {}
  Keyed = FALSE
  ReconnectChoices = {TRUE}
  MaxAttempts = Forever
  Forever = Forever
  MaxExponent = 1023
  UserCalls = {}
  MaxCalls = 0
  MaxPushes = 0
  MaxFaults = 1026
INVARIANT RetriesForever
