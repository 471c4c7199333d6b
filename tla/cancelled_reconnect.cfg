\* A cancelled next() during a reconnect: the subscriptions are forgotten.
SPECIFICATION AsyncSpec
CONSTANTS
  Channels = {"ticker"}
  PrivateChannels = {}
  Keyed = FALSE
  ReconnectChoices = {TRUE}
  MaxAttempts = Forever
  Forever = Forever
  MaxExponent = 1023
  UserCalls = {"subscribe"}
  MaxCalls = 2
  MaxPushes = 1
  MaxFaults = 1
INVARIANT KeepsSubscriptions
