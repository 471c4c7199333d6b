\* close() and a new connection: `subscriptions` still lists the old channels.
SPECIFICATION Spec
CONSTANTS
  Channels = {"ticker", "orders"}
  PrivateChannels = {"orders"}
  Keyed = FALSE
  ReconnectChoices = {TRUE}
  MaxAttempts = Forever
  Forever = Forever
  MaxExponent = 1023
  UserCalls = {"subscribe", "close"}
  MaxCalls = 2
  MaxPushes = 1
  MaxFaults = 0
INVARIANT SubscriptionsAreLive
