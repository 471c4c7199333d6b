\* A public and a private channel, every user call and every failure; the
\* exponent of the backoff is out of reach of MaxFaults attempts.
SPECIFICATION FairSpec
CONSTANTS
  Channels = {"ticker", "orders"}
  PrivateChannels = {"orders"}
  Keyed = TRUE
  ReconnectChoices = {TRUE, FALSE}
  MaxAttempts = Forever
  Forever = Forever
  MaxExponent = 1023
  UserCalls = {"subscribe", "unsubscribe", "connect", "close"}
  MaxCalls = 3
  MaxPushes = 2
  MaxFaults = 3
INVARIANTS TypeOK StreamIntact PrivateNeedsAuth KeepsSubscriptions
PROPERTIES RestoresSubscriptions ReconnectEnds ImplementsFeed
