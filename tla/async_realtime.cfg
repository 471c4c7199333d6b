\* Cancellation at every await, also while a reconnect is under way.
SPECIFICATION AsyncSpec
CONSTANTS
  Channels = {"ticker", "orders"}
  PrivateChannels = {"orders"}
  Keyed = TRUE
  ReconnectChoices = {TRUE}
  MaxAttempts = 2
  Forever = Forever
  MaxExponent = 1023
  UserCalls = {"subscribe", "unsubscribe", "connect", "close"}
  MaxCalls = 4
  MaxPushes = 2
  MaxFaults = 3
INVARIANTS StreamIntact PrivateNeedsAuth AnswerIsComing
PROPERTIES RecordsWhatTheServerDid ForgetsOnlyLoudly StaysInFeed
