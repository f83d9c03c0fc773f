SPECIFICATION DrawerSpec
CONSTANTS
  Turns = {a1, a2}
  NoTurn = NoTurn
  Cap = 2
  MaxRetries = 1
  MaxTokens = 2
  Configured = TRUE
  CanFail = TRUE
INVARIANTS
  TypeOK
  QuotaOverrunBounded
  ChargedIffAnswered
  NothingWithheld
  ShownIsOneReply
PROPERTIES
  InputComesBack
