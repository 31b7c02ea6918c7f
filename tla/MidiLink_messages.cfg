\* Two links, so that a cancelled attempt can overtake the next, any number of messages.
CONSTANTS
  MaxAttempts = 2
  Messages <- MCMessages
SPECIFICATION MidiFairSpec
INVARIANTS
  TypeOK
  OneLink
  StopCloses
  WriteFindsThread
  HandsOnMessages
PROPERTIES
  ImplementsProtocol
  AttemptsSettle
  CutLinksAreReported
