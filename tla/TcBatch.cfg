SPECIFICATION Spec
CONSTANTS
  Index = {1, 2}
  Name = {"eth0", "eth1", "eth2"}
  FirstName <- MCFirstName
  IfNumber <- MCIfNumber
  Typed <- MCTyped
  MaxLines = 4
  MaxMishaps = 2
INVARIANTS
  SuccessIsReal
  ExitZeroMeansDone
  ListingExact
  ShownAsTyped
  OnceNamed
  AnswerComes
CHECK_DEADLOCK FALSE
