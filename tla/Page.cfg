CONSTANTS
  Name <- MCName
  Email <- MCEmail
  SignUps <- MCSignUps
  WithAt <- MCWithAt
  Trim <- MCTrim
  NewName = {"ann"}
  NewEmail = {"ann"}
  MaxUsers = 2
  MaxAsks = 2
SPECIFICATION Spec
INVARIANTS
  TypeOK
  CookieIsTheUsers
  SignedOutMeansNoCookie
  OriginalIsTheRow
  BusyEnds
  TextFindsItsAccount
PROPERTIES
  UneditedStays
