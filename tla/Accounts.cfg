SPECIFICATION AccountsSpec
CONSTANTS
  Requests = {o1, o2}
  Registrations = {g1, g2}
  MaxAttempts = 3
  NoCode = NoCode
  Calls = {c1, c2}
  MaxTokens = 4
INVARIANTS RegistrationIsWhole MailedCodeWorks RotationHasReason LoggedOutStaysOut
PROPERTY SpentStaysSpent
CHECK_DEADLOCK FALSE
