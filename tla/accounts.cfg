SPECIFICATION AccountsFairSpec
CONSTANTS
  Emails = {e1, e2}
  Usernames = {u1, u2}
  Tokens = {t1, t2}
  Confirmations = {c1, c2}
  MaxRestarts = 1
  AccountFaults = {"db", "mail", "disconnect"}
  None = None
INVARIANTS
  AccountsTypeOK
  LastTokenGood
  ConfirmedOnce
  AccountsInv
PROPERTIES
  RegistrationSpec
  ConfirmEnds
CHECK_DEADLOCK FALSE
