SPECIFICATION OrderedSpec
CONSTANTS
  Requests <- MCRequests
  RawEmails <- MCRawEmails
  Emails <- MCEmails
  Normalize <- MCNormalize
  Passwords = {"p1", "p2"}
  NoRow = NoRow
  Forged = Forged
  Calls <- MCCalls
INVARIANTS
  IInv
  OneAccountPerEmail
  SessionsAreVerified
  UsedTokensVerify
  SingleUse
  SupersededTokensDead
PROPERTIES
  ImplementsLifecycle
  RequestsEnd
