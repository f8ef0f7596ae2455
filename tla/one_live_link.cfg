SPECIFICATION OrderedSpec
CONSTANTS
  Requests <- MCRequests
  RawEmails <- MCRawEmails
  Emails <- MCEmails
  Normalize <- MCNormalize
  Passwords = {"p1"}
  NoRow = NoRow
  Forged = Forged
  Calls <- MCCalls
INVARIANT
  OneLiveLink
