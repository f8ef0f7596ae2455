SPECIFICATION FairSpec
CONSTANTS
  Emails = {ann}
  NoEmail = NoEmail
  MaxCalls = 3
INVARIANTS
  IInv
  FreshLinkNotRefused
PROPERTY
  ComesBack
