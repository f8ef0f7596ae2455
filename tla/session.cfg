SPECIFICATION Spec
CONSTANTS
  Tabs = {tab1, tab2}
  Users = {ann, bob}
  Logins = {l1, l2}
  Requests = {q1, q2}
  NoToken = NoToken
  NoUser = NoUser
SYMMETRY Symmetry
INVARIANTS
  IInv
  RequestsActAsShown
PROPERTY
  DroppedIsNotSent
