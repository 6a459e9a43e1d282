SPECIFICATION Spec
CONSTANTS
  s1 = s1
  s2 = s2
  c1 = c1
  c2 = c2
  x1 = x1
  x2 = x2
  q1 = q1
  q2 = q2
  q3 = q3
  a1 = a1
  a2 = a2
  States = {s1, s2}
  Callbacks = {c1, c2}
  Exchanges = {x1, x2}
  Requests = {q1, q2, q3}
  Accounts = {a1, a2}
  Emails = {e1}
  NoEmail = hidden
  MaxCalls = 5
  None = none
SYMMETRY Symmetry
CHECK_DEADLOCK FALSE
INVARIANTS OneSessionPerLogin StableUser StoredTokenUsable RowsHaveIntegration
