CONSTANTS
  k1 = k1  k2 = k2  k3 = k3  q1 = q1  q2 = q2  r1 = r1  r2 = r2
  Calls = {k1, k2, k3}
  Runs = {r1, r2}
  Requests = {q1, q2}
  None = None
SPECIFICATION Spec
INVARIANTS TypeOK InvokedOnce AnswersAgree
PROPERTIES RefusedIsFinal ReceiptIsFinal
SYMMETRY Interchangeable
CHECK_DEADLOCK FALSE
