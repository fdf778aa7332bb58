SPECIFICATION Spec
CONSTANTS
  Addresses = {a1, a2, a3, a4}
  Messages = {m1, m2}
  nullptr = nullptr
INVARIANTS
  EndsAgree
  NothingLeaks
PROPERTY IsFifo
