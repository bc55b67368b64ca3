SPECIFICATION Spec
CONSTANTS
  Client = {shell, job}
  Jobs = {job}
  Sizes = {0, 1, 4}
  MaxChars = 4
INVARIANTS Stream RequestOfWaiting
PROPERTIES ReadersInOrder
