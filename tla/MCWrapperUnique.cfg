\* Two threads call the wrapper on a table whose column is UNIQUE (clients).
CONSTANTS
  Thread = {t1, t2}
  Key = {k1, k2}
  All = All
  Unique = TRUE
  MaxRows = 2
  MaxFaults = 1
SPECIFICATION Spec
INVARIANT
  NoStatementLeaks
PROPERTY
  ImplementsStatement
