\* Three processes that start, die, shut down and meet a database error. TTL is
\* the least that Comfortable allows; the processes are interchangeable.
SPECIFICATION Spec
CONSTANTS
  Instances = {a, b, c}
  Nobody = Nobody
  TTL = 5
  Heartbeat = 1
  Delay = 1
  Skew = 1
  MaxErrors = 1
SYMMETRY Symmetry
INVARIANTS
  TypeOK
  
  TakeoverIsPrompt
