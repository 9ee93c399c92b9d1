\* Three starts of rtapi_msgd and two of rtapi_app: a session, what is left
\* of it after a fault, and the one that follows.
CONSTANTS
  Msgds = {m1, m2, m3}
  Apps = {a1, a2}
SPECIFICATION Spec
PROPERTY SessionKept WindsDown
CHECK_DEADLOCK FALSE
