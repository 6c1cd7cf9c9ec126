SPECIFICATION CFairSpec
CONSTANTS
  None = None
  Requests = {r1, r2}
  OpenIds = {o1, o2}
  Careful = {o1}
  Tokens = {t1, t2}
  ObjectIds = {x1, x2}
  Nicknames = {n1}
PROPERTIES CallsAnswered
