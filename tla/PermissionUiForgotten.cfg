\* Two alike requests, one click and one message: a request nobody will answer.
SPECIFICATION PermSpec
CONSTANTS
  PermRequests = {x1, x2}
  PermAlike = {x1, x2}
  PermOutside = {}
  PermNone = PermNone
  MaxPermClicks = 1
  MaxPermMessages = 1
CHECK_DEADLOCK FALSE
INVARIANTS PermNoneForgotten
