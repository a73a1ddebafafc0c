\* A cancel that crosses a confirmation.
SPECIFICATION DraftSpec
CONSTANTS
  q1 = q1
  q2 = q2
  Requests = {q1, q2}
  MaxRounds = 2
  NoRequest = NoRequest
INVARIANT CancelledNeverRuns
CHECK_DEADLOCK FALSE
