SPECIFICATION PayloadSpec
CONSTANTS
  Requests = {q1, q2}
  NoPayload = NoPayload
  MaxChanges = 1
  MaxGen = 2
  Prompt = TRUE
INVARIANTS
  AnswerIsCurrent
