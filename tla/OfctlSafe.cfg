SPECIFICATION Spec
CONSTANTS
  Reqs = {r1, r2}
  Conns = {d1, d2}
  d1 = d1
  d2 = d2
  r1 = r1
  r2 = r2
  None = None
  ReplyCls <- SecondExpectsNone
  AnswerCls <- AllStats
  ReplyMulti <- FirstMulti
  Dynamic = {"stats"}
  MaxXid = 9
  FirstXid <- Apart
  MaxReplies = 1
  MaxOthers = 1
  Mortal = {d1}
  Posting = TRUE
CHECK_DEADLOCK FALSE
CONSTRAINT OthersAlone
INVARIANTS TypeOK TablesAgree AnswerIsOwn PendingIsObserved
PROPERTY EntryIsOfItsOwn
