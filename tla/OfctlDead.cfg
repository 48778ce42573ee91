SPECIFICATION FairSpec
CONSTANTS
  Reqs = {r1}
  Conns = {d1}
  d1 = d1
  d2 = d2
  r1 = r1
  r2 = r2
  None = None
  ReplyCls <- AllStats
  AnswerCls <- AllStats
  ReplyMulti <- FirstMulti
  Dynamic = {"stats"}
  MaxXid = 9
  FirstXid <- Apart
  MaxReplies = 1
  MaxOthers = 0
  Mortal = {d1}
  Posting = FALSE
CHECK_DEADLOCK FALSE
PROPERTY RequestReturns
