SPECIFICATION FairSpec
CONSTANTS
  MaxReq = 3
  Answers = {"framed", "unframed"}
INVARIANTS StreamTypeOK OwnAnswers
PROPERTIES AnswerBegins Released
CHECK_DEADLOCK FALSE
