SPECIFICATION FairSpec
CONSTANT Users = {u1}
INVARIANTS
  AnnouncedIsCommitted
  AnswersAgree
  RejectedStartLeavesNothing
PROPERTIES
  CancelBeatsCompletion
  CancelIsAnswered
CHECK_DEADLOCK FALSE
