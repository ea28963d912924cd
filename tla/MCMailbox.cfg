CONSTANTS
  Rows = 2
  Run = {w1, w2}
  MaxAttempts = 1
  Sent = {"followup", "background_notification"}
SPECIFICATION FairSpec
INVARIANTS ToldOnce AbsorbedHasOwner NoticeKeepsItsRun ReclaimsAreBounded
PROPERTY MessagesAreSettled
