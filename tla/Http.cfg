SPECIFICATION FairSpec
CONSTANTS
  Slots = {s1, s2}
  Inquiries <- EveryInquiry
  Outcomes <- SomeOutcomes
  PortTaken = TRUE
CHECK_DEADLOCK FALSE
INVARIANTS OnlyAuthorisedAreServed AnswersAreHonest GaugeIsTrue GracefulIsComplete StopIsNeverStuck
PROPERTIES StopEnds
