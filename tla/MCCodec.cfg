\* Every envelope with fields that are set or not, both codecs, every cut.
CONSTANTS
  Text = {"x"}
  MaxLimit = 8
SPECIFICATION Spec
INVARIANT TextRoundTrip
CHECK_DEADLOCK FALSE
