SPECIFICATION Spec
CONSTANTS
  j1 = j1
  c1 = c1
  c2 = c2
  Jobs = {j1}
  Calls = {c1, c2}
  None = None
  Lines = {1, 2, 3, 4, 5}
  Languages = {"en", "pt", "pt-BR"}
  Base <- MCBase
  Chars <- MCChars
  Recorded <- MCRecorded
  Spoken <- MCSpoken
  Target <- MCTarget
  Posted <- MCPosted
  Wanted = {"en", "pt"}
  MaxChars = 3
  MaxItems = 2
  MaxTranscriptions = 2
  MaxFailures = 2
  TiesUp = {3599995}
INVARIANTS TypeOK LinesStayInPlace OneTranslation RequestsFit CuesInOrder
\* Calls and callbacks come to an end.
CHECK_DEADLOCK FALSE
