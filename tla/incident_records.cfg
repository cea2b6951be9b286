\* Two calls that race for the same record, the three attempts of the code, and
\* every configuration.  The calls end, so the system may stop.
SPECIFICATION Spec
CONSTANTS
  c1 = c1
  c2 = c2
  d1 = d1
  d2 = d2
  Calls = {c1, c2}
  Others = others
  Channels = {d1, d2}
  NoChannel = none
  MaxAttempts = 3
  MaxEdits = 2
INVARIANTS
  TypeOK
  ToldWhatWasWritten
  SameChannel
PROPERTIES
  NotesSurvive
CHECK_DEADLOCK FALSE
