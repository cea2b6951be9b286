\* Three names for a file that two changes can move about, three attempts, and
\* a pull request beside an issue among the mentioned numbers.
SPECIFICATION Spec
CONSTANTS
  LastCandidate = 3
  PullRequests = {1, 2}
  Issues = {3}
  MaxAttempts = 3
  MaxChanges = 3
INVARIANTS
  TypeOK
  OneProviderAnswers
  AnswerIsReal
