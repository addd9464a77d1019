SPECIFICATION MCSpec
CONSTANTS
  Conn = {c1, c2}
  Page = {p1, p2}
  Size = 2
  MaxLoaded = 1
  MaxArms = 1
  MaxEvents = 1
  None = None
  Null = Null
  q1 = q1
  q2 = q2
  pw = pw
  user = user
  Process = {q1, q2}
  Configured = {q1}
  Secret = {pw, user}
  Answers <- MCAnswers
  Home <- MCHome
  Document <- MCDocument
  Forms <- MCForms
SYMMETRY Symmetry
INVARIANTS OneArmOneAccept RefHitsWhatWasRead SecretStaysHome OutputsAreScrubbed
