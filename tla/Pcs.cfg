CONSTANTS
  Statements <- MCStatements
  GhQ = 13
  GhD = 2
  GhDelta = 4
  GhWord = 6
  GhM = 2
  GhR = 2
  DpQ = 17
  DpOnes = 2
  DpTwos = 0
  DpRows = 2
  DpLambda = 8
  DpSlack = 100
  DpRerolls = 2
  DpDraw <- MCDraw
  TrDraw <- MCTrDraw
  SrDraw <- MCSrDraw
SPECIFICATION Spec
INVARIANTS HonestProofsVerify AcceptedClaimsHold TargetsRestateOpenings
CHECK_DEADLOCK FALSE
