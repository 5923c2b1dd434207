CONSTANTS
  t1 = t1
  t2 = t2
  t3 = t3
  MidMod = 4
  Lifetime = 2
  Tokens <- MCTokens
  Codes <- MCCodes
  MaxSends = 2
SPECIFICATION Spec
PROPERTY PiggybackTaken
