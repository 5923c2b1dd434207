CONSTANTS
  t1 = t1
  t2 = t2
  t3 = t3
  MidMod = 2
  Lifetime = 2
  Tokens <- MCTokens
  Codes <- MCCodes
  MaxSends = 3
SPECIFICATION Spec
SYMMETRY TokenSymmetry
INVARIANT TypeOK
INVARIANT StatusSound
INVARIANT ResponseSound
PROPERTY ResponseKept
