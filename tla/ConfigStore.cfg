SPECIFICATION FairSpec
CONSTANTS
  Field <- MCField
  Modulus = 2
  DefaultConfig <- MCDefaultConfig
  NoConfig = NoConfig
INVARIANTS
  Recoverable
PROPERTIES
  NeverBricked
  TrueMeansBothPages
  RegisterSpec
  Healing
