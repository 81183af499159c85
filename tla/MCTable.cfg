SPECIFICATION Spec
CONSTANTS
  k1 = k1
  k2 = k2
  k3 = k3
  k4 = k4
  Keys <- MCKeys
  Hash <- MCHash
  NoKey = NoKey
  Nil = Nil
  True = True
  Values = {Nil, True}
  MinCapacity = 4
INVARIANTS
  TypeOK
  CountIsUsed
  ProbeTerminates
  EveryKeyFound
PROPERTY RefinesMap
