SPECIFICATION Spec
CONSTANTS
  c1 = c1  c2 = c2  c3 = c3  c4 = c4  c5 = c5
  v1 = v1  v2 = v2  v3 = v3
  k1 = k1  k2 = k2
  Nothing = Nothing
  Candidates = {c1, c2, c3, c4, c5}
  Versions = {v1, v2, v3}
  Keys = {k1, k2}
  Key <- MCKey
  Base <- MCBase
  Version <- MCVersion
  Rank <- MCRank
  MaxDepth = 6
INVARIANTS TypeOK RollbackRestores NoRolledBackInForce VersionChain
