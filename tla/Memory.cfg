SPECIFICATION Spec
CONSTANTS
    Keys <- SmallKeys
    KeyPrefixes <- SmallPrefixes
    Limits <- SmallLimits
    Values = {v1, v2}
    Clients = {c1, c2}
    MaxVersion = 2
    MaxLife = 1
SYMMETRY CallSymmetry
INVARIANTS IndexMatchesMap VersionNamesOneEntry WalkExact
