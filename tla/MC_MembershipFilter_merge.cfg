CONSTANTS
    Nodes = {n1, n2}
    Keys = {k1}
    a1 = a1
    a2 = a2
    f1 = f1
    f2 = f2
    Addresses = {a1, a2}
    Fingerprints = {f1, f2}
    Hash <- MCHash
    MaxCount = 2
    DefaultSlots = 1
    MaxSlots = 2

SPECIFICATION Spec

INVARIANT NoDroppedInserts
