\* The dictionary parser against the grammar, over every pair of small files.
CONSTANTS
    f1 = f1
    f2 = f2
    NaN = NaN
    DictFiles <- MCFiles
    Top = f1
    DictContents <- MCDictContents
    OctetsPrefixed <- MCOctetsPrefixed
    MaxDepth = 4
    NotANumber = NaN
SPECIFICATION Spec
INVARIANT ParsedMatchesReference
INVARIANT LoadSucceedsIffValid
