CONSTANTS
    MinAsset = 10
    MaxAmount = 15
    TopBit = 32
    Operands <- const_Operands
SPECIFICATION Spec
INVARIANTS
    TypeOK
    ValueExact
    ChecksExact
