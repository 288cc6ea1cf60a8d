CONSTANTS
    Bits = 4
    Mantissa = 4
    Garbage = {0, 5}
    Directory <- MCDirectory
    Homes <- MCHomes
    Programs <- MCPrograms
SPECIFICATION Spec
INVARIANTS
    FieldsAsReference
    CaseAsReference
    ArithmeticAsC
