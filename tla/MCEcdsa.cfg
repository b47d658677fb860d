SPECIFICATION EcdsaSpec
CONSTANTS
    MaxU256 = 40
    Order = 19
    Abscissa <- MCAbscissa
    Base = 5
    WordLen = 2
    Hashes = {0, 1, 8, 18, 19, 24}
    Keys = {1, 2, 7, 18}
    Signatures <- MCSignatures
INVARIANTS TypeOK NeverPanics Bezout Greatest Inverse AcceptsWhatIsSigned
PROPERTY Terminates
