SPECIFICATION TxSpec
CONSTANTS
    p1 = p1
    k1 = k1
    k2 = k2
    Payment <- OneTopup
    Posting <- TwoPostings
    Amount <- Amounts
    Conn = {c1, c2, c3}
    Nothing = Nothing
SYMMETRY ConnSymmetry
INVARIANTS Chained Conserved CreditedOnce
PROPERTY ImplementsWallet
