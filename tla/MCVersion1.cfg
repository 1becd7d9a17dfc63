SPECIFICATION V1Spec
CONSTANTS
    Wallets = {w1, w2, w3}
    NoWallet = NoWallet
    MaxIssues = 1
    MaxUpdates = 3
    MaxSigned = 3
SYMMETRY WalletSymmetry
CHECK_DEADLOCK FALSE
INVARIANTS
    AccountsAgree
    UpdatesAreInOrder
