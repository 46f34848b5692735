SPECIFICATION Spec
CONSTANTS
    i1 = i1
    i2 = i2
    r1 = r1
    Open = Open
    Cash = Cash
    None = None
    Intents = {i1, i2}
    Receipts = {r1}
    ReceiptOf <- OneReceipt
    Callers = {"button", "boot"}
    Refusals = {"transient", "final"}
SYMMETRY Symmetry
INVARIANTS
    PaidIsNeverSilent
    MoneyIsWhereRowsSay
