SPECIFICATION Spec
CONSTANTS
    EventIds <- MCPair
    Payments <- MCPairPayments
    Kind <- MCPairKind
    PaymentOf <- MCPairPayment
    NotesOf <- MCPairNotes
    Handlers = {h1, h2}
    MaxFaults = 0
INVARIANTS
    AnsweredIsProcessed
CHECK_DEADLOCK FALSE
