SPECIFICATION FairSpec
CONSTANTS
    EventIds <- MCEventIds
    Payments <- MCPayments
    Kind <- MCKind
    PaymentOf <- MCPaymentOf
    NotesOf <- MCNotes
    Handlers = {h1, h2}
    MaxFaults = 1
INVARIANTS
    TypeOK
    AppliedOnce
    PaymentAgreesWithCase
PROPERTIES
    EventuallyAnswered
