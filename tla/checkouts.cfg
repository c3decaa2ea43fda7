SPECIFICATION FairSpec
CONSTANTS
    Account = {a1}
    Key = {k1, k2}
    Request = {r1, r2}
    None = None
    MaxCustomers = 2
    MaxTrial = 1
    MaxFailures = 1
INVARIANTS
    TypeOK
    SessionsHaveTheKnownCustomer
    OpenedIsRecorded
    CompletedIsPaid
PROPERTIES
    ImplementsPurchases
    EveryBuyerIsAnswered
