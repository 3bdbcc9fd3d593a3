\* Two orders and a number Recloud does not know: an answer can be that of
\* another order, and a notice that of another number.
SPECIFICATION QSpec
CONSTANTS
    Numbers = {"L1", "L2", "L3"}
    Found = {"L1", "L2"}
    Phones = {"P1", "P2", "P3"}
    PhoneOf <- PhoneOfMC
    Signature <- SignatureMC
    TextFields = {"rmaNo"}
    MaxUnanswered = 1
    None = "none"
INVARIANTS
    AnswerBelongsToQuery
    PhoneMatchesCustomer
PROPERTIES
    CallsSettle
