SPECIFICATION FairSpec
CONSTANTS
    None = None
    Requests = {r1, r2, r3, r4}
    Emails = {m1, m2}
    Verifiers = {v1, v2}
INVARIANTS OneUserPerEmail AllOrNothing AnswersAreTrue RegistrationInv
PROPERTIES RegisterReturns
CHECK_DEADLOCK FALSE
