SPECIFICATION FairSpec
CONSTANTS
    r1 = r1  r2 = r2  r3 = r3
    k1 = k1  b1 = b1  b2 = b2
    None = None
    Requests = {r1, r2, r3}
    Keys = {k1}
    Bodies = {b1, b2}
    KeyOf <- MCKeyOf
    BodyOf <- MCBodyOf
INVARIANTS AtMostOnce AnswersAgree IdempotencyInv
PROPERTIES ResponseIsFinal NoKeyHangs
CHECK_DEADLOCK FALSE
