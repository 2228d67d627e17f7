SPECIFICATION FairSpec
CONSTANTS
    None = None
    Ids = {a1, a2, a3}
    Requests = {r1, r2}
INVARIANTS AtMostOneDefault CirclesNeedUnset
PROPERTIES ImplementsAddressBook NotFoundIsExplained RequestsReturn
