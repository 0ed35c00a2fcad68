\* Two requests on every table in which a is an active administrator, with one slot, a
\* pool of one or two connections, and one run of a script.
SPECIFICATION MCSpec
CONSTANTS
    a = a  b = b  p = p  q = q  r1 = r1  r2 = r2
    Placeholder = Placeholder  NoProof = NoProof
    Users = {a, b}
    Passwords = {p, q}
    Requests = {r1, r2}
    Orders <- MCOrders
    Slots = 1
    PoolSizes = {1, 2}
    MaxScripts = 1
INVARIANTS TypeOK AdminRemains
PROPERTIES ActorStillMay OldPasswordsFail RequestsEnd ImplementsAccountTable
CHECK_DEADLOCK FALSE
