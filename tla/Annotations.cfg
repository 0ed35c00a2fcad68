SPECIFICATION MCSpec
CONSTANTS
    i = i  k = k  x = x  y = y  Nothing = Nothing
    Images = {i, k}
    Tags = {x, y}
    r1 = r1  r2 = r2  r3 = r3
    Requests = {r1, r2, r3}
    Orders <- MCOrders
    MaxDepth = 2
    Earlier = 3
INVARIANTS TypeOK ThreadsWhole
PROPERTIES ChangesAreMarked UndisturbedReplace RequestsEnd
CHECK_DEADLOCK FALSE
