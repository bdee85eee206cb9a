\* Three callers, three usable tokens, room for two of them.
SPECIFICATION TkSpec
CONSTANTS
    Threads = {t1, t2, t3}
    Nobody = nobody
    Tokens = {0, 33, 34, 35}
    BadToken = 0
    FirstToken = 33
    Pairs = {p1, p2}
    NoPair = nopair
    Pending = pending
    Size = 2
SYMMETRY Symmetry
INVARIANTS TkTypeOK RecentlyUsedResolves
PROPERTIES StoreImplemented
