SPECIFICATION FairPingSpec
CONSTANTS
    Nil = Nil
    NaN = NaN
    p1 = p1
    p2 = p2
    p3 = p3
    n1 = n1
    n2 = n2
    Plugins = {p1, p2, p3}
    NameOf <- MCNameOf
    Readers = {r1}
    Results <- MCResults
    Scale = 10
    MaxWrites = 1
INVARIANTS PingTypeOK RefreshExplained PingNotTorn
PROPERTY PingSettles
