CONSTANTS
    d1 = d1
    a1 = a1
    k1 = k1
    k2 = k2
    r1 = r1
    Main = Main
    Loop = Loop
    None = None
    Dialed = {d1}
    Accepted = {a1}
    Calls = {k1, k2}
    Requests = {r1}
    Batch = 2
SPECIFICATION Spec
INVARIANTS AnswerNotLost
