\* Two ids, two addresses, two funds, two deployments, two requests at once.
SPECIFICATION Spec
CONSTANTS
    i1 = i1  i2 = i2  a1 = a1  a2 = a2
    f1 = f1  f2 = f2  t1 = t1  t2 = t2  h1 = h1  h2 = h2
    BotIds = {i1, i2}
    Addresses = {a1, a2}
    Funds = {f1, f2}
    Txs = {t1, t2}
    Handlers = {h1, h2}
    Stakes = {1}
    NoId = NoId
    NoAddress = NoAddress
    NoTx = NoTx
CONSTRAINT Few
SYMMETRY Symmetry
INVARIANTS RowsInOrder OneFundPerDeployment MembersHaveStake
PROPERTY FundKeepsIdentity
CHECK_DEADLOCK FALSE
