\* Re-orgs, redeploys, re-walks and calls that die, in any order.
SPECIFICATION ChainSpec
CONSTANTS
    l1 = l1
    l2 = l2
    l3 = l3
    pay = pay
    pool = pool
    old = old
    new = new
    Unset = Unset
    Labels = {l1, l2, l3}
    Histories <- MCHistories
    MaxHeight = 2
    Txs = {pay}
    Carried <- MCCarried
    Parties <- MCParties
    Watch = {old}
    Roles = {pool}
    Addrs = {old, new}
    IdOrder <- MCIdOrder
INVARIANTS
    ChainInv
    OrphansRetired
