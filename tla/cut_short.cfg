SPECIFICATION Spec
CONSTANTS
    Size = 2
    None = None
    Invalid = Invalid
    own1 = own1
    own2 = own2
    team = team
    Ledgers <- MCLedgers
    Books <- MCBooks
    Envs <- MCEnvs
    Decisions <- MCAsks
    MaxRuns = 2
    MaxFaults = 1
    MaxChanges = 1
PROPERTY ApprovedNeverLost
INVARIANT CooledWasReached
