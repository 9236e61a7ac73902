SPECIFICATION FairSpec
CONSTANTS
    d1 = d1
    h1 = h1
    h2 = h2
    None = None
    NoObject = NoObject
    NoOdim = NoOdim
    DefaultTimeTicker = 3
    Configs <- MCConfigs
    Setups <- MCSetups
    Others = {d1}
    Hosts = {h1, h2}
    Ids = {1, 2, 3, 4}
INVARIANTS
    Inv
    ObjectsNameTheirSubscription
    OdimLeavesNothing
PROPERTIES
    ObjectsFollowSubscriptions
    SubscriptionsFollowObjects
    TickerFollowsData
    OperatorIsSubscribed
    OdimGoes
\* Without the Odim object the operator has nothing to do.
CHECK_DEADLOCK FALSE
