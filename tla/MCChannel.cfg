\* Two people at one browser tab, one symbol that up to two components of the
\* page show, one connection that breaks or one database call that fails.  The
\* tab opens up to three sockets; two messages may be under way to the
\* gateway, one to the tab; one change of an account or of who is signed in.
SPECIFICATION Spec
CONSTANTS
    Users = {ann, bob}
    Symbols = {x}
    MaxCount = 2
    MaxFaults = 1
    MaxSockets = 3
    MaxUp = 2
    MaxDown = 1
    MaxChanges = 1
    MaxBuilds = 1
    Nobody = Nobody
INVARIANTS
    ChannelTypeOK
    OnlyTheOwnerWatches
    SubscriptionsAgree
PROPERTIES
    SubscriptionIsKept
    AccountIsShown
CHECK_DEADLOCK FALSE
