SPECIFICATION FeedFairSpec
CONSTANTS
    OutCap = 2
    PipeCap = 2
    SubCap = 2
    Sub = {s1, s2}
    HelperMayExit = TRUE
    MaxFeedEvents = 6
INVARIANT LossesAreNoticed
INVARIANT SubscribersAreCurrent
PROPERTY AcceptedIsApplied
CHECK_DEADLOCK FALSE
