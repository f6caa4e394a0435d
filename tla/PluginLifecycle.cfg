CONSTANT Conns = {c1, c2, c3}
SPECIFICATION FairSpec
INVARIANTS NothingServedAfterStop StatusFollowsServer
PROPERTIES StartAndStopComplete
CHECK_DEADLOCK FALSE
