\* Two connections of one user, two channels, messages Redis may lose.
CONSTANTS
    Client = {"c1", "c2"}
    User = {"ann", "bob"}
    UserOf <- TwoWindows
    Subscriber = {"tasks", "settings"}
    Feed <- MixedFeeds
    RedisDrops = TRUE
SPECIFICATION FairSpec
INVARIANTS TypeOK NeverSendOnClosed InOrder
PROPERTIES SlowClientsBlockNobody LeaversAreForgotten
CHECK_DEADLOCK FALSE
