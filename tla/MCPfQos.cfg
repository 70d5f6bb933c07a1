SPECIFICATION QosFairSpec
CONSTANTS
    Queues <- FourQueues
    priority <- TwoGroups
    quota <- Quotas
    Removable <- FourQueues
    MaxBacklog = 2
INVARIANTS ChainSorted StreakWithinQuota
PROPERTIES TopIsServed
CHECK_DEADLOCK FALSE
