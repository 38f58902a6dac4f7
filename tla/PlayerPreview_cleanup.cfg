SPECIFICATION FairSpec
CONSTANT Timeout = 1
PROPERTY InactiveIsCleanedUp
