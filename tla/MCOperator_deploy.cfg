SPECIFICATION FairSpec
CONSTANTS
    role = role
    daemonset = daemonset
    nad = nad
    VspPod = VspPod
    ConfigDirs <- TwoSteps
    Immutable = {VspPod}
    MaxUid = 2
    MaxFaults = 1
    MaxEdits = 1
    MaxRestarts = 1
INVARIANTS ReadyMeansDeployed
PROPERTIES FinalizerGuards ReverseOrder Converges
CHECK_DEADLOCK FALSE
