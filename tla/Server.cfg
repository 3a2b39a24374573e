SPECIFICATION Spec
CONSTANTS
    c1 = c1  c2 = c2  c3 = c3
    Checks = {c1, c2, c3}
    Deployments <- MCDeployments
    Settings <- MCSettings
    Hosts <- MCHosts
    PROBE_TIMEOUT = 5
    REQUEST_TIMEOUT = 10
    HTTP_DRAIN_TIMEOUT = 10
    TICK = 5
INVARIANTS
    TypeOK
    ActsAsIntended
    LinksAreServed
    DocumentsAreServed
    AdvertisedSuffices
    TimeoutsExplained
    ShutdownKeepsItsTimes
PROPERTIES
    ChecksAnswered
