CONSTANTS
    v1 = v1  v2 = v2  toolApp = toolApp
    Hosts = {}
    Builds = {v1, v2}
    Apps = {toolApp}
    NoApp = NoApp
    AppOf <- MCAppOf
    Genuine = {v1, v2}
    Sets <- MCSets
    Pins <- NoDeps
    OnPlatform = TRUE
SPECIFICATION SummarySpec
INVARIANT SummaryOfOneSet
