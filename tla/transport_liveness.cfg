CONSTANTS
    h1 = h1  h2 = h2  v1 = v1  v2 = v2  rogue = rogue  fake = fake
    toolApp = toolApp  otherApp = otherApp
    c1 = c1  c2 = c2  c3 = c3  r1 = r1  r2 = r2
    Hosts = {h1}
    Builds <- MCTwoBuilds
    Apps = {toolApp, otherApp}
    NoApp = NoApp
    AppOf <- MCAppOf
    Genuine = {v1, v2}
    Sets <- MCTwoSets
    Pins <- MCNoPins
    OnPlatform = TRUE
    Conns = {c1, c2}
    Reqs = {r1, r2}
    MaxIdlePerHost = 1
    NoHost = NoHost  NoBuild = NoBuild  NoReq = NoReq
SPECIFICATION FairSpec
PROPERTIES WaitersAnswered ConvergesToManager ListensAtLast
