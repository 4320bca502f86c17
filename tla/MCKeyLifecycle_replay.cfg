SPECIFICATION FairSpec
CONSTANTS
    k1 = k1
    k2 = k2
    k3 = k3
    bls = bls
    ed25519 = ed25519
    None = None
    Keys = {k1, k2, k3}
    Algorithms = {bls, ed25519}
    AlgOf <- MCAlgOf
    RunErrors = {"Unavailable", "PermissionDenied"}
    Deployments = {TRUE, FALSE}
    Configs = {bls, ed25519}
PROPERTIES
    AlwaysRecovers
