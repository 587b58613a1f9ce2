CONSTANTS
    Victim = Victim
    Attacker = Attacker
    PagesDomain = PagesDomain
    Tenant = Tenant
    AttackerSite = AttackerSite
    IdP = IdP
    DotSuffix = {}
    Nonces <- MCNonces
    None = None
    NoCookie = NoCookie
    MaxLures = 1
    MaxSends = 3
    MaxRevokes = 0
    MaxFailures = 0
SPECIFICATION Spec
INVARIANT OnlyAuthorisedServed
