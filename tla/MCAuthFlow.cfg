CONSTANTS
    Victim = Victim
    Attacker = Attacker
    PagesDomain = PagesDomain
    Tenant = Tenant
    AttackerSite = AttackerSite
    IdP = IdP
    DotSuffix = {}
    Nonces <- MCNonces
    None = None
    NoCookie = NoCookie
    MaxLures = 1
    MaxSends = 2
    MaxRevokes = 1
    MaxFailures = 1
SPECIFICATION Spec
PROPERTY VictimEventuallyServed
