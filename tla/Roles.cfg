\* Three accounts, a cap that moves below the number of distributors and back.
CONSTANTS
    None = None
    Addrs = {alice, bob, carol}
    Deployer = alice
    Caps = {0, 1, 2}
    DefaultCap = 2
SPECIFICATION RolesSpec
PROPERTIES
    HandoverByConsent
    
