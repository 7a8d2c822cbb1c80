SPECIFICATION Spec
CONSTANTS
    Users = {alice, bob}
    Texts = {fact, rumour}
    MaxMemories = 4
INVARIANT TypeOK
INVARIANT SupersedeChain
PROPERTY AuditTrail
PROPERTY OneOwner
