SPECIFICATION Spec
CONSTANTS
    Radix = 4
    Space = 1
    Whitespace = {1}
    Digest <- ShortDigest
    Messages <- SomeMessages
    PublicationTypes <- Publications
INVARIANTS
    DamageStaysLocal
    AcceptedPayloadIsIntact
CHECK_DEADLOCK FALSE
