\* One visitor after the other; one deployment, render or change of the limits;
\* two dead containers, failed calls or crashes.
SPECIFICATION FairSpec
CONSTANTS
    v1 = v1
    Visitor = {v1}
    Null = Null
    MaxRequests = 1
    MaxTroubles = 2
INVARIANTS
    TypeOK
    SecretMatches
    VerdictIsNews
PROPERTIES
    IdleStopped
    VisitsRevive
