SPECIFICATION Spec

CONSTANTS
    Nibble = 4
    PktTypeCallRequest = 11
    MaxCallRequestSize = 20
    Servers <- MCServers
    Destinations <- MCDestinations
    Calls <- MCCalls
    Answers <- MCAnswers
    MaxChanges = 1
    MaxHops = 2

INVARIANTS TypeOK AddressesSurvive FacilitiesArrive SentWhereRouted
PROPERTIES SteadyDNSNoLoop SelfDialNeedsChange

CHECK_DEADLOCK FALSE
