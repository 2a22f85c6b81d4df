\* Every tool that works on a remote service, with every command.
SPECIFICATION FairSpec
CONSTANTS
    Tool <- AllTools
    NotGiven = NotGiven
    PluginTimeout = NotGiven
    GlobalTimeout = 0
INVARIANTS TypeOK ConfirmedIsReported ChangesCarryToken SummaryIsHeeded
PROPERTIES ImplementsRemoteCall CallsAreAnswered
CHECK_DEADLOCK FALSE
