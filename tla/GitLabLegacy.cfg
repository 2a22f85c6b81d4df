\* The gitlab tool.
SPECIFICATION Spec
CONSTANTS
    Tool <- GitLabOnly
    NotGiven = NotGiven
    PluginTimeout = NotGiven
    GlobalTimeout = 60
INVARIANT FunctionsExist
CHECK_DEADLOCK FALSE
