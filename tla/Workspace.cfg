\* A caller of the mcwsd tool, with files in one session and with jobs in others.
SPECIFICATION Spec
CONSTANTS
    Sessions <- FilesAndJobs
    Workspaces <- OneWorkspace
    Paths <- TwoPaths
    Texts <- TwoTexts
    TimeoutOption = 0
    MaxJobs = 2
    MaxOutput = 2
    MaxLate = 1
INVARIANTS WTypeOK OutputOnce OnlyNamedEnds SuccessIsSo NoWriteDropped StartedAsAsked
