\* Two runs of any tool, two failures, crashes or outside changes.
CONSTANTS
    Actions = {"stop", "pause", "recreate", "switch", "netem", "rowlock", "drill", "deadlock", "message"}
    MaxRuns = 2
    MaxFailures = 2
SPECIFICATION FairSpec
INVARIANT VerdictIsHonest
PROPERTIES JournalSpec  RecoveryEnds
