\* A guest that resumes and one that starts over, their sessions one after the
\* other and at the same time; the second attempt passes the truncation at 5.
SPECIFICATION FairSpec
CONSTANTS
    Nodes = {a, b}
    Program <- Workflow
    Oversized <- LastCall
    SnapshotPeriod = 3
    MaxVersion = 4
    MaxFailures = 1
CHECK_DEADLOCK FALSE
INVARIANTS TypeOK RerunMatches CompletedMeansPerformed RecordedIsFound
    
PROPERTY EventuallyDone
