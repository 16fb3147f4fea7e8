SPECIFICATION FairSpec
CONSTANT Interval = 8
INVARIANTS
    OneCrawl
    PromptStart
PROPERTIES
    BackoffHeld
    OverdueIsCrawled
