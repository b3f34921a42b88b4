\* Two PRs, two tags of a day and the baseline; the budgets bound the rest.
SPECIFICATION ChangelogSpec
CONSTANTS
    MaxPR = 2
    MaxTag = 2
    Budgets <- MCBudgets
    Null = Null
INVARIANTS
    ShipsOnce
    ManifestKnowsReleases
PROPERTIES
    PublishedBodyStable
    EveryMergeRecorded
CHECK_DEADLOCK FALSE
