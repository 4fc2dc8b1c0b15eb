\* Two Sums, an aggregation and the join, one client, fairness.  The two records are
\* of two fruits that tie, so that their names decide the top of one fruit.
SPECIFICATION FairSpec
CONSTANTS
    s1 = s1
    s2 = s2
    c1 = c1
    Sums = {s1, s2}
    Clients = {c1}
    Records = {1, 2}
    Fruits = {1, 2}
    TOP_SIZE = 1
    AGGREGATION_AMOUNT = 1
    ClientOf <- MCClientOf
    FruitOf <- MCFruitOf
    Units <- MCUnits
    TargetAggregation <- MCTargetAggregation
INVARIANTS
    AnswerIsTopOfForwarded
PROPERTIES
    ImplementsUploadService
    EveryUploadIsAnswered
    EofReachesEverySum
CHECK_DEADLOCK FALSE
