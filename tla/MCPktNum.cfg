CONSTANTS
    Offs = {0, 1, 2, 3}
    Block = 2
    Prios = {1, 3}
SPECIFICATION PktNumSpec
INVARIANTS RequestsMatchBudget YesHasAReason
