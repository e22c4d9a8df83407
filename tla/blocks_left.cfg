\* One thread that may leave a block with a break.
SPECIFICATION Spec
CONSTANTS
    Thread = {t1}
    MaxStarts = 2
INVARIANTS
    TodoOnlyInBlock
