SPECIFICATION FairSpec
CHECK_DEADLOCK FALSE
CONSTANTS
    Setups <- CommandLines
    Wrap = 16
INVARIANTS AnswerDue WindowKept LoadedWhenDone LoadInv
PROPERTIES Finishes
