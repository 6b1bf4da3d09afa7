\* MaxDepth: 10 nodes below a class's compounddef, which reaches sections four deep
\* and their text in a member's description, and text linked in a parameter's name.
\* MaxMore: 5 nodes, enough for two members with texts, two parameters with names,
\* a second name, and declared parameters beside described ones.
\* Every behaviour ends when its document has been exported.
CONSTANTS
    MaxDepth = 14
    MaxMore = 5
SPECIFICATION Spec
CHECK_DEADLOCK FALSE
INVARIANTS
    TextShownOnce
    NothingDropped
