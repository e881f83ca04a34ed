\* No Reset, nothing comes or goes, every driver behaves: one late answer is all
\* that can happen.
CONSTANTS
    Threads = {first}
    First = first
    NumPorts = 3
    BoardPorts = {1, 2}
    MaxChanges = 0
    MaxOdd = 0
SPECIFICATION FairSpec
PROPERTIES
    BoardIsFound
CHECK_DEADLOCK FALSE
