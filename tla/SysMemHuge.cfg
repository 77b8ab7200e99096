SPECIFICATION Spec
CONSTANTS
    Word = 32
    Granule = 2
    Lo = 6
    Hi = 17
    NBlocks = 3
    Size = {2, 5, 26}
    Align = {4}
    Want = {7, 12}
INVARIANT BlocksApart
