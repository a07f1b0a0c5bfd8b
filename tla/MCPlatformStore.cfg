SPECIFICATION Spec
CONSTANTS
    Chars <- MCChars
    Subjects <- MCSubjects
    Gids <- MCGids
    Emails = {e1}
    MaxCount = 2
    MaxKeys = 4
INVARIANT
    ScansExact
PROPERTY
    Implements
