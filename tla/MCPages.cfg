SPECIFICATION Spec
CONSTANTS
    i1 = i1
    i2 = i2
    k1 = k1
    k2 = k2
    x = x
    y = y
    None = None
    Blank = Blank
    Undefined = Undefined
    Cap = 3
    Sizes = {0, 2, 3, 5}
    Chunks = {1, 2}
    Submissions = {1, 2}
    Documents <- PageDocuments
    Policies <- PagePolicies
    Originals <- PageOriginals
    MaxChanges = 2
    Meaning <- Meanings
    KeyOrder <- Keys
    MaxDepth = 2
    MaxTokens = 9
INVARIANTS
    DeliveredWhole
    ResultOfLastAnswer
    CanonicalForm
PROPERTY
    PagesSettle
CHECK_DEADLOCK FALSE
