\* Two first uploads of one filename at the same time.
SPECIFICATION Spec
CONSTANTS
    Contents = {A, B}
    Requests = {r1, r2}
    DocumentIds = {d1, d2}
    MaxVersion = 3
    None = None
INVARIANTS OneDocumentPerFilename
