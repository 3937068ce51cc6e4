\* The same PDFs, and what the storage client says of existing keys.
SPECIFICATION Spec
CONSTANTS
    MaxPages = 2
    MaxImages = 2
    MaxTables = 1
    MaxChunks = 2
    None = None
INVARIANT
    UploadedKeyHoldsItsImage
