\* Two requests at a time; two documents of three versions each.
SPECIFICATION FairSpec
CONSTANTS
    Contents = {A, B}
    Requests = {r1, r2}
    DocumentIds = {d1, d2}
    MaxVersion = 3
    None = None
INVARIANTS TypeOK VersionBytesStored
PROPERTIES VersionLogSpec FirstUploadsSettle RequestsEnd
\* The model stops when RoomLeft leaves no version to upload; RequestsEnd
\* finds any earlier stop.
CHECK_DEADLOCK FALSE
