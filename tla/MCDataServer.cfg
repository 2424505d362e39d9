\* One request to the data server: a single or multipart upload of up to
\* five bytes cut into chunks above two bytes, or a download of three,
\* through channels of capacity one so that every stage blocks on a full
\* channel. A request ends in a final state, so deadlock is not checked;
\* RequestCompletes says that it ends there.
CONSTANTS
    ChunkSize = 2
    ItemSizes = {1, 2}
    MaxBytes = 5
    ObjectSize = 3
    Capacity = 1
SPECIFICATION Spec
PROPERTY ImplementsS3Upload RequestCompletes
CHECK_DEADLOCK FALSE
