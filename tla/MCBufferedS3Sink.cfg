\* A threshold of 2 units, chunks of 1 to 3 units and at most 3 of them,
\* so that a stream fills up to 4 parts and the etag channel of capacity
\* 2 can be full; one failing S3 call.
CONSTANTS
    Threshold = 2
    ChunkSizes = {1, 2, 3}
    MaxChunks = 3
    GivenPart = 3
    ChannelCapacity = 2
    MaxS3Failures = 1
SPECIFICATION Spec
INVARIANTS
    TypeOK
    UploadPartsWellFormed
PROPERTY ImplementsS3Upload
\* The upload ends once process_bytes has returned Ok(true) or an error.
CHECK_DEADLOCK FALSE
