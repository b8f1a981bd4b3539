SPECIFICATION RecorderSpec
CONSTANTS
    Ttl = 1
    SizeCap = 3
    MaxFiles = 4
    MaxTime = 3
    Sizes = {1, 2, 4}
PROPERTIES
    RetentionHolds
    ReportedFileExists
