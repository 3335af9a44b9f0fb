SPECIFICATION Spec
CONSTANTS
    f = f
    Files = {f}
    PartCount = 2
    None = None
    MaxUploads = 3
    MaxCreates = 3
    MaxEnded = 1
    MaxTrouble = 1
INVARIANT TypeOK
INVARIANT NobodysFile
INVARIANT RecordedIsStored
INVARIANT KnownHasItsFiles
INVARIANT OncePerUpload
CHECK_DEADLOCK FALSE
PROPERTY ThePersonGetsThere
