SPECIFICATION Spec
CONSTANTS
    f = f
    Files = {f}
    PartCount = 2
    None = None
    MaxUploads = 1
    MaxCreates = 2
    MaxEnded = 0
    MaxTrouble = 1
INVARIANT EveryCampaignHasItsFiles
CHECK_DEADLOCK FALSE
