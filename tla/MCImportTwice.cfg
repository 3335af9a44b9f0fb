SPECIFICATION Spec
CONSTANTS
    f = f
    Files = {f}
    PartCount = 2
    None = None
    MaxUploads = 2
    MaxCreates = 2
    MaxEnded = 0
    MaxTrouble = 1
INVARIANT OneCampaignPerWish
CHECK_DEADLOCK FALSE
