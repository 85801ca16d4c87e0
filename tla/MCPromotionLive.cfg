CONSTANTS
    Works = {1}
    Deps = {}
    Required = {1}
    Attempts = {1}
    Base = Base
    Foreign = Foreign
    None = None
SPECIFICATION FairSpec
PROPERTIES
    PublishedIsAccepted
    OwnershipEnds
    ServesAgain
