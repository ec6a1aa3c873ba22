SPECIFICATION Spec
CONSTANTS
    Uploads = {u}
    Plain = {}
    Writers = {x}
    Cleaners = {c}
    Window = 1
    MinAge = 1
    MaxTime = 1
    MaxFaults = 0
INVARIANT OwnedUploadKept
