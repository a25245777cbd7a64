SPECIFICATION Spec
CONSTANTS
    MaxRequests = 3
    Users = {u1, u2}
    WideUsers = {w}
    NoUser = NoUser
    JWT_TIMEOUT = 1
INVARIANTS PipelineInv Guarded TokenIsHonoured ReplyComplete
