SPECIFICATION JwtFairSpec
CONSTANTS
    Workers = {w1, w2, w3}
    MaxTTL = 2
    BACKOFF = 2
INVARIANTS JwtInv
PROPERTIES FollowerWakes
