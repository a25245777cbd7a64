SPECIFICATION HandlersSpec
CONSTANTS
    CHUNK_SIZE = 2
    MAX_PAYLOAD = 6
    MaxPiece = 4
    DB_0 = DB_0
    DB_1 = DB_1
    Handles = {h1, h2, h3, h4}
    NoHandle = NoHandle
INVARIANTS HttpInv DbInv ErrorIsOwn RepliesInv FailuresInv
