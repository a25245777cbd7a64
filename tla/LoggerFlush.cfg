SPECIFICATION Spec
CONSTANTS
    Main = main
    Threads = {main, a}
    NoThread = NoThread
    MaxLines = 2
    POOL_SIZE = 2
    BATCH_SIZE = 2
    PIPE_BUF = 2
    LineLen = 2
INVARIANT FlushedOnReturn
