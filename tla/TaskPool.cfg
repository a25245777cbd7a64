CONSTANTS Threads = {r1, r2}
          PoolSize = 4
          CacheSize = 2
SPECIFICATION PoolSpec
INVARIANTS PoolInv RefusalMeansLoad
PROPERTIES CleanLease ImplementsTaskLease
