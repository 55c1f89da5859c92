SPECIFICATION StoreSpec
CONSTANTS
    handler = handler
    worker = worker
    pipeline = pipeline
    session = session
    fresh = fresh
    Setters = {handler, worker, pipeline}
    Stores = {session, fresh}
    StoreOf <- MCStoreOf
    MaxUpdates = 1
    MaxRestarts = 1
INVARIANTS
    LostOnlyInOverlap
CHECK_DEADLOCK FALSE
