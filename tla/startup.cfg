\* Two backends and the worker with two feeds, and NATS that comes and goes.
SPECIFICATION Spec
CONSTANTS
  Backends = {b1, b2}
  Worker = Worker
  N = 2
INVARIANTS TypeOK WorksOnWhatItSetUp NoSendOnClosed
PROPERTIES NothingWaitsForever NoHalfStart AllFeedsStart
