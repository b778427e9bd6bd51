\* Three workers; a lease of eight ticks, a heartbeat of three.
CONSTANTS
  Worker = {k1, k2, k3}
  NoWorker = NoWorker
  Lease = 8
  Heartbeat = 3
  Attempt = 2
  Setup = 2
SPECIFICATION Spec
INVARIANTS CopierHoldsLease CancelHeeded
