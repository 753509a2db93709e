\* SIGIO masked while host 0's program works on the barrier.
SPECIFICATION MCSpec
CONSTANTS
  hostnum = 3
  SigioPoints = {}
  MaxBarrier = 2
  MaxInterval = 1
INVARIANTS TypeOK BarrierAgreement
PROPERTIES ImplementsBarrierService TimestampsAdvance BarrierReleased
