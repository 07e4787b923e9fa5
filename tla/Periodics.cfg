SPECIFICATION FairSpec
CONSTANTS
  Timers = {t1, t2, t3}
  Nobody = Nobody
  Guest = Guest
  MaxPer = 2
  Delays = {0, 31249}
  MaxCount = 2
  MaxTicks = 4
INVARIANT
  TypeOK
PROPERTIES
  OncePerFrame
  TimeAdvances
  FrameCoversRecorded
  PumpEnds
