\* Two readers, one of them killed, and a writer; the counters wrap at 4.
SPECIFICATION FairSpec
CONSTANTS
  r1 = r1
  r2 = r2
  w1 = w1
  Readers = {r1, r2}
  Writers = {w1}
  Byte = {0, 1}
  PIPESIZE = 2
  W = 4
  MaxN = 2
  Victims = {r1}
 
PROPERTIES PipeIsFifo SleepersWake
