\* Two slots; three readers and one writer that calls again and again, with and
\* without force, or one reader and two such writers.
CONSTANTS
  r1 = r1
  r2 = r2
  r3 = r3
  w1 = w1
  w2 = w2
  Readers = {r1, r2, r3}
  Writers = {w1, w2}
  MaxClients = 2
  None = None
SPECIFICATION MCSpec
INVARIANT SlotsAccounted
INVARIANT WriterExclusive
PROPERTY ImplementsReaderPool
PROPERTY ShutdownDrains
PROPERTY Served
