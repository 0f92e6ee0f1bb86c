SPECIFICATION Spec
CONSTANTS
  Threads = {t1, t2, t3}
  Boot = boot
  Values = {0, 1}
  NoContext = nocontext
  NoFrame = noframe
  RT_ALIGN_SIZE = 2
  MIN_SIZE = 3
  SIZEOF_STRUCT_MEM = 4
  mem_size_aligned = 24
  Sizes = {0, 2, 4, 5, 7, 10, 16, 24, 25}
  NoMem = NoMem
  Codes = {17}
  DEPTH = 4
  LastBit = 1
  MaxEvents = 2
  MaxWait = 2
INVARIANTS ContextsKept HeapConsistent NullOnlyIfFull KeyboardFaithful
PROPERTIES ReadAnswered
