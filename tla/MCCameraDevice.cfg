SPECIFICATION Spec
CONSTANTS
  Devices = {d1, d2}
  NoDevice = NoDevice
  Memories = {m1, m2}
  kMaxMemorySlots = 2
  Windows = {w1, w2}
  NoWindow = NoWindow
  Buffers = {b1}
  WindowDevices = {d1}
INVARIANTS SessionsAgree MemoryOwned BuffersKnown ParametersKept
