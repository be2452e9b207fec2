SPECIFICATION Safe
CONSTANTS
  Liveness = FALSE
  None = None
  upnp = upnp
  boot = boot
  a1 = a1
  a2 = a2
  b1 = b1
  e1 = e1
INVARIANTS TypeOK DevicesRight SoundRight DataRight
PROPERTIES StepsRight
CHECK_DEADLOCK FALSE
