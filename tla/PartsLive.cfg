SPECIFICATION Spec
CONSTANTS
  Liveness = TRUE
  None = None
  upnp = upnp
  boot = boot
  a1 = a1
  a2 = a2
  b1 = b1
  e1 = e1
PROPERTIES DevicesSettle SoundSettles DataSettles
CHECK_DEADLOCK FALSE
