SPECIFICATION Spec
CONSTANTS
  Conn = {c1, c2}
  Timer = {t1, t2}
  NoTimer = NoTimer
PROPERTIES
  EraseSchedulesOffline
