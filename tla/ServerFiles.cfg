SPECIFICATION Spec
CONSTANTS
  Users = {t1, t2}
  Locks = {ioLock}
  ioLock = ioLock
  MaxAppended = 2
  InitialNames = {}
PROPERTY UploadsKept
\* With MaxAppended files saveFile finds no name.
CHECK_DEADLOCK FALSE
