\* Four cells: two commands can be lost and the list refilled afterwards.
CONSTANTS
  Commands = {skip, pause, play}
  NoCommand = NoCommand
  Cells = {e1, e2, e3, e4}
  NULL = NULL
SPECIFICATION QueueSpec
INVARIANT NoDanglingEntry
PROPERTY MailboxSpec
CHECK_DEADLOCK FALSE
