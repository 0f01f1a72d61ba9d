CONSTANTS
  Checks = {1, 2}
  Streams = {1, 2}
  Installers = {1, 2}
  MaxNotes = 1
SPECIFICATION RunsSpec
INVARIANTS StreamToldAll
PROPERTIES EveryCheckEnds
