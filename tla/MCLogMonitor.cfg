SPECIFICATION Spec
CONSTANTS
  Sources <- MCSources
  Label = {"failed"}
  NoWord = "-"
  max_line_bytes = 1
  max_lines_per_poll = 1
  window = 2
  MaxLines = 3
  MaxTime = 2
  MaxReplace = 1
CHECK_DEADLOCK FALSE
INVARIANTS ExactlyOnce CooldownExact
