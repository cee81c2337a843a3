SPECIFICATION EditorSpec
CONSTANTS
  Files <- EditorFiles
  EditorLetters = {1, 2}
  MaxBuffer = 3
INVARIANT CursorIsBetweenCharacters
CHECK_DEADLOCK FALSE
