SPECIFICATION Spec
CONSTANTS
  NSlots = 3
  MaxFrames = 6
PROPERTY NewestFinishedIsTaken
