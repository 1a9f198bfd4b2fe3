\* Does the loop empty the channel when the user has left the screen?
SPECIFICATION Spec
CONSTANTS
    Capacity = 2
    Samples = 4
INVARIANTS LoopDrainsAfterUi
