SPECIFICATION Spec
CONSTANT MaxEdits = 3
INVARIANT FramesCarryTheSubscribedType
