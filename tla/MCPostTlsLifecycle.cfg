SPECIFICATION LiveSpec
CONSTANTS
  Irq80Limit = 2
  AttemptLimit = 3
  MaxStrays = 3
  MaxErrors = 2
INVARIANTS TypeOK FailsOnlyForCause SensorIsAsked HandsOverArmed
PROPERTIES ImplementsCapture CaptureEnds
