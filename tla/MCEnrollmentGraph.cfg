SPECIFICATION LiveSpec
CONSTANTS
  Required = 4
  Irq80Limit = 2
  MaxRetries = 2
  MaxStrays = 3
  MaxErrors = 1
INVARIANTS TypeOK FailsOnlyForCause InStep
PROPERTIES ImplementsEnrollment EnrollmentEnds
