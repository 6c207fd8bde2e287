SPECIFICATION Spec
INVARIANTS
    SuccessIsGenuine
    KilledAtDeadlineIsTimeout
PROPERTIES
    ImplementsAdapterCall
