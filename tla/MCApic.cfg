\* Two devices and the unit's own vectors nest three deep: a handler is
\* interrupted by a higher vector, soft IRQs are interrupted by handlers,
\* and soft IRQs are asked for at every point.  After the panic of
\* phantom_init_apic(), or of a broadcast without an APIC, nothing more
\* happens.
CONSTANTS
    DeviceVectors <- MCDeviceVectors
    ErrorBits <- MCErrorBits
    UnitIds <- MCUnitIds
    MaxNest = 3
    SendIllVect = SendIllVect
    RecvIllVect = RecvIllVect
SPECIFICATION Spec
CHECK_DEADLOCK FALSE
INVARIANTS
    TypeOK
    InServiceMatchesHandlers
    SoftIrqAtBaseOnly
    IrqNestDescribesStack
PROPERTIES
    PendingSoftIrqRuns
