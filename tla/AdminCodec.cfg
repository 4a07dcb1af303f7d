CONSTANTS
    Zero = Zero
    Clash = Clash
SPECIFICATION Spec
INVARIANTS
    RoundTrip
    BoardReadsFilter
    ProbeReadsBoard
PROPERTIES
    ImplementsStream
