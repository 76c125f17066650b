SPECIFICATION TlsSpec
INVARIANT HandshakeSound
CHECK_DEADLOCK FALSE
