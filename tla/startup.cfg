SPECIFICATION Spec
CONSTANT MaxAddrs = 6
INVARIANT OneSocket
PROPERTY StartupEnds
