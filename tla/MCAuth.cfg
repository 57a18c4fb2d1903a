\* REST: answers in any order, jobs that fail. DDP: ordered answers, a socket that closes.
SPECIFICATION Spec
CONSTANT MaxCalls = 3
INVARIANT TypeOK
INVARIANT OngoingAwaitsAnswer
PROPERTY ImplementsProtocol
PROPERTY OngoingEnds
