CONSTANT BufSize = 3
SPECIFICATION Spec
INVARIANTS TypeOK ModeOK
PROPERTY PlayHeard
