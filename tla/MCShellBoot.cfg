CONSTANT BufSize = 3
SPECIFICATION Spec
PROPERTY NoLogoDuringMelody
