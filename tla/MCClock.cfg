SPECIFICATION Spec
CONSTANT Half = 8
INVARIANT DeadlineExact
