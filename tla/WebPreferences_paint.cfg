\* Every stored mode, both preferences of the system, storage or none.
CONSTANT None = None
SPECIFICATION Spec
INVARIANT FirstPaintIsRight
