CONSTANT Images = {"good", "bad"}
SPECIFICATION Spec
INVARIANTS TypeOK StateTellsWork Recoverable
PROPERTIES UpdateTerminates ImplementsFirmware
