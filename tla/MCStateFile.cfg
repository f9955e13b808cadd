\* A thread of the scanner and the generate command.
CONSTANTS
  Processes = {{prioritizer}, {generate}}
  MaxVersion = 2
SPECIFICATION Spec
INVARIANTS
  TypeOK
  
  SerialSetsKept
PROPERTIES
  OperationsEnd
