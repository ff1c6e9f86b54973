\* A child may end before the parent's own stream has been marked.
SPECIFICATION Spec
CONSTANTS
  N = 2
  Streams <- VideoOnly
  FaultyChildren <- NoChildren
  FaultyWriters <- NoChildren
  Hasty = TRUE
PROPERTIES StopCompletes
