\* Two requests launch Chrome, on the image and off it, in a process that is killed and
\* started again at any moment.
SPECIFICATION Spec
CONSTANTS
  None = None
  Main = main
  Request = {r1, r2}
SYMMETRY Symmetry
INVARIANTS
  TypeOK
  SharedPartsAreReady
  CredentialsAreTaken
  CredentialsLeaveDisk
