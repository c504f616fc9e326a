SPECIFICATION Spec
CONSTANTS
  h1 = h1
  h2 = h2
  h3 = h3
  t1 = t1
  t2 = t2
  State = {s1, s2}
  Handle <- MCHandle
  Thread <- MCThread
  Null = Null
  NoObject = NoObject
INVARIANTS
  TypeOK
  CountExact
  NoUseAfterFree
PROPERTIES
  OwnsJointly
