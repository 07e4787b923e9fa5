SPECIFICATION FairSpec
CONSTANTS
  Actives = {a1, a2, a3}
  Nobody = Nobody
  Guest = Guest
  MaxActive = 2
  MaxOwed = 1
INVARIANT
  TypeOK
PROPERTIES
  OncePerStep
  StepServesDue
  CompletedIsServed
