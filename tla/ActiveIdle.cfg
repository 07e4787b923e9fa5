SPECIFICATION Spec
CONSTANTS
  Actives = {a1, a2}
  Nobody = Nobody
  Guest = Guest
  MaxActive = 2
  MaxOwed = 2
INVARIANT
  OneRunPerCompletion
