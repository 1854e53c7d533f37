CONSTANTS
  Nil = Nil
  Null = Null
  Wrong = Wrong
  Unknown = Unknown
  Refused = Refused
  Samples <- MCSamples
  Edits <- MCEdits
  MaxDamage = 1
SPECIFICATION Spec
INVARIANTS RoundTrip ReadsCanonical DamageTells
