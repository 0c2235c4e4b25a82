SPECIFICATION Spec
CONSTANTS
  Threads = {t1}
  Secrets = {s1}
  Existing = {s1}
  MaxWrites = 1
  NoVault = NoVault
  NoSecret = NoSecret
PROPERTIES
  CredentialsConsistent
