SPECIFICATION FairSpec
CONSTANTS
  admin = admin
  alice = alice
  sso = sso
  old = old
  new = new
  None = None
  Usernames = {admin, alice}
  Subs = {sso}
  Passwords = {old, new}
  Admin = admin
  AdminPassword = old
  LegacyAccounts <- TwoAccounts
  LegacyEntries = {sso}
  Handlers = {h1}
  Env = {}
  MaxFailures = 2
  MaxRestarts = 2
INVARIANT OneAccountPerSub
 
PROPERTY LegacyOutlived
PROPERTY BootFinishes
