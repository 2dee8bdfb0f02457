SPECIFICATION AccountsSpec
CONSTANTS
  People = {y1, y2}
  BusinessTokens = {1, 2}
  AccountTokens = {3, 4}
  AdminTokens = {5}
  Nil = Nil
  MaxPassword = 2
  Persons = {y1, y2, m1}
  Installer = m1
  NoPerson = NoPerson
  Tabs = {z1, z2}
  LinkIds = {l1, l2}
  MaxHash = 3
  MaxSecret = 3
  AdminSessions = {y1, y2}
  NoToken = NoToken
  Attempts = {z1, z2}
  Lock = 2
  RecoveryCodes = {rc}
  MaxStep = 1
  MaxSecrets = 2
  MaxLeaks = 1
  Businesses = {b1, b2}
  This = b1
  Addresses = {i1, i2}
  NoAddress = NoAddress
  OwnInbox = i1
  Saves = {z1, z2}
  MaxSenders = 1
  MaxMailed = 2
  Asked = {z1, z2}
  MaxRecords = 1
  MaxTicks = 1
  MaxLog = 3
  MaxSessions = 2
CONSTRAINT AccountsBounds
SYMMETRY Interchangeable
INVARIANTS
  SessionsInv
  MembersInv
  FactorInv
  ContactInv
  ClientsInv
PROPERTIES
  NoReplay
  
  ConfirmedByItsInbox
  OnlyTheirsToChange
