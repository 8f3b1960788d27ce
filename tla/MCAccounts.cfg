\* Two accounts, two browsers, three tabs, five submissions of the forms.
SPECIFICATION Spec
CONSTANTS
  d1 = d1  d2 = d2  t1 = t1  t2 = t2  t3 = t3  ann = ann  bob = bob
  annReg = annReg  annReg2 = annReg2  bobReg = bobReg
  annLog = annLog  bobLog = bobLog
  Device = {d1, d2}
  Tab = {t1, t2, t3}
  DeviceOf <- MCDeviceOf
  Name = {ann, bob}
  Form = {annReg, annReg2, bobReg, annLog, bobLog}
  TabOf <- MCTabOf
  IsLogin <- MCIsLogin
  NameOf <- MCNameOf
  None = None
INVARIANTS TypeOK KeyMatches SessionKeyKept SealedOpens
PROPERTY SavedStays
CHECK_DEADLOCK FALSE
