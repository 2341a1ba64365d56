SPECIFICATION Spec
CONSTANTS
  t1 = t1
  t2 = t2
  d1 = d1
  d2 = d2
  Thread = {t1, t2}
  Device = {d1, d2}
  Known = {"backlight", "battery"}
  VendorOpens = {"backlight", "battery", "attention"}
  MaxOpen = 2
  Name = {"backlight", "battery", "attention"}
  Color <- MCColor
  gamma <- MCGamma
  Min = 20
  Faults = {"module", "open", "write"}
  Nobody = Nobody
INVARIANTS
  TypeOK
  NoneLeftOpen
PROPERTIES
  ShownOnSuccess
