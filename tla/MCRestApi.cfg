SPECIFICATION Spec
CONSTANTS
  Interface = {1, 2}
  Id = {1, 3}
  Device = Device
  Name = {"", "lan"}
  NoName = ""
  Hostname = {"Switch", "edge"}
  DefaultHostname = "Switch"
  MacTimeout = {short, long}
  DefaultMacTimeout = short
  short = short
  long = long
  SessionTimeout = 1
  PurgeEvery = 2
  MaxDenied = 1
  MaxLogins = 2
INVARIANTS TypeOK EachLoginItsOwn OverdueIsShort NoSessionFromBefore
PROPERTIES  ImplementsAuthorisation SessionsEnd
