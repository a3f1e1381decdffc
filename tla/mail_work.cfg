SPECIFICATION WorkSpec
CONSTANTS
  Verifications = {v1}
  Sends = {m1}
  Uids = {1, 2, 3}
  MaxValue = 2
  MaxLimit = 2
  MailOps = {o1, o2}
  MailConns = {c1, c2}
  Folders = {inbox, archive}
  Inbox = inbox
  NoFolder = NoFolder
  NoMailConn = NoMailConn
  NoRequest = NoRequest
INVARIANTS
  IInv OkInTime OnlyTimeoutsLeaveWork
  InOrder BestFirst CutToLimit
  OnlyNamed Reusable
PROPERTY Settles
CHECK_DEADLOCK FALSE
