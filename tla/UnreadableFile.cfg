\* A file that cannot be read to its end, ahead of one that can.
SPECIFICATION FairSpec
CONSTANTS
  r1 = r1  r2 = r2
  Producer = {r1}
  Name = {1, 2}
  Rows <- BrokenRows
  Message <- Messages
  QueueLimit = 1
PROPERTY UnreadableIsSetAside
