SPECIFICATION FairSpec
CONSTANTS
  w1 = w1
  w2 = w2
  s1 = s1
  s2 = s2
  Servers = {s1, s2}
  Sources <- Every
  Watchers = {w1}
  Senders <- Two
  Capacity = 1
  Partial = {2}
  MaxChanges = 1
  MaxErrors = 1
  MayClose = TRUE
PROPERTIES
  ListSpec
  CaughtUp
  WatchersCaughtUp
CHECK_DEADLOCK FALSE
