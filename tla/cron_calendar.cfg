CONSTANTS
  MaxMinute = 2
  MaxHour = 1
  MaxDom = 3
  MaxMonth = 2
  Lowest <- ShortLowest
  Highest <- ShortHighest
  Crontab <- ShortCrontab
  NoSchedule = NoSchedule
SPECIFICATION Spec
INVARIANTS
  FiresAsCron
  NeverUnasked
