SPECIFICATION WatcherSpec
CONSTANTS
  Tickers = {t1}
  MaxEvents = 2
  Page = 2
  Silent = {}
  Remember = 1
  Standing = {}
  Hysteretic = {}
INVARIANT NothingSkipped
CHECK_DEADLOCK FALSE
