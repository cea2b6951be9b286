\* Two threads install, repeat the callback, and refresh what was installed.
CONSTANTS
  Threads = {t1, t2}
  OAuthStates = {s1}
  MaxFaults = 1
  MaxGrants = 3
SPECIFICATION Spec
INVARIANTS TypeOK StateSpentOnce StaysRefreshable
PROPERTIES StoreHeals
