\* Two processes, two binder threads; a process may register a second time.
SPECIFICATION FairSpec
CONSTANTS
  Binders = {b1, b2}
  Threads = {t1, t2}
  NoThread = NoThread
  MaxClients = 2
  MaxSessions = 1
INVARIANTS ManagerTypeOK RegistryAgrees RemoveFindsClient OrphansOnlyByRace
PROPERTIES DeadIsRemoved
\* Registrations and submissions are bounded: the manager comes to rest.
CHECK_DEADLOCK FALSE
