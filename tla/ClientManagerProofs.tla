------------------------- MODULE ClientManagerProofs -------------------------
(***************************************************************************)
(* The safety properties of ClientManager, for any number of processes,    *)
(* binder threads, clients and sessions.                                   *)
(***************************************************************************)
EXTENDS ClientManager, TLAPS

Leaving == {"cancelAll", "remove"}

\* mLock is held by the thread that is in addClient.
LockInv == \A t \in Threads : thread[t].at \in AddSteps <=> mLock = t

\* A client has a cookie from the beginning of addClient to removeClient; it is
\* in the map but for the time of addClient.
CookieInv ==
  /\ clients \subseteq sCookie2Client
  /\ linked \subseteq sCookie2Client
  /\ \A c \in sCookie2Client : c < sCookieCounter
  /\ \A t \in Threads : thread[t].at \in AddSteps =>
       /\ thread[t].client \in sCookie2Client \ clients
       /\ binderOf[thread[t].client] \notin callbacks
       /\ \A c \in sCookie2Client \ clients : c = thread[t].client
  /\ mLock = NoThread => sCookie2Client = clients

CallbackInv ==
  /\ \A c \in clients : binderOf[c] \in callbacks
  /\ \A b \in callbacks : \E c \in clients : binderOf[c] = b
  /\ \A c, d \in clients : binderOf[c] = binderOf[d] => c = d

\* A client that has no cookie any more has been abandoned; one that is being
\* cancelled or removed has both, and one thread does it.
LeaveInv ==
  /\ \A c \in ClientIds : c < sCookieCounter => c \in sCookie2Client \cup abandoned
  /\ \A t \in Threads :
       /\ thread[t].at \in LeaveSteps => thread[t].client < sCookieCounter
       /\ thread[t].at \in Leaving => thread[t].client \in sCookie2Client \cap abandoned
  /\ \A t, u \in Threads :
       /\ thread[t].at \in Leaving /\ thread[u].at \in Leaving
       /\ thread[t].client = thread[u].client
       => t = u

\* A call that is past the test of mAbandoned when the sessions of its client
\* are cancelled is marked.
CallInv ==
  \A t \in Threads :
    /\ thread[t].at = "submit" => thread[t].use \in Uses
    /\ thread[t].at \in ClientCalls /\ thread[t].client \in Cancelled => KeyOf(t) \in overtaken

ManagerInv ==
  /\ ManagerTypeOK
  /\ LockInv
  /\ CookieInv
  /\ CallbackInv
  /\ LeaveInv
  /\ CallInv
  /\ OrphansOnlyByRace

----------------------------------------------------------------------------

USE ManagerAssumption DEF ClientIds, SessionIds, Key, Uses, ClientCalls, AddSteps,
                          LeaveSteps, Steps, At, Idle, Step, KeyOf, Goes, Leaving,
                          registryVars, clientVars, sessionVars

\* At the beginning there is no client.
LEMMA InitInv == Init => ManagerInv
  BY DEF Init, ManagerInv, ManagerTypeOK, LockInv, CookieInv, CallbackInv, LeaveInv,
         CallInv, OrphansOnlyByRace, Cancelled

\* addClient takes mLock and makes a client with a new id.
LEMMA AddClientInv ==
  ASSUME ManagerInv, NEW t \in Threads, NEW b \in alive, AddClient(t, b)
  PROVE  ManagerInv'
  <1>1. /\ thread' \in [Threads -> Step]
        /\ thread'[t] = At("link", sCookieCounter, 0, "none")
        /\ \A u \in Threads \ {t} : thread'[u] = thread[u]
    BY DEF AddClient, ManagerInv, ManagerTypeOK
  <1>2. /\ \A c \in 0..(sCookieCounter - 1) : binderOf'[c] = binderOf[c]
        /\ binderOf'[sCookieCounter] = b
    BY DEF AddClient, ManagerInv, ManagerTypeOK
  <1>3. ManagerTypeOK'
    <2>1. sCookieCounter' \in 0..MaxClients /\ sCookieCounter \in ClientIds
      BY DEF AddClient, ManagerInv, ManagerTypeOK
    <2>2. binderOf' \in [0..(sCookieCounter' - 1) -> Binders]
      BY DEF AddClient, ManagerInv, ManagerTypeOK
    <2>3. sCookie2Client' \in SUBSET ClientIds
      BY <2>1 DEF AddClient, ManagerInv, ManagerTypeOK
    <2> QED
      BY <1>1, <2>1, <2>2, <2>3 DEF AddClient, ManagerInv, ManagerTypeOK
  <1>4. LockInv'
    BY <1>1 DEF AddClient, ManagerInv, LockInv
  <1>5. CookieInv'
    BY <1>1, <1>2 DEF AddClient, ManagerInv, ManagerTypeOK, CookieInv, LockInv
  <1>6. CallbackInv'
    BY <1>2 DEF AddClient, ManagerInv, ManagerTypeOK, CookieInv, CallbackInv
  <1>7. LeaveInv'
    BY <1>1 DEF AddClient, ManagerInv, ManagerTypeOK, LeaveInv
  <1>8. Cancelled' = Cancelled
    BY <1>1 DEF AddClient, Cancelled
  <1>9. CallInv' /\ OrphansOnlyByRace'
    BY <1>1, <1>8 DEF AddClient, ManagerInv, CallInv, OrphansOnlyByRace
  <1> QED
    BY <1>3, <1>4, <1>5, <1>6, <1>7, <1>9 DEF ManagerInv

\* linkToDeath: a client that is being added may get a death recipient.
LEMMA AddLinkInv ==
  ASSUME ManagerInv, NEW t \in Threads, AddLink(t)
  PROVE  ManagerInv'
  <1>1. /\ thread' \in [Threads -> Step]
        /\ thread'[t] = At("insert", thread[t].client, 0, "none")
        /\ \A u \in Threads \ {t} : thread'[u] = thread[u]
    BY DEF AddLink, ManagerInv, ManagerTypeOK
  <1>2. linked' \subseteq linked \cup {thread[t].client}
    BY DEF AddLink
  <1>3. thread[t].client \in sCookie2Client
    BY DEF AddLink, ManagerInv, CookieInv
  <1>4. ManagerTypeOK'
    BY <1>1, <1>2, <1>3 DEF AddLink, ManagerInv, ManagerTypeOK
  <1>5. LockInv'
    BY <1>1 DEF AddLink, ManagerInv, LockInv
  <1>6. CookieInv'
    BY <1>1, <1>2, <1>3 DEF AddLink, ManagerInv, ManagerTypeOK, CookieInv
  <1>7. CallbackInv'
    BY DEF AddLink, ManagerInv, CallbackInv
  <1>8. LeaveInv'
    BY <1>1 DEF AddLink, ManagerInv, LeaveInv
  <1>9. Cancelled' = Cancelled
    BY <1>1 DEF AddLink, Cancelled
  <1>10. CallInv' /\ OrphansOnlyByRace'
    BY <1>1, <1>9 DEF AddLink, ManagerInv, CallInv, OrphansOnlyByRace
  <1> QED
    BY <1>4, <1>5, <1>6, <1>7, <1>8, <1>10 DEF ManagerInv

\* The end of addClient: the client is in the map and mLock is free.
LEMMA AddInsertInv ==
  ASSUME ManagerInv, NEW t \in Threads, AddInsert(t)
  PROVE  ManagerInv'
  <1> DEFINE c == thread[t].client
  <1>1. /\ thread' \in [Threads -> Step]
        /\ thread'[t] = Idle
        /\ \A u \in Threads \ {t} : thread'[u] = thread[u]
    BY DEF AddInsert, ManagerInv, ManagerTypeOK
  <1>2. /\ c \in sCookie2Client \ clients
        /\ binderOf[c] \notin callbacks
        /\ \A d \in sCookie2Client \ clients : d = c
    BY DEF AddInsert, ManagerInv, CookieInv
  <1>3. c \in 0..(sCookieCounter - 1) /\ binderOf[c] \in Binders
    BY <1>2 DEF ManagerInv, ManagerTypeOK, CookieInv
  <1>4. mLock = t
    BY DEF AddInsert, ManagerInv, LockInv
  <1>5. ManagerTypeOK'
    <2>1. /\ clients' \in SUBSET ClientIds /\ callbacks' \in SUBSET Binders
          /\ mLock' \in Threads \cup {NoThread}
      BY <1>2, <1>3 DEF AddInsert, ManagerInv, ManagerTypeOK
    <2>2. UNCHANGED <<alive, deaths, sCookie2Client, linked, sCookieCounter, binderOf, abandoned,
                      nextSessionId, requested, overtaken>>
      BY DEF AddInsert, clientVars, sessionVars
    <2> QED
      BY <1>1, <2>1, <2>2 DEF ManagerInv, ManagerTypeOK
  <1>6. LockInv'
    BY <1>1, <1>4 DEF AddInsert, ManagerInv, LockInv
  <1>7. CookieInv'
    <2>1. \A u \in Threads : thread'[u].at \notin AddSteps
      BY <1>1, <1>4 DEF AddInsert, ManagerInv, LockInv
    <2>2. sCookie2Client = clients'
      BY <1>2 DEF AddInsert, ManagerInv, CookieInv
    <2> QED
      BY <2>1, <2>2 DEF AddInsert, ManagerInv, CookieInv
  <1>8. CallbackInv'
    BY <1>2 DEF AddInsert, ManagerInv, CallbackInv
  <1>9. LeaveInv'
    BY <1>1 DEF AddInsert, ManagerInv, LeaveInv
  <1>10. Cancelled' = Cancelled
    BY <1>1 DEF AddInsert, Cancelled
  <1>11. CallInv' /\ OrphansOnlyByRace'
    BY <1>1, <1>10 DEF AddInsert, ManagerInv, CallInv, OrphansOnlyByRace
  <1> QED
    BY <1>5, <1>6, <1>7, <1>8, <1>9, <1>11 DEF ManagerInv

\* A step of a thread that is not in addClient, cancelAll or remove before or
\* after it, and that leaves the registry and mAbandoned alone.
LEMMA RegistryUntouched ==
  ASSUME ManagerInv, NEW t \in Threads,
         UNCHANGED <<registryVars, mLock, sCookieCounter, binderOf, abandoned>>,
         thread' \in [Threads -> Step],
         \A u \in Threads \ {t} : thread'[u] = thread[u],
         thread[t].at \in {"idle", "exchange"} \cup ClientCalls,
         thread'[t].at \in {"idle", "exchange"} \cup ClientCalls,
         thread'[t].at = "exchange" => thread'[t].client < sCookieCounter
  PROVE  LockInv' /\ CookieInv' /\ CallbackInv' /\ LeaveInv' /\ Cancelled' = Cancelled
  <1>1. LockInv'
    BY DEF ManagerInv, LockInv
  <1>2. CookieInv'
    BY DEF ManagerInv, CookieInv
  <1>3. CallbackInv'
    BY DEF ManagerInv, CallbackInv
  <1>4. LeaveInv'
    BY DEF ManagerInv, LeaveInv
  <1>5. Cancelled' = Cancelled
    BY DEF Cancelled
  <1> QED
    BY <1>1, <1>2, <1>3, <1>4, <1>5

\* The calls of a client: those that begin belong to a client that is not
\* abandoned, those that reach the controller late are marked.
LEMMA CallsInv ==
  ASSUME ManagerInv, NEW t \in Threads,
         \/ \E c \in ClientIds, use \in Uses : SubmitRequest(t, c, use)
         \/ \E k \in Key, call \in {"cancel", "addUid"} : CancelOrAddUid(t, k, call)
         \/ ControllerSubmit(t)
         \/ ControllerCancel(t)
         \/ ControllerAddUid(t)
  PROVE  ManagerInv'
  <1>1. ASSUME NEW c \in ClientIds, NEW use \in Uses, SubmitRequest(t, c, use)
        PROVE  ManagerInv'
    <2>1. /\ thread' \in [Threads -> Step]
          /\ thread'[t] = At("submit", c, nextSessionId[c], use)
          /\ \A u \in Threads \ {t} : thread'[u] = thread[u]
      BY <1>1 DEF SubmitRequest, ManagerInv, ManagerTypeOK
    <2>2. ManagerTypeOK'
      <3>0. /\ nextSessionId' = [nextSessionId EXCEPT ![c] = @ + 1]
            /\ nextSessionId \in [ClientIds -> 0..MaxSessions]
            /\ nextSessionId[c] + 1 \in 0..MaxSessions
        <4>1. /\ nextSessionId \in [ClientIds -> 0..MaxSessions] /\ nextSessionId[c] < MaxSessions
              /\ nextSessionId' = [nextSessionId EXCEPT ![c] = @ + 1]
          BY <1>1 DEF SubmitRequest, ManagerInv, ManagerTypeOK
        <4>2. nextSessionId[c] \in 0..MaxSessions
          BY <4>1
        <4> QED
          BY <4>1, <4>2, ManagerAssumption
      <3>1. nextSessionId' \in [ClientIds -> 0..MaxSessions]
        BY <3>0
      <3> QED
        BY <1>1, <2>1, <3>1 DEF SubmitRequest, ManagerInv, ManagerTypeOK
    <2>3. LockInv' /\ CookieInv' /\ CallbackInv' /\ LeaveInv' /\ Cancelled' = Cancelled
      BY <1>1, <2>1, RegistryUntouched DEF SubmitRequest
    <2>4. c \notin Cancelled
      BY <1>1 DEF SubmitRequest, Connected, Cancelled
    <2>5. CallInv' /\ OrphansOnlyByRace'
      BY <1>1, <2>1, <2>3, <2>4 DEF SubmitRequest, ManagerInv, CallInv, OrphansOnlyByRace
    <2> QED
      BY <2>2, <2>3, <2>5 DEF ManagerInv
  <1>2. ASSUME NEW k \in Key, NEW call \in {"cancel", "addUid"}, CancelOrAddUid(t, k, call)
        PROVE  ManagerInv'
    <2>1. /\ thread' \in [Threads -> Step]
          /\ thread'[t] = At(call, k[1], k[2], "none")
          /\ \A u \in Threads \ {t} : thread'[u] = thread[u]
      BY <1>2 DEF CancelOrAddUid, ManagerInv, ManagerTypeOK
    <2>2. ManagerTypeOK'
      BY <1>2, <2>1 DEF CancelOrAddUid, ManagerInv, ManagerTypeOK
    <2>3. LockInv' /\ CookieInv' /\ CallbackInv' /\ LeaveInv' /\ Cancelled' = Cancelled
      BY <1>2, <2>1, RegistryUntouched DEF CancelOrAddUid
    <2>4. k[1] \notin Cancelled
      BY <1>2 DEF CancelOrAddUid, Connected, Cancelled
    <2>5. CallInv' /\ OrphansOnlyByRace'
      BY <1>2, <2>1, <2>3, <2>4 DEF CancelOrAddUid, ManagerInv, CallInv, OrphansOnlyByRace
    <2> QED
      BY <2>2, <2>3, <2>5 DEF ManagerInv
  <1>3. ASSUME ControllerSubmit(t) \/ ControllerCancel(t) \/ ControllerAddUid(t)
        PROVE  ManagerInv'
    <2>1. /\ Goes(t, Idle)
          /\ thread[t].at \in ClientCalls
          /\ UNCHANGED <<alive, deaths, registryVars, mLock, clientVars, overtaken>>
      BY <1>3 DEF ControllerSubmit, ControllerCancel, ControllerAddUid
    <2>2. /\ thread' \in [Threads -> Step]
          /\ thread'[t] = Idle
          /\ \A u \in Threads \ {t} : thread'[u] = thread[u]
      BY <2>1 DEF ManagerInv, ManagerTypeOK
    <2>3. /\ requested' \in [Key -> SUBSET Uses]
          /\ \A k \in Key \ {KeyOf(t)} : requested'[k] = requested[k]
      <3>1. CASE ControllerSubmit(t)
        BY <3>1 DEF ControllerSubmit, ManagerInv, ManagerTypeOK, CallInv
      <3>2. CASE ControllerCancel(t)
        BY <3>2 DEF ControllerCancel, ManagerInv, ManagerTypeOK
      <3>3. CASE ControllerAddUid(t)
        BY <3>3 DEF ControllerAddUid, ManagerInv, ManagerTypeOK
      <3> QED
        BY <1>3, <3>1, <3>2, <3>3
    <2>4. LockInv' /\ CookieInv' /\ CallbackInv' /\ LeaveInv' /\ Cancelled' = Cancelled
      BY <2>1, <2>2, RegistryUntouched
    <2>5. CallInv'
      BY <2>1, <2>2, <2>4 DEF ManagerInv, CallInv
    <2>6. OrphansOnlyByRace'
      BY <2>1, <2>3, <2>4 DEF ManagerInv, CallInv, OrphansOnlyByRace
    <2>7. ManagerTypeOK'
      BY <2>1, <2>2, <2>3 DEF ManagerInv, ManagerTypeOK
    <2> QED
      BY <2>4, <2>5, <2>6, <2>7 DEF ManagerInv
  <1> QED
    BY <1>1, <1>2, <1>3

\* unregister and BinderDiedCallback begin: mAbandoned is about to be exchanged.
LEMMA ExchangeBegins ==
  ASSUME ManagerInv, NEW t \in Threads, NEW c \in ClientIds,
         Unregister(t, c) \/ BinderDied(t, c)
  PROVE  ManagerInv'
  <1>1. \/ Goes(t, At("exchange", c, 0, "none")) /\ c < sCookieCounter
        \/ UNCHANGED thread
    BY DEF Unregister, MayCall, BinderDied, Found, ManagerInv, CookieInv
  <1>2. /\ thread' \in [Threads -> Step]
        /\ \A u \in Threads \ {t} : thread'[u] = thread[u]
        /\ thread'[t] \in {At("exchange", c, 0, "none"), thread[t]}
        /\ thread'[t].at = "exchange" => thread'[t].client < sCookieCounter
    <2>1. thread \in [Threads -> Step] /\ thread[t] = Idle
      BY DEF Unregister, BinderDied, ManagerInv, ManagerTypeOK
    <2>2. CASE Goes(t, At("exchange", c, 0, "none")) /\ c < sCookieCounter
      BY <2>1, <2>2
    <2>3. CASE UNCHANGED thread
      BY <2>1, <2>3
    <2> QED
      BY <1>1, <2>2, <2>3
  <1>3. /\ thread[t] = Idle
        /\ UNCHANGED <<alive, registryVars, mLock, clientVars, sessionVars>>
        /\ deaths' \subseteq deaths
    BY DEF Unregister, BinderDied
  <1>4. LockInv' /\ CookieInv' /\ CallbackInv' /\ LeaveInv' /\ Cancelled' = Cancelled
    BY <1>2, <1>3, RegistryUntouched
  <1>5. ManagerTypeOK'
    BY <1>2, <1>3 DEF ManagerInv, ManagerTypeOK
  <1>6. CallInv' /\ OrphansOnlyByRace'
    BY <1>2, <1>3, <1>4 DEF ManagerInv, CallInv, OrphansOnlyByRace
  <1> QED
    BY <1>4, <1>5, <1>6 DEF ManagerInv

\* The thread that sets mAbandoned is the one that removes the client.
LEMMA ExchangeInv ==
  ASSUME ManagerInv, NEW t \in Threads, ExchangeAbandoned(t)
  PROVE  ManagerInv'
  <1> DEFINE c == thread[t].client
  <1>1. /\ thread' \in [Threads -> Step]
        /\ thread'[t] = IF c \in abandoned THEN Idle ELSE At("cancelAll", c, 0, "none")
        /\ \A u \in Threads \ {t} : thread'[u] = thread[u]
    BY DEF ExchangeAbandoned, ManagerInv, ManagerTypeOK
  <1>2. c \in ClientIds /\ c < sCookieCounter /\ c \in sCookie2Client \cup abandoned
    BY DEF ExchangeAbandoned, ManagerInv, ManagerTypeOK, LeaveInv
  <1>3. ManagerTypeOK'
    BY <1>1, <1>2 DEF ExchangeAbandoned, ManagerInv, ManagerTypeOK
  <1>4. LockInv'
    BY <1>1 DEF ExchangeAbandoned, ManagerInv, LockInv
  <1>5. CookieInv'
    BY <1>1 DEF ExchangeAbandoned, ManagerInv, CookieInv
  <1>6. CallbackInv'
    BY DEF ExchangeAbandoned, ManagerInv, CallbackInv
  <1>7. LeaveInv'
    BY <1>1, <1>2 DEF ExchangeAbandoned, ManagerInv, LeaveInv
  <1>8. Cancelled' = Cancelled
    BY <1>1 DEF ExchangeAbandoned, Cancelled
  <1>9. CallInv' /\ OrphansOnlyByRace'
    BY <1>1, <1>8 DEF ExchangeAbandoned, ManagerInv, CallInv, OrphansOnlyByRace
  <1> QED
    BY <1>3, <1>4, <1>5, <1>6, <1>7, <1>9 DEF ManagerInv

\* The sessions of the client are cancelled, and its calls under way are marked.
LEMMA CancelAllInv ==
  ASSUME ManagerInv, NEW t \in Threads, CancelAll(t)
  PROVE  ManagerInv'
  <1> DEFINE c == thread[t].client
  <1>1. /\ thread' \in [Threads -> Step]
        /\ thread'[t] = At("remove", c, 0, "none")
        /\ \A u \in Threads \ {t} : thread'[u] = thread[u]
    BY DEF CancelAll, ManagerInv, ManagerTypeOK
  <1>2. /\ overtaken \subseteq overtaken'
        /\ overtaken' \subseteq Nat \X Nat
        /\ \A u \in Threads :
             thread[u].at \in ClientCalls /\ thread[u].client = c => KeyOf(u) \in overtaken'
    BY DEF CancelAll, ManagerInv, ManagerTypeOK
  <1>3. /\ requested' \in [Key -> SUBSET Uses]
        /\ \A k \in Key : IF k[1] = c THEN "app" \notin requested'[k]
                                        ELSE requested'[k] = requested[k]
    BY DEF CancelAll, ManagerInv, ManagerTypeOK
  <1>4. ManagerTypeOK'
    BY <1>1, <1>2, <1>3 DEF CancelAll, ManagerInv, ManagerTypeOK
  <1>5. LockInv'
    BY <1>1 DEF CancelAll, ManagerInv, LockInv
  <1>6. CookieInv'
    BY <1>1 DEF CancelAll, ManagerInv, CookieInv
  <1>7. CallbackInv'
    BY DEF CancelAll, ManagerInv, CallbackInv
  <1>8. LeaveInv'
    BY <1>1 DEF CancelAll, ManagerInv, LeaveInv
  <1>9. Cancelled' \subseteq Cancelled \cup {c}
    BY <1>1 DEF CancelAll, Cancelled
  <1>10. CallInv'
    BY <1>1, <1>2, <1>9 DEF CancelAll, ManagerInv, CallInv
  <1>11. OrphansOnlyByRace'
    BY <1>2, <1>3, <1>9 DEF ManagerInv, OrphansOnlyByRace
  <1> QED
    BY <1>4, <1>5, <1>6, <1>7, <1>8, <1>10, <1>11 DEF ManagerInv

\* removeClient finds the client in the map, as mLock is free.
LEMMA RemoveClientInv ==
  ASSUME ManagerInv, NEW t \in Threads, RemoveClient(t)
  PROVE  ManagerInv'
  <1> DEFINE c == thread[t].client
  <1>1. /\ thread' \in [Threads -> Step]
        /\ thread'[t] = Idle
        /\ \A u \in Threads \ {t} : thread'[u] = thread[u]
    BY DEF RemoveClient, ManagerInv, ManagerTypeOK
  <1>2. c \in clients /\ c \in abandoned /\ sCookie2Client = clients
    BY DEF RemoveClient, ManagerInv, CookieInv, LeaveInv
  <1>3. /\ linked' = linked \ {c}
        /\ sCookie2Client' = sCookie2Client \ {c}
        /\ clients' = clients \ {c}
        /\ callbacks' = callbacks \ {binderOf[c]}
    BY <1>2 DEF RemoveClient
  <1>4. ManagerTypeOK'
    BY <1>1, <1>3 DEF RemoveClient, ManagerInv, ManagerTypeOK
  <1>5. LockInv'
    BY <1>1 DEF RemoveClient, ManagerInv, LockInv
  <1>6. CookieInv'
    <2>1. \A u \in Threads : thread'[u].at \notin AddSteps
      BY <1>1 DEF RemoveClient, ManagerInv, LockInv
    <2> QED
      BY <1>2, <1>3, <2>1 DEF RemoveClient, ManagerInv, CookieInv
  <1>7. CallbackInv'
    BY <1>2, <1>3 DEF RemoveClient, ManagerInv, CallbackInv
  <1>8. LeaveInv'
    BY <1>1, <1>2, <1>3 DEF RemoveClient, ManagerInv, LeaveInv
  <1>9. Cancelled' = Cancelled
    BY <1>1 DEF RemoveClient, Cancelled
  <1>10. CallInv' /\ OrphansOnlyByRace'
    BY <1>1, <1>9 DEF RemoveClient, ManagerInv, CallInv, OrphansOnlyByRace
  <1> QED
    BY <1>4, <1>5, <1>6, <1>7, <1>8, <1>10 DEF ManagerInv

\* Sessions that end and processes that die touch no thread.
LEMMA OutsideInv ==
  ASSUME ManagerInv,
         (\E k \in Key : SessionEnds(k)) \/ (\E b \in Binders : ClientDies(b))
  PROVE  ManagerInv'
  <1>1. ASSUME NEW k \in Key, SessionEnds(k)
        PROVE  ManagerInv'
    BY <1>1 DEF SessionEnds, ManagerInv, ManagerTypeOK, LockInv, CookieInv, CallbackInv,
                LeaveInv, CallInv, OrphansOnlyByRace, Cancelled
  <1>2. ASSUME NEW b \in Binders, ClientDies(b)
        PROVE  ManagerInv'
    BY <1>2 DEF ClientDies, ManagerInv, ManagerTypeOK, LockInv, CookieInv, CallbackInv,
                LeaveInv, CallInv, OrphansOnlyByRace, Cancelled
  <1> QED
    BY <1>1, <1>2

----------------------------------------------------------------------------

\* The inductive invariant of the registry, of the threads that leave and of the
\* calls that they overtake.
THEOREM ManagerSafe == Spec => []ManagerInv
  <1>1. Init => ManagerInv
    BY InitInv
  <1>2. ManagerInv /\ [Next]_vars => ManagerInv'
    <2> SUFFICES ASSUME ManagerInv, [Next]_vars PROVE ManagerInv'
      OBVIOUS
    <2>1. ASSUME NEW t \in Threads, ThreadStep(t) PROVE ManagerInv'
      BY <2>1, AddLinkInv, AddInsertInv, CallsInv, ExchangeInv, CancelAllInv,
         RemoveClientInv DEF ThreadStep
    <2>2. ASSUME NEW t \in Threads, CallStep(t) PROVE ManagerInv'
      BY <2>2, AddClientInv, CallsInv, ExchangeBegins DEF CallStep
    <2>3. ASSUME NEW t \in Threads, NEW c \in ClientIds, BinderDied(t, c)
          PROVE  ManagerInv'
      BY <2>3, ExchangeBegins
    <2>4. CASE UNCHANGED vars
      BY <2>4 DEF vars, ManagerInv, ManagerTypeOK, LockInv, CookieInv, CallbackInv,
                  LeaveInv, CallInv, OrphansOnlyByRace, Cancelled
    <2> QED
      BY <2>1, <2>2, <2>3, <2>4, OutsideInv DEF Next
  <1> QED
    BY <1>1, <1>2, PTL DEF Spec

\* Whatever the order of registrations, calls and deaths, every variable of the
\* manager keeps its type: in particular addClient gives each client an id of
\* its own.
THEOREM ManagerTypes == Spec => []ManagerTypeOK
  <1>1. ManagerInv => ManagerTypeOK
    BY DEF ManagerInv
  <1> QED BY <1>1, ManagerSafe, PTL

\* TranscodingClientManager: the maps of clients and of cookies and the set of
\* callbacks agree whenever mLock is free.
THEOREM RegistryIsConsistent == Spec => []RegistryAgrees
  <1>1. ManagerInv => RegistryAgrees
    BY DEF ManagerInv, ManagerTypeOK, CookieInv, CallbackInv, RegistryAgrees
  <1> QED
    BY <1>1, ManagerSafe, PTL

\* unregister and BinderDiedCallback: a client is cancelled and removed once, and
\* never before it has been added.
THEOREM ClientsAreRemovedOnce == Spec => []RemoveFindsClient
  <1>1. ManagerInv => RemoveFindsClient
    BY DEF ManagerInv, LeaveInv, RemoveFindsClient
  <1> QED
    BY <1>1, ManagerSafe, PTL

\* submitRequest and addClientUid against unregister: only a call that was past
\* the test of mAbandoned can leave a session behind.
THEOREM OrphansAreRaces == Spec => []OrphansOnlyByRace
  <1>1. ManagerInv => OrphansOnlyByRace
    BY DEF ManagerInv
  <1> QED
    BY <1>1, ManagerSafe, PTL
=============================================================================
