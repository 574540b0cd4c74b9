---------------------------- MODULE ClientManager ----------------------------
(***************************************************************************)
(* TranscodingClientManager: clients that register with a callback binder, *)
(* submit and cancel sessions, and leave by unregister() or by dying.      *)
(*                                                                         *)
(* Any number of binder threads make these calls at once.  mLock covers    *)
(* addClient and removeClient; nothing covers the way from the test of     *)
(* mAbandoned in a client's call to the call of the controller, nor        *)
(* unregister as a whole.  The controller, whose entry points are atomic   *)
(* under its own lock, is reduced to which sessions it has and whom they   *)
(* are for: an app ("app"), the offline queue ("offline"), or both.        *)
(***************************************************************************)
EXTENDS Naturals, FiniteSets

CONSTANTS Binders,      \* the callback binders of client processes
          Threads,      \* the binder threads of the service
          NoThread,     \* nobody
          MaxClients,   \* clients ever registered
          MaxSessions   \* sessions ever submitted by a client

ASSUME ManagerAssumption ==
  /\ NoThread \notin Threads
  /\ MaxClients \in Nat
  /\ MaxSessions \in Nat

VARIABLES
  alive,           \* the binders whose process lives
  sCookieCounter,
  sCookie2Client,  \* the clients in the map of cookies
  linked,          \* the clients with a death recipient
  deaths,          \* death notifications on their way
  clients,         \* mClientIdToClientMap
  callbacks,       \* mRegisteredCallbacks
  mLock,           \* the thread that holds it in addClient
  binderOf,        \* mClientBinder
  abandoned,       \* mAbandoned
  nextSessionId,   \* mNextSessionId
  thread,          \* where each thread is: a step and its arguments
  requested,       \* the controller: whom each session is for
  overtaken        \* the sessions with a call under way when their client's were cancelled

registryVars == <<sCookie2Client, linked, clients, callbacks>>
clientVars == <<sCookieCounter, binderOf, abandoned, nextSessionId>>
sessionVars == <<requested, overtaken>>
vars == <<alive, deaths, registryVars, mLock, clientVars, thread, sessionVars>>

ClientIds == 0..(MaxClients - 1)
SessionIds == 0..(MaxSessions - 1)
Key == ClientIds \X SessionIds
Uses == {"app", "offline"}

\* The calls that go on to the controller once they have seen mAbandoned.
ClientCalls == {"submit", "cancel", "addUid"}
AddSteps == {"link", "insert"}
LeaveSteps == {"exchange", "cancelAll", "remove"}

Steps == {"idle"} \cup ClientCalls \cup AddSteps \cup LeaveSteps

At(step, c, session, use) ==
  [at |-> step, client |-> c, session |-> session, use |-> use]

Idle == At("idle", 0, 0, "none")

Step == [at : Steps, client : Nat, session : Nat, use : Uses \cup {"none"}]

KeyOf(t) == <<thread[t].client, thread[t].session>>

ManagerTypeOK ==
  /\ alive \in SUBSET Binders
  /\ sCookieCounter \in 0..MaxClients
  /\ sCookie2Client \in SUBSET ClientIds
  /\ linked \in SUBSET ClientIds
  /\ deaths \in SUBSET ClientIds
  /\ clients \in SUBSET ClientIds
  /\ callbacks \in SUBSET Binders
  /\ mLock \in Threads \cup {NoThread}
  /\ binderOf \in [0..(sCookieCounter - 1) -> Binders]
  /\ abandoned \in SUBSET ClientIds
  /\ nextSessionId \in [ClientIds -> 0..MaxSessions]
  /\ thread \in [Threads -> Step]
  /\ requested \in [Key -> SUBSET Uses]
  /\ overtaken \in SUBSET (Nat \X Nat)

Init ==
  /\ alive = Binders
  /\ sCookieCounter = 0
  /\ sCookie2Client = {} /\ linked = {} /\ deaths = {}
  /\ clients = {} /\ callbacks = {}
  /\ mLock = NoThread
  /\ binderOf = [c \in {} |-> {}]
  /\ abandoned = {}
  /\ nextSessionId = [c \in ClientIds |-> 0]
  /\ thread = [t \in Threads |-> Idle]
  /\ requested = [k \in Key |-> {}]
  /\ overtaken = {}

Goes(t, step) == thread' = [thread EXCEPT ![t] = step]

----------------------------------------------------------------------------
(* addClient *)

\* Mutant: the counter is read but not moved on.
AddClientSameId(t, b) ==
  /\ thread[t] = Idle
  /\ mLock = NoThread
  /\ b \notin callbacks
  /\ sCookieCounter < MaxClients
  /\ mLock' = t
  /\ binderOf' = [c \in 0..sCookieCounter |-> IF c = sCookieCounter THEN b ELSE binderOf[c]]
  /\ sCookie2Client' = sCookie2Client \cup {sCookieCounter}
  /\ Goes(t, At("link", sCookieCounter, 0, "none"))
  /\ UNCHANGED <<alive, deaths, linked, clients, callbacks, sCookieCounter, abandoned,
                 nextSessionId, sessionVars>>

\* A trusted caller with a callback that is not registered: the client gets its
\* id and its cookie.  mLock is held until AddInsert.
AddClient(t, b) ==
  /\ thread[t] = Idle
  /\ mLock = NoThread
  /\ b \notin callbacks
  /\ sCookieCounter < MaxClients
  /\ mLock' = t
  /\ sCookieCounter' = sCookieCounter + 1
  /\ binderOf' = [c \in 0..sCookieCounter |-> IF c = sCookieCounter THEN b ELSE binderOf[c]]
  /\ sCookie2Client' = sCookie2Client \cup {sCookieCounter}
  /\ Goes(t, At("link", sCookieCounter, 0, "none"))
  /\ UNCHANGED <<alive, deaths, linked, clients, callbacks, abandoned, nextSessionId,
                 sessionVars>>

\* AIBinder_linkToDeath has no effect on a binder that is dead.
AddLink(t) ==
  /\ thread[t].at = "link"
  /\ linked' = IF binderOf[thread[t].client] \in alive
                 THEN linked \cup {thread[t].client} ELSE linked
  /\ Goes(t, At("insert", thread[t].client, 0, "none"))
  /\ UNCHANGED <<alive, deaths, sCookie2Client, clients, callbacks, mLock, clientVars,
                 sessionVars>>

AddInsert(t) ==
  /\ thread[t].at = "insert"
  /\ clients' = clients \cup {thread[t].client}
  /\ callbacks' = callbacks \cup {binderOf[thread[t].client]}
  /\ mLock' = NoThread
  /\ Goes(t, Idle)
  /\ UNCHANGED <<alive, deaths, sCookie2Client, linked, clientVars, sessionVars>>

----------------------------------------------------------------------------
(* The calls of a client *)

\* The process got this client from addClient.
MayCall(c) ==
  /\ c < sCookieCounter
  /\ binderOf[c] \in alive
  /\ \A t \in Threads : thread[t].at \in AddSteps => thread[t].client # c

\* Mutant: mAbandoned is not tested.
NotTested(c) == TRUE

\* Otherwise the call returns ERROR_DISCONNECTED.
Connected(c) == c \notin abandoned

\* submitRequest with a valid request, up to the call of the controller.
SubmitRequest(t, c, use) ==
  /\ thread[t] = Idle
  /\ MayCall(c)
  /\ Connected(c)
  /\ nextSessionId[c] < MaxSessions
  /\ nextSessionId' = [nextSessionId EXCEPT ![c] = @ + 1]
  /\ Goes(t, At("submit", c, nextSessionId[c], use))
  /\ UNCHANGED <<alive, deaths, registryVars, mLock, sCookieCounter, binderOf, abandoned,
                 sessionVars>>

\* The controller takes a session that it does not have.
ControllerSubmit(t) ==
  /\ thread[t].at = "submit"
  /\ requested' = [requested EXCEPT ![KeyOf(t)] =
                     IF @ = {} THEN {thread[t].use} ELSE @]
  /\ Goes(t, Idle)
  /\ UNCHANGED <<alive, deaths, registryVars, mLock, clientVars, overtaken>>

\* cancelSession and addClientUid, up to the call of the controller.
CancelOrAddUid(t, k, call) ==
  /\ thread[t] = Idle
  /\ call \in {"cancel", "addUid"}
  /\ MayCall(k[1])
  /\ k[2] < nextSessionId[k[1]]
  /\ Connected(k[1])
  /\ Goes(t, At(call, k[1], k[2], "none"))
  /\ UNCHANGED <<alive, deaths, registryVars, mLock, clientVars, sessionVars>>

ControllerCancel(t) ==
  /\ thread[t].at = "cancel"
  /\ requested' = [requested EXCEPT ![KeyOf(t)] = {}]
  /\ Goes(t, Idle)
  /\ UNCHANGED <<alive, deaths, registryVars, mLock, clientVars, overtaken>>

\* A uid can join a session that exists; an offline session becomes one of an
\* app as well.
ControllerAddUid(t) ==
  /\ thread[t].at = "addUid"
  /\ requested' = [requested EXCEPT ![KeyOf(t)] =
                     IF @ = {} THEN @ ELSE @ \cup {"app"}]
  /\ Goes(t, Idle)
  /\ UNCHANGED <<alive, deaths, registryVars, mLock, clientVars, overtaken>>

\* The controller is done with a session, for whatever reason.
SessionEnds(k) ==
  /\ requested[k] # {}
  /\ requested' = [requested EXCEPT ![k] = {}]
  /\ UNCHANGED <<alive, deaths, registryVars, mLock, clientVars, thread, overtaken>>

----------------------------------------------------------------------------
(* unregister and the death of a client *)

Unregister(t, c) ==
  /\ thread[t] = Idle
  /\ MayCall(c)
  /\ Goes(t, At("exchange", c, 0, "none"))
  /\ UNCHANGED <<alive, deaths, registryVars, mLock, clientVars, sessionVars>>

\* Mutant: mAbandoned is set, but not tested.
StoreAbandoned(t) ==
  /\ thread[t].at = "exchange"
  /\ abandoned' = abandoned \cup {thread[t].client}
  /\ Goes(t, At("cancelAll", thread[t].client, 0, "none"))
  /\ UNCHANGED <<alive, deaths, registryVars, mLock, sCookieCounter, binderOf, nextSessionId,
                 sessionVars>>

\* mAbandoned.exchange(true): whoever sets it goes on.
ExchangeAbandoned(t) ==
  /\ thread[t].at = "exchange"
  /\ abandoned' = abandoned \cup {thread[t].client}
  /\ Goes(t, IF thread[t].client \in abandoned THEN Idle
             ELSE At("cancelAll", thread[t].client, 0, "none"))
  /\ UNCHANGED <<alive, deaths, registryVars, mLock, sCookieCounter, binderOf, nextSessionId,
                 sessionVars>>

\* cancel(mClientId, -1): sessions go, or go back to the offline queue.
CancelAll(t) ==
  LET c == thread[t].client
  IN /\ thread[t].at = "cancelAll"
     /\ requested' = [k \in Key |-> IF k[1] = c THEN requested[k] \ {"app"} ELSE requested[k]]
     /\ overtaken' = overtaken \cup
          {KeyOf(u) : u \in {u \in Threads : /\ thread[u].at \in ClientCalls
                                              /\ thread[u].client = c}}
     /\ Goes(t, At("remove", c, 0, "none"))
     /\ UNCHANGED <<alive, deaths, registryVars, mLock, clientVars>>

\* Mutant: the callback stays registered.
RemoveClientOnly(t) ==
  LET c == thread[t].client
  IN /\ thread[t].at = "remove"
     /\ mLock = NoThread
     /\ linked' = linked \ {c}
     /\ sCookie2Client' = sCookie2Client \ {c}
     /\ clients' = clients \ {c}
     /\ Goes(t, Idle)
     /\ UNCHANGED <<alive, deaths, callbacks, mLock, clientVars, sessionVars>>

\* removeClient, under mLock; a client that is not in the map is left alone.
RemoveClient(t) ==
  LET c == thread[t].client
  IN /\ thread[t].at = "remove"
     /\ mLock = NoThread
     /\ IF c \in clients
          THEN /\ linked' = linked \ {c}
               /\ sCookie2Client' = sCookie2Client \ {c}
               /\ clients' = clients \ {c}
               /\ callbacks' = callbacks \ {binderOf[c]}
          ELSE UNCHANGED registryVars
     /\ Goes(t, Idle)
     /\ UNCHANGED <<alive, deaths, mLock, clientVars, sessionVars>>

\* The process of a client dies; its calls go on.
ClientDies(b) ==
  /\ b \in alive
  /\ alive' = alive \ {b}
  /\ deaths' = deaths \cup {c \in linked : binderOf[c] = b}
  /\ UNCHANGED <<registryVars, mLock, clientVars, thread, sessionVars>>

\* Mutant: the client is looked up in mClientIdToClientMap.
FoundInMap(c) == c \in clients

Found(c) == c \in sCookie2Client

\* BinderDiedCallback: a client that is still known is unregistered.
BinderDied(t, c) ==
  /\ thread[t] = Idle
  /\ c \in deaths
  /\ deaths' = deaths \ {c}
  /\ IF Found(c) THEN Goes(t, At("exchange", c, 0, "none")) ELSE UNCHANGED thread
  /\ UNCHANGED <<alive, registryVars, mLock, clientVars, sessionVars>>

----------------------------------------------------------------------------

\* A thread goes on with the call that it is in.
ThreadStep(t) ==
  \/ AddLink(t)
  \/ AddInsert(t)
  \/ ControllerSubmit(t)
  \/ ControllerCancel(t)
  \/ ControllerAddUid(t)
  \/ ExchangeAbandoned(t)
  \/ CancelAll(t)
  \/ RemoveClient(t)

CallStep(t) ==
  \/ \E b \in alive : AddClient(t, b)
  \/ \E c \in ClientIds : Unregister(t, c)
  \/ \E c \in ClientIds, use \in Uses : SubmitRequest(t, c, use)
  \/ \E k \in Key, call \in {"cancel", "addUid"} : CancelOrAddUid(t, k, call)

Next ==
  \/ \E t \in Threads : ThreadStep(t) \/ CallStep(t) \/ \E c \in ClientIds : BinderDied(t, c)
  \/ \E k \in Key : SessionEnds(k)
  \/ \E b \in Binders : ClientDies(b)

Spec == Init /\ [][Next]_vars

\* Threads go on, and a notification of a death finds a thread.
FairSpec ==
  /\ Spec
  /\ \A t \in Threads : WF_vars(ThreadStep(t))
  /\ \A c \in ClientIds : SF_vars(\E t \in Threads : BinderDied(t, c))

----------------------------------------------------------------------------
(* Properties *)

\* Whenever mLock is free the two maps and the set of callbacks agree, a
\* callback belongs to one client, and every client has a cookie: a callback
\* can register again exactly when its last client is gone.
RegistryAgrees ==
  mLock = NoThread =>
    /\ sCookie2Client = clients
    /\ callbacks = {binderOf[c] : c \in clients}
    /\ \A c, d \in clients : binderOf[c] = binderOf[d] => c = d
    /\ linked \subseteq clients

\* However unregister() and the notification of the death of a client race,
\* with each other and with the registration, removeClient finds its client:
\* a client is cancelled and removed once.
RemoveFindsClient ==
  \A t \in Threads :
    thread[t].at \in {"cancelAll", "remove"} =>
      /\ thread[t].client \in sCookie2Client
      /\ \A u \in Threads \ {t} :
           thread[u].at \in {"cancelAll", "remove"} => thread[u].client # thread[t].client

\* The clients whose sessions have been cancelled by unregister.
Cancelled ==
  {c \in abandoned :
     \A t \in Threads : thread[t].at = "cancelAll" => thread[t].client # c}

\* A client that has unregistered has a session of an app only if the call that
\* asked for it was past the test of mAbandoned when unregister cancelled the
\* sessions of the client.
OrphansOnlyByRace ==
  \A k \in Key : k[1] \in Cancelled /\ "app" \in requested[k] => k \in overtaken

\* A client whose process dies is removed in the end, whatever call it was in,
\* the registration itself included.
DeadIsRemoved ==
  \A c \in ClientIds :
    (c \in linked /\ binderOf[c] \notin alive) ~> c \notin clients \cup linked
=============================================================================
