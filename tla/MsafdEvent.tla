--------------------------- MODULE MsafdEvent ---------------------------
(***************************************************************************)
(* WSPEventSelect and WSPEnumNetworkEvents of the AFD helper DLL          *)
(* (src/dll/win32/msafd/misc/event.c), with the AFD driver as the          *)
(* environment. An event mask is a set of event names: FD_* masks are     *)
(* subsets of FdEvents (plus bits the DLL does not know), AFD_EVENT_*     *)
(* masks subsets of AfdEvents. One application thread calls the two      *)
(* functions; network activity happens at any time, also while an IOCTL   *)
(* is pending.                                                            *)
(***************************************************************************)
EXTENDS Integers, FiniteSets

CONSTANTS
    EventObjects,   \* WSAEVENT handles the application passes
    Selectable,     \* lNetworkEvents bits the application passes
    Activity,       \* AFD events the network may raise
    MaxSeq          \* bound on SharedData.SequenceNumber

NULL == "NULL"

SOCKET_ERROR == -1

FdEvents == {"READ", "WRITE", "OOB", "ACCEPT", "CONNECT", "CLOSE",
             "QOS", "GROUP_QOS"}

AfdEvents == {"RECEIVE", "SEND", "OOB_RECEIVE", "ACCEPT", "CONNECT",
              "CONNECT_FAIL", "DISCONNECT", "ABORT", "CLOSE", "QOS",
              "GROUP_QOS"}

\* The AFD events each FD event stands for, in both directions of event.c.
AfdBits == [READ |-> {"RECEIVE"}, WRITE |-> {"SEND"},
            OOB |-> {"OOB_RECEIVE"}, ACCEPT |-> {"ACCEPT"},
            CONNECT |-> {"CONNECT", "CONNECT_FAIL"},
            CLOSE |-> {"DISCONNECT", "ABORT", "CLOSE"},
            QOS |-> {"QOS"}, GROUP_QOS |-> {"GROUP_QOS"}]

\* Mutant: FD_CONNECT selects AFD_EVENT_CONNECT only.
SelectEventsNoConnectFail(l) ==
    UNION {IF e = "CONNECT" THEN {"CONNECT"} ELSE AfdBits[e] : e \in l \cap FdEvents}

\* EventSelectInfo.Events built from lNetworkEvents; unknown bits are dropped.
SelectEvents(l) == UNION {AfdBits[e] : e \in l \cap FdEvents}

\* lpNetworkEvents->lNetworkEvents built from EnumReq.PollEvents.
EnumEvents(poll) == {e \in FdEvents : AfdBits[e] \cap poll # {}}

\* The outcome of an IOCTL as NtDeviceIoControlFile and then IOSB report it.
Outcomes == {"success", "failure", "pending"}

VARIABLES
    socketValid,     \* GetSocketStructure(Handle) # NULL
    NonBlocking,     \* Socket->SharedData.NonBlocking
    EventObject,     \* Socket->EventObject
    NetworkEvents,   \* Socket->NetworkEvents
    hWnd,            \* Socket->SharedData.hWnd (wMsg goes with it)
    AsyncEvents,     \* Socket->SharedData.AsyncEvents
    SequenceNumber,  \* Socket->SharedData.SequenceNumber
    afdEvent,        \* the driver's event-select object
    afdSelect,       \* the driver's event-select mask
    pollState,       \* AFD events raised and not yet enumerated
    pc,              \* "idle", "selectWait", "enumWait"
    argEvent, argEvents,  \* hEventObject, lNetworkEvents of the call
    polled,          \* EnumReq.PollEvents of the last enumeration
    result,          \* lpNetworkEvents->lNetworkEvents of the last one
    ret,             \* the last return value
    errnoSet         \* the last call wrote *lpErrno

sockVars == <<socketValid, NonBlocking, EventObject, NetworkEvents, hWnd,
              AsyncEvents, SequenceNumber>>
afdVars == <<afdEvent, afdSelect, pollState>>
vars == <<sockVars, afdVars, pc, argEvent, argEvents, polled, result, ret, errnoSet>>

\* A socket fresh from WSPSocket, possibly under WSPAsyncSelect.
Init ==
    /\ socketValid \in BOOLEAN
    /\ NonBlocking = FALSE
    /\ EventObject = NULL
    /\ NetworkEvents = {}
    /\ \/ hWnd = NULL /\ AsyncEvents = {}
       \/ hWnd = "wnd" /\ AsyncEvents \in SUBSET Selectable \ {{}}
    /\ SequenceNumber = 0
    /\ afdEvent = NULL /\ afdSelect = {} /\ pollState = {}
    /\ pc = "idle"
    /\ argEvent = NULL /\ argEvents = {}
    /\ polled = {} /\ result = {}
    /\ ret = 0
    /\ errnoSet = FALSE

\* The driver's side of IOCTL_AFD_EVENT_SELECT when it succeeds.
AfdEventSelect(h, l) ==
    /\ afdEvent' = h
    /\ afdSelect' = SelectEvents(l)

\* Mutant: the failure path returns the NTSTATUS instead of SOCKET_ERROR.
SelectFinishReturnsStatus(ok, h, l) ==
    IF ok THEN /\ EventObject' = h
               /\ NetworkEvents' = l
               /\ ret' = 0 /\ errnoSet' = FALSE
          ELSE /\ UNCHANGED <<EventObject, NetworkEvents>>
               /\ ret' = -1073741823 /\ errnoSet' = TRUE

\* The end of WSPEventSelect once Status is known (lines 116-129).
SelectFinish(ok, h, l) ==
    IF ok THEN /\ EventObject' = h
               /\ NetworkEvents' = l
               /\ ret' = 0 /\ errnoSet' = FALSE
          ELSE /\ UNCHANGED <<EventObject, NetworkEvents>>
               /\ ret' = SOCKET_ERROR /\ errnoSet' = TRUE

\* WSPEventSelect up to the IOCTL, and to its end when the IOCTL does not pend.
WSPEventSelect ==
    /\ pc = "idle"
    /\ \E h \in EventObjects, l \in SUBSET Selectable :
         \/ \* NtCreateEvent fails
            /\ ret' = -1 /\ errnoSet' = FALSE
            /\ UNCHANGED <<sockVars, afdVars, pc, argEvent, argEvents>>
         \/ /\ ~socketValid
            /\ ret' = SOCKET_ERROR /\ errnoSet' = TRUE
            /\ UNCHANGED <<sockVars, afdVars, pc, argEvent, argEvents>>
         \/ /\ socketValid
            /\ SequenceNumber < MaxSeq
            /\ NonBlocking' = TRUE
            /\ IF EventObject # NULL
                 THEN /\ hWnd' = NULL
                      /\ AsyncEvents' = {}
                      /\ SequenceNumber' = SequenceNumber + 1
                 ELSE UNCHANGED <<hWnd, AsyncEvents, SequenceNumber>>
            /\ \E o \in Outcomes :
                 /\ IF o = "success" THEN AfdEventSelect(h, l)
                                     ELSE UNCHANGED <<afdEvent, afdSelect>>
                 /\ IF o = "pending"
                      THEN /\ pc' = "selectWait"
                           /\ argEvent' = h /\ argEvents' = l
                           /\ UNCHANGED <<EventObject, NetworkEvents, ret,
                                          errnoSet>>
                      ELSE /\ SelectFinish(o = "success", h, l)
                           /\ UNCHANGED <<pc, argEvent, argEvents>>
            /\ UNCHANGED <<socketValid, pollState>>
    /\ polled' = {} /\ result' = {}

\* The pending IOCTL completes; WaitForSingleObject returns (lines 109-129).
EventSelectComplete ==
    /\ pc = "selectWait"
    /\ \E ok \in BOOLEAN :
         /\ IF ok THEN AfdEventSelect(argEvent, argEvents)
                  ELSE UNCHANGED <<afdEvent, afdSelect>>
         /\ SelectFinish(ok, argEvent, argEvents)
    /\ pc' = "idle"
    /\ argEvent' = NULL /\ argEvents' = {}
    /\ UNCHANGED <<socketValid, NonBlocking, hWnd, AsyncEvents, SequenceNumber,
                   pollState, polled, result>>

\* The driver's side of IOCTL_AFD_ENUM_NETWORK_EVENTS: it hands over the
\* raised events of the socket's selection and forgets them.
AfdEnum ==
    /\ polled' = pollState \cap afdSelect
    /\ pollState' = pollState \ afdSelect
    /\ result' = EnumEvents(pollState \cap afdSelect)

\* No enumeration result: the call failed or is still waiting.
NoEnum == polled' = {} /\ result' = {} /\ UNCHANGED pollState

\* WSPEnumNetworkEvents up to the IOCTL, and to its end when it does not pend.
WSPEnumNetworkEvents ==
    /\ pc = "idle"
    /\ \/ /\ ret' = -1 /\ errnoSet' = FALSE /\ NoEnum /\ UNCHANGED pc
       \/ /\ ~socketValid
          /\ ret' = SOCKET_ERROR /\ errnoSet' = TRUE /\ NoEnum /\ UNCHANGED pc
       \/ /\ socketValid
          /\ \/ AfdEnum /\ ret' = 0 /\ errnoSet' = TRUE /\ UNCHANGED pc
             \/ ret' = SOCKET_ERROR /\ errnoSet' = TRUE /\ NoEnum
                /\ UNCHANGED pc
             \/ pc' = "enumWait" /\ NoEnum /\ UNCHANGED <<ret, errnoSet>>
    /\ UNCHANGED <<sockVars, afdEvent, afdSelect, argEvent, argEvents>>

\* The pending enumeration completes (lines 183-248).
EnumComplete ==
    /\ pc = "enumWait"
    /\ \/ AfdEnum /\ ret' = 0
       \/ NoEnum /\ ret' = SOCKET_ERROR
    /\ errnoSet' = TRUE
    /\ pc' = "idle"
    /\ UNCHANGED <<sockVars, afdEvent, afdSelect, argEvent, argEvents>>

\* The network raises an AFD event on the socket.
NetworkActivity ==
    /\ \E a \in Activity \ pollState : pollState' = pollState \cup {a}
    /\ UNCHANGED <<sockVars, afdEvent, afdSelect, pc, argEvent, argEvents,
                   polled, result, ret, errnoSet>>

Next ==
    \/ WSPEventSelect
    \/ EventSelectComplete
    \/ WSPEnumNetworkEvents
    \/ EnumComplete
    \/ NetworkActivity

Spec == Init /\ [][Next]_vars

-----------------------------------------------------------------------------
TypeOK ==
    /\ socketValid \in BOOLEAN /\ NonBlocking \in BOOLEAN
    /\ EventObject \in EventObjects \cup {NULL}
    /\ NetworkEvents \subseteq Selectable
    /\ AsyncEvents \subseteq Selectable
    /\ SequenceNumber \in 0..MaxSeq
    /\ afdSelect \subseteq AfdEvents /\ pollState \subseteq Activity
    /\ pc \in {"idle", "selectWait", "enumWait"}
    /\ result \subseteq FdEvents
    /\ ret \in {0, SOCKET_ERROR} /\ errnoSet \in BOOLEAN

\* No selected network event is lost between the driver and the application:
\* an AFD event raised for an FD event the socket has selected
\* (Socket->NetworkEvents) is in the driver's selection, so the next
\* WSPEnumNetworkEvents collects it, and every event an enumeration collects
\* is reported as an FD event the socket selected. It needs the FD-to-AFD
\* translation of WSPEventSelect and the AFD-to-FD one of
\* WSPEnumNetworkEvents to agree, over the pending and failing IOCTL paths.
NoSelectedEventLost ==
    /\ \A a \in pollState :
         EnumEvents({a}) \cap NetworkEvents # {} => a \in afdSelect
    /\ \A a \in polled :
         \E e \in result \cap NetworkEvents : a \in AfdBits[e]
====
