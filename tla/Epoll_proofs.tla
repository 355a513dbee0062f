--------------------------- MODULE Epoll_proofs ---------------------------
(***************************************************************************)
(* Safety of the reactor for every set of objects and descriptors, every   *)
(* interleaving of main and the loop, and every moment a signal or EINTR   *)
(* can come.                                                               *)
(*                                                                         *)
(* The invariant says where each thread may be.  Three facts carry it:     *)
(* main never comes back from sigint_handler, the loop never waits again   *)
(* once it has entered EpoolQuit, and so, as long as nobody has entered    *)
(* EpoolQuit, main is the only thread that writes listeners_ and ev_.      *)
(* Last, where nothing is destroyed, every event goes to its owner.        *)
(***************************************************************************)
EXTENDS Epoll, TLAPS

AddPc == {"insert", "fcntl", "fill", "addCtl"}

(* main is in a constructor, at or past MY_EPOLL. *)
InAdd == \/ pc["main"] \in AddPc
         \/ pc["main"] = "instance" /\ "main" \notin handling

(* main is in a destructor, from EpollDel to close. *)
InDestructor == \/ pc["main"] = "close"
                \/ pc["main"] \in DelPc /\ "main" \notin quitting

(* Where main is decides what it holds. *)
MainPlaces ==
  /\ InAdd => self \in Obj /\ st[self] = "open"
  /\ InDestructor =>
       self \in Obj /\ st[self] = "live" /\ delFd["main"] = fdOf[self]
  /\ InAdd \/ InDestructor \/ pc["main"] = "idle" => "main" \notin handling
  /\ pc["main"] \in DelPc => delFd["main"] \in Fd
  /\ pc["main"] \in QuitPc => "main" \in quitting
  /\ quitting \ {"loop"} \subseteq handling

(* The loop is inside EpoolQuit only if it is in quitting, and then it does
   not wait again. *)
LoopPlaces ==
  /\ pc["loop"] \in DelPc \union QuitPc => "loop" \in quitting
  /\ pc["loop"] \in DelPc => delFd["loop"] \in Fd
  /\ "loop" \in handling => "loop" \in quitting
  /\ "loop" \in quitting =>
       \/ pc["loop"] \in DelPc \union QuitPc \union {"exit", "done"}
       \/ pc["loop"] = "test" /\ ~running
  /\ pc["loop"] \in {"call", "run"} => it \in [ev : Event, obj : Obj]

(* listeners_ can be torn only after main was stopped for good, or with a
   second writer. *)
TornIsLate == torn => "main" \in handling \/ quitting # {}

(* Descriptors: owned by the objects that are open, by one each. *)
Ownership ==
  /\ \A o \in Obj : st[o] \in {"open", "live"} <=> fdOf[o] # None
  /\ \A o, p \in Obj : fdOf[o] = fdOf[p] /\ fdOf[o] # None => o = p
  /\ \A f \in Fd : interest[f] # None => IsOpen(f)

(* What main has done so far in EpollAdd or EpollDel. *)
Progress ==
  quitting = {} =>
    /\ pc["main"] \in {"fcntl", "fill", "addCtl"}
         => listeners[fdOf[self]] # None
    /\ pc["main"] = "erase" => interest[delFd["main"]] = None
    /\ pc["main"] = "close" =>
         listeners[fdOf[self]] = None /\ interest[fdOf[self]] = None

(* ev_ and what was copied from it, while the loop can still wait. *)
EvOwnedByMain ==
  "loop" \notin quitting =>
    /\ pc["main"] = "addCtl" => evFd = fdOf[self]
    /\ \A f \in Fd : interest[f] \in {None, f}

Places == MainPlaces /\ LoopPlaces /\ TornIsLate

Tables == Ownership /\ Progress /\ WatchedHasListener /\ ListenerAlive

Events == EvOwnedByMain /\ EventNamesSource

(* The inductive invariant. *)
IInv == TypeOK /\ Places /\ Tables /\ Events /\ ExitAfterLoop

-----------------------------------------------------------------------------
(* The invariant holds when main starts. *)
LEMMA InitEstablishes == Init => IInv
<1> SUFFICES ASSUME Init PROVE IInv
  OBVIOUS
<1> USE EpollAssumption DEF Init, Thread, MainPc, LoopPc, DelPc, QuitPc
<1>1. TypeOK
  <2>1. /\ pc \in [Thread -> MainPc \union LoopPc]
        /\ pc["main"] \in MainPc /\ pc["loop"] \in LoopPc
    OBVIOUS
  <2>2. input \in [Fd -> 0 .. MaxInput] /\ exits \in Nat
    OBVIOUS
  <2>3. /\ st \in [Obj -> {"new", "open", "live", "dead"}]
        /\ fdOf \in [Obj -> Fd \union {None}]
        /\ listeners \in [Fd -> Obj \union {None}]
        /\ interest \in [Fd -> Fd \union {None}]
        /\ delFd \in [Thread -> Fd \union {None}]
    OBVIOUS
  <2> QED
    BY <2>1, <2>2, <2>3 DEF TypeOK
<1>2. Places
  BY DEF Places, MainPlaces, InAdd, InDestructor, AddPc, LoopPlaces, TornIsLate
<1>3. Tables
  BY DEF Tables, Ownership, Progress, WatchedHasListener, ListenerAlive
<1>4. Events
  BY DEF Events, EvOwnedByMain, EventNamesSource
<1>5. ExitAfterLoop
  BY DEF ExitAfterLoop
<1> QED
  BY <1>1, <1>2, <1>3, <1>4, <1>5 DEF IInv

-----------------------------------------------------------------------------
(* One lemma per action.  Every action tests pc with At, moves it with Goto,
   and names what it leaves alone by groups of variables. *)

USE DEF At, Goto, mainVars, kernelVars, loopVars, quitVars, Thread, MainPc, LoopPc,
        DelPc, QuitPc

(* A constructor opens a descriptor that nobody else owns. *)
LEMMA OpenKeeps ==
  ASSUME IInv, NEW o \in Obj, NEW f \in Fd, Open(o, f)
  PROVE  IInv'
<1>1. TypeOK'
  BY DEF IInv, Open, TypeOK
<1>2. Places'
  BY DEF IInv, Open, TypeOK, Places, MainPlaces, InDestructor, LoopPlaces,
      TornIsLate
<1>3. Tables'
  BY EpollAssumption DEF IInv, Open, IsOpen, TypeOK, Tables, Ownership,
      Progress, WatchedHasListener, ListenerAlive
<1>4. Events'
  BY DEF IInv, Open, Events, EvOwnedByMain, EventNamesSource
<1>5. ExitAfterLoop'
  BY DEF IInv, Open, ExitAfterLoop
<1> QED
  BY <1>1, <1>2, <1>3, <1>4, <1>5 DEF IInv

(* A constructor calls exit with nothing registered. *)
LEMMA OpenFailsKeeps ==
  ASSUME IInv, NEW o \in Obj, OpenFails(o)
  PROVE  IInv'
<1>1. TypeOK'
  BY DEF IInv, OpenFails, TypeOK
<1>2. Places'
  BY DEF IInv, OpenFails, Places, MainPlaces, InAdd, InDestructor, AddPc,
      LoopPlaces, TornIsLate
<1>3. Tables'
  BY DEF IInv, OpenFails, Tables, Ownership, IsOpen, Progress,
      WatchedHasListener, ListenerAlive
<1>4. Events'
  BY DEF IInv, OpenFails, Events, EvOwnedByMain, EventNamesSource
<1>5. ExitAfterLoop'
  BY DEF IInv, OpenFails, ExitAfterLoop
<1> QED
  BY <1>1, <1>2, <1>3, <1>4, <1>5 DEF IInv

(* MY_EPOLL starts the loop; a signal handler goes on to EpoolQuit. *)
LEMMA InstanceKeeps ==
  ASSUME IInv, Instance
  PROVE  IInv'
<1>1. TypeOK'
  BY DEF IInv, Instance, TypeOK
<1>2. Places'
  <2>1. MainPlaces'
    BY DEF IInv, Instance, TypeOK, Places, MainPlaces, InAdd, InDestructor,
        AddPc
  <2>2. LoopPlaces'
    BY EpollAssumption DEF IInv, Instance, TypeOK, Places, LoopPlaces
  <2>3. TornIsLate'
    BY DEF IInv, Instance, Places, TornIsLate
  <2> QED
    BY <2>1, <2>2, <2>3 DEF Places
<1>3. Tables'
  BY DEF IInv, Instance, TypeOK, Tables, Ownership, IsOpen, Progress,
      WatchedHasListener, ListenerAlive
<1>4. Events'
  BY DEF IInv, Instance, TypeOK, Events, EvOwnedByMain, EventNamesSource
<1>5. ExitAfterLoop'
  BY DEF IInv, Instance, ExitAfterLoop
<1> QED
  BY <1>1, <1>2, <1>3, <1>4, <1>5 DEF IInv

(* EpollAdd inserts the listener of an object that is alive. *)
LEMMA AddInsertKeeps ==
  ASSUME IInv, AddInsert
  PROVE  IInv'
<1>1. TypeOK'
  BY DEF IInv, AddInsert, TypeOK
<1>2. Places'
  BY DEF IInv, AddInsert, Writing, WriteRace, Other, TypeOK, Places,
      MainPlaces, InAdd, InDestructor, AddPc, LoopPlaces, TornIsLate
<1>3. Tables'
  <2>1. Ownership'
    BY DEF IInv, AddInsert, Tables, Ownership, IsOpen
  <2>2. Progress'
    BY EpollAssumption DEF IInv, AddInsert, Writing, WriteRace, Other,
        TypeOK, Places, MainPlaces, InAdd, AddPc, LoopPlaces, TornIsLate,
        Tables, Ownership, Progress
  <2>3. WatchedHasListener'
    BY DEF IInv, AddInsert, TypeOK, Places, MainPlaces, InAdd, AddPc, Tables,
        Ownership, WatchedHasListener, ListenerAlive
  <2>4. ListenerAlive'
    BY DEF IInv, AddInsert, TypeOK, Places, MainPlaces, InAdd, AddPc, Tables,
        ListenerAlive
  <2> QED
    BY <2>1, <2>2, <2>3, <2>4 DEF Tables
<1>4. Events'
  BY DEF IInv, AddInsert, Events, EvOwnedByMain, EventNamesSource
<1>5. ExitAfterLoop'
  BY DEF IInv, AddInsert, ExitAfterLoop
<1> QED
  BY <1>1, <1>2, <1>3, <1>4, <1>5 DEF IInv

(* EpollAdd gives up after fcntl or goes on. *)
LEMMA AddFcntlKeeps ==
  ASSUME IInv, AddFcntl
  PROVE  IInv'
<1>1. TypeOK'
  BY DEF IInv, AddFcntl, AddReturns, TypeOK
<1>2. Places'
  BY DEF IInv, AddFcntl, AddReturns, TypeOK, Places, MainPlaces, InAdd,
      InDestructor, AddPc, LoopPlaces, TornIsLate
<1>3. Tables'
  BY DEF IInv, AddFcntl, AddReturns, TypeOK, Places, MainPlaces, InAdd,
      AddPc, Tables, Ownership, IsOpen, Progress, WatchedHasListener,
      ListenerAlive
<1>4. Events'
  BY DEF IInv, AddFcntl, AddReturns, TypeOK, Events, EvOwnedByMain,
      EventNamesSource
<1>5. ExitAfterLoop'
  BY DEF IInv, AddFcntl, ExitAfterLoop
<1> QED
  BY <1>1, <1>2, <1>3, <1>4, <1>5 DEF IInv

(* EpollAdd writes its own descriptor to ev_. *)
LEMMA AddFillKeeps ==
  ASSUME IInv, AddFill
  PROVE  IInv'
<1>1. TypeOK'
  BY DEF IInv, AddFill, TypeOK, Places, MainPlaces, InAdd, AddPc
<1>2. Places'
  BY DEF IInv, AddFill, Places, MainPlaces, InAdd, InDestructor, AddPc,
      LoopPlaces, TornIsLate
<1>3. Tables'
  BY DEF IInv, AddFill, Tables, Ownership, IsOpen, Progress,
      WatchedHasListener, ListenerAlive
<1>4. Events'
  BY DEF IInv, AddFill, Events, EvOwnedByMain, EventNamesSource
<1>5. ExitAfterLoop'
  BY DEF IInv, AddFill, ExitAfterLoop
<1> QED
  BY <1>1, <1>2, <1>3, <1>4, <1>5 DEF IInv

(* The kernel copies ev_, which still names that descriptor. *)
LEMMA AddCtlKeeps ==
  ASSUME IInv, AddCtl
  PROVE  IInv'
<1>1. TypeOK'
  BY ZenonT(40) DEF IInv, AddCtl, AddReturns, TypeOK, Places, MainPlaces
<1>2. Places'
  BY DEF IInv, AddCtl, AddReturns, TypeOK, Places, MainPlaces, InAdd,
      InDestructor, AddPc, LoopPlaces, TornIsLate
<1>3. Tables'
  BY DEF IInv, AddCtl, AddReturns, TypeOK, Places, MainPlaces, InAdd, AddPc,
      Tables, Ownership, IsOpen, Progress, WatchedHasListener, ListenerAlive
<1>4. Events'
  BY DEF IInv, AddCtl, AddReturns, TypeOK, Events, EvOwnedByMain,
      EventNamesSource
<1>5. ExitAfterLoop'
  BY DEF IInv, AddCtl, ExitAfterLoop
<1> QED
  BY <1>1, <1>2, <1>3, <1>4, <1>5 DEF IInv

(* A destructor calls EpollDel on the descriptor its object owns. *)
LEMMA DestroyKeeps ==
  ASSUME IInv, NEW o \in Obj, Destroy(o)
  PROVE  IInv'
<1>1. TypeOK'
  BY DEF IInv, Destroy, TypeOK
<1>2. Places'
  BY DEF IInv, Destroy, TypeOK, Places, MainPlaces, InAdd, AddPc, LoopPlaces,
      TornIsLate, Tables, Ownership
<1>3. Tables'
  BY DEF IInv, Destroy, Tables, Ownership, IsOpen, Progress,
      WatchedHasListener, ListenerAlive
<1>4. Events'
  BY DEF IInv, Destroy, Events, EvOwnedByMain, EventNamesSource
<1>5. ExitAfterLoop'
  BY DEF IInv, Destroy, ExitAfterLoop
<1> QED
  BY <1>1, <1>2, <1>3, <1>4, <1>5 DEF IInv

(* EpollDel writes its descriptor to ev_. *)
LEMMA DelFillKeeps ==
  ASSUME IInv, NEW t \in Thread, DelFill(t)
  PROVE  IInv'
<1>1. TypeOK'
  BY DEF IInv, DelFill, TypeOK
<1>2. Places'
  BY DEF IInv, DelFill, Places, MainPlaces, InAdd, InDestructor, AddPc,
      LoopPlaces, TornIsLate
<1>3. Tables'
  BY DEF IInv, DelFill, Tables, Ownership, IsOpen, Progress,
      WatchedHasListener, ListenerAlive
<1>4. Events'
  BY DEF IInv, DelFill, Places, LoopPlaces, Events, EvOwnedByMain,
      EventNamesSource
<1>5. ExitAfterLoop'
  BY DEF IInv, DelFill, ExitAfterLoop
<1> QED
  BY <1>1, <1>2, <1>3, <1>4, <1>5 DEF IInv

(* EpollDel ends the kernel's watch first. *)
LEMMA DelCtlKeeps ==
  ASSUME IInv, NEW t \in Thread, DelCtl(t)
  PROVE  IInv'
<1>1. TypeOK'
  BY DEF IInv, DelCtl, TypeOK
<1>2. Places'
  BY DEF IInv, DelCtl, Places, MainPlaces, InAdd, InDestructor, AddPc,
      LoopPlaces, TornIsLate
<1>3. Tables'
  BY DEF IInv, DelCtl, TypeOK, Places, MainPlaces, Tables, Ownership, IsOpen,
      Progress, WatchedHasListener, ListenerAlive
<1>4. Events'
  BY DEF IInv, DelCtl, Events, EvOwnedByMain, EventNamesSource
<1>5. ExitAfterLoop'
  BY DEF IInv, DelCtl, ExitAfterLoop
<1> QED
  BY <1>1, <1>2, <1>3, <1>4, <1>5 DEF IInv

(* EpollDel then erases the listener of a descriptor not watched. *)
LEMMA EraseKeeps ==
  ASSUME IInv, NEW t \in Thread, Erase(t)
  PROVE  IInv'
<1>1. TypeOK'
  BY DEF IInv, Erase, TypeOK, Places, LoopPlaces
<1>2. Places'
  BY DEF IInv, Erase, Writing, WriteRace, Other, TypeOK, Places, MainPlaces,
      InAdd, InDestructor, AddPc, LoopPlaces, TornIsLate
<1>3. Tables'
  <2>1. Ownership'
    BY DEF IInv, Erase, Tables, Ownership, IsOpen
  <2>2. Progress'
    BY DEF IInv, Erase, Writing, WriteRace, Other, TypeOK, Places,
        MainPlaces, InDestructor, LoopPlaces, TornIsLate, Tables, Progress
  <2>3. WatchedHasListener'
    BY DEF IInv, Erase, TypeOK, Places, LoopPlaces, Tables, Progress,
        WatchedHasListener
  <2>4. ListenerAlive'
    BY DEF IInv, Erase, TypeOK, Tables, ListenerAlive
  <2> QED
    BY <2>1, <2>2, <2>3, <2>4 DEF Tables
<1>4. Events'
  BY DEF IInv, Erase, Events, EvOwnedByMain, EventNamesSource
<1>5. ExitAfterLoop'
  BY DEF IInv, Erase, ExitAfterLoop
<1> QED
  BY <1>1, <1>2, <1>3, <1>4, <1>5 DEF IInv

(* The destructor closes a descriptor with no listener left. *)
LEMMA CloseKeeps ==
  ASSUME IInv, Close
  PROVE  IInv'
<1>1. TypeOK'
  BY EpollAssumption DEF IInv, Close, TypeOK, Places, MainPlaces,
      InDestructor, Tables, Ownership
<1>2. Places'
  BY DEF IInv, Close, TypeOK, Places, MainPlaces, InAdd, InDestructor, AddPc,
      LoopPlaces, TornIsLate
<1>3. Tables'
  BY DEF IInv, Close, TypeOK, Tables, Ownership, IsOpen, Progress,
      WatchedHasListener, ListenerAlive
<1>4. Events'
  BY DEF IInv, Close, Events, EvOwnedByMain, EventNamesSource
<1>5. ExitAfterLoop'
  BY DEF IInv, Close, ExitAfterLoop
<1> QED
  BY <1>1, <1>2, <1>3, <1>4, <1>5 DEF IInv

(* The loop tests epoll_loop_. *)
LEMMA TestKeeps ==
  ASSUME IInv, Test
  PROVE  IInv'
<1>1. TypeOK'
  BY DEF IInv, Test, TypeOK
<1>2. Places'
  BY DEF IInv, Test, Places, MainPlaces, InAdd, InDestructor, LoopPlaces,
      TornIsLate
<1>3. Tables'
  BY DEF IInv, Test, Tables, Ownership, IsOpen, Progress, WatchedHasListener,
      ListenerAlive
<1>4. Events'
  BY DEF IInv, Test, Events, EvOwnedByMain, EventNamesSource
<1>5. ExitAfterLoop'
  BY DEF IInv, Test, ExitAfterLoop
<1> QED
  BY <1>1, <1>2, <1>3, <1>4, <1>5 DEF IInv

(* epoll_wait delivers what was registered for each descriptor. *)
LEMMA WaitEventsKeeps ==
  ASSUME IInv, WaitEvents
  PROVE  IInv'
<1>1. TypeOK'
  BY DEF IInv, WaitEvents, Ready, Event, TypeOK, Tables, Ownership, IsOpen
<1>2. Places'
  BY DEF IInv, WaitEvents, Places, MainPlaces, InAdd, InDestructor,
      LoopPlaces, TornIsLate
<1>3. Tables'
  BY DEF IInv, WaitEvents, Tables, Ownership, IsOpen, Progress,
      WatchedHasListener, ListenerAlive
<1>4. Events'
  BY DEF IInv, WaitEvents, Ready, Places, LoopPlaces, Events, EvOwnedByMain,
      EventNamesSource
<1>5. ExitAfterLoop'
  BY DEF IInv, WaitEvents, ExitAfterLoop
<1> QED
  BY <1>1, <1>2, <1>3, <1>4, <1>5 DEF IInv

(* epoll_wait returns without an event. *)
LEMMA WaitTimeoutKeeps ==
  ASSUME IInv, WaitTimeout
  PROVE  IInv'
<1>1. TypeOK'
  BY DEF IInv, WaitTimeout, TypeOK
<1>2. Places'
  BY DEF IInv, WaitTimeout, Places, MainPlaces, InAdd, InDestructor,
      LoopPlaces, TornIsLate
<1>3. Tables'
  BY DEF IInv, WaitTimeout, Tables, Ownership, IsOpen, Progress,
      WatchedHasListener, ListenerAlive
<1>4. Events'
  BY DEF IInv, WaitTimeout, Events, EvOwnedByMain, EventNamesSource
<1>5. ExitAfterLoop'
  BY DEF IInv, WaitTimeout, ExitAfterLoop
<1> QED
  BY <1>1, <1>2, <1>3, <1>4, <1>5 DEF IInv

(* epoll_wait fails and the loop enters EpoolQuit. *)
LEMMA WaitFailsKeeps ==
  ASSUME IInv, WaitFails
  PROVE  IInv'
<1>1. TypeOK'
  BY DEF IInv, WaitFails, TypeOK
<1>2. Places'
  BY DEF IInv, WaitFails, TypeOK, Places, MainPlaces, InAdd, InDestructor,
      LoopPlaces, TornIsLate
<1>3. Tables'
  BY DEF IInv, WaitFails, Tables, Ownership, IsOpen, Progress,
      WatchedHasListener, ListenerAlive
<1>4. Events'
  BY DEF IInv, WaitFails, Events, EvOwnedByMain, EventNamesSource
<1>5. ExitAfterLoop'
  BY DEF IInv, WaitFails, ExitAfterLoop
<1> QED
  BY <1>1, <1>2, <1>3, <1>4, <1>5 DEF IInv

(* The lookup finds a listener. *)
LEMMA FindHitKeeps ==
  ASSUME IInv, NEW e \in batch, FindHit(e)
  PROVE  IInv'
<1>1. TypeOK'
  BY DEF IInv, FindHit, Event, TypeOK
<1>2. Places'
  <2>1. MainPlaces'
    BY DEF IInv, FindHit, Places, MainPlaces, InAdd, InDestructor
  <2>2. LoopPlaces'
    BY EpollAssumption DEF IInv, FindHit, TypeOK, Places, LoopPlaces, Event
  <2>3. TornIsLate'
    BY DEF IInv, FindHit, Places, TornIsLate
  <2> QED
    BY <2>1, <2>2, <2>3 DEF Places
<1>3. Tables'
  BY DEF IInv, FindHit, Tables, Ownership, IsOpen, Progress,
      WatchedHasListener, ListenerAlive
<1>4. Events'
  BY DEF IInv, FindHit, Events, EvOwnedByMain, EventNamesSource
<1>5. ExitAfterLoop'
  BY DEF IInv, FindHit, ExitAfterLoop
<1> QED
  BY <1>1, <1>2, <1>3, <1>4, <1>5 DEF IInv

(* The lookup misses and the loop goes on with the batch. *)
LEMMA FindMissKeeps ==
  ASSUME IInv, NEW e \in batch, FindMiss(e)
  PROVE  IInv'
<1>1. TypeOK'
  BY DEF IInv, FindMiss, AfterEvent, TypeOK
<1>2. Places'
  BY DEF IInv, FindMiss, AfterEvent, Places, MainPlaces, InAdd, InDestructor,
      LoopPlaces, TornIsLate
<1>3. Tables'
  BY DEF IInv, FindMiss, AfterEvent, Tables, Ownership, IsOpen, Progress,
      WatchedHasListener, ListenerAlive
<1>4. Events'
  BY DEF IInv, FindMiss, AfterEvent, Events, EvOwnedByMain, EventNamesSource
<1>5. ExitAfterLoop'
  BY DEF IInv, FindMiss, ExitAfterLoop
<1> QED
  BY <1>1, <1>2, <1>3, <1>4, <1>5 DEF IInv

(* The loop calls the listener's callback. *)
LEMMA CallKeeps ==
  ASSUME IInv, Call
  PROVE  IInv'
<1>1. TypeOK'
  BY DEF IInv, Call, TypeOK
<1>2. Places'
  BY DEF IInv, Call, Places, MainPlaces, InAdd, InDestructor, LoopPlaces,
      TornIsLate
<1>3. Tables'
  BY DEF IInv, Call, Tables, Ownership, IsOpen, Progress, WatchedHasListener,
      ListenerAlive
<1>4. Events'
  BY DEF IInv, Call, Events, EvOwnedByMain, EventNamesSource
<1>5. ExitAfterLoop'
  BY DEF IInv, Call, ExitAfterLoop
<1> QED
  BY <1>1, <1>2, <1>3, <1>4, <1>5 DEF IInv

(* The callback returns. *)
LEMMA RunKeeps ==
  ASSUME IInv, Run
  PROVE  IInv'
<1>1. TypeOK'
  BY EpollAssumption DEF IInv, Run, AfterEvent, TypeOK, Places, LoopPlaces
<1>2. Places'
  BY DEF IInv, Run, AfterEvent, TypeOK, Places, MainPlaces, InAdd,
      InDestructor, LoopPlaces, TornIsLate
<1>3. Tables'
  BY DEF IInv, Run, AfterEvent, Tables, Ownership, IsOpen, Progress,
      WatchedHasListener, ListenerAlive
<1>4. Events'
  BY DEF IInv, Run, AfterEvent, Events, EvOwnedByMain, EventNamesSource
<1>5. ExitAfterLoop'
  BY DEF IInv, Run, ExitAfterLoop
<1> QED
  BY <1>1, <1>2, <1>3, <1>4, <1>5 DEF IInv

(* EpoolQuit takes the first listener. *)
LEMMA QuitBeginKeeps ==
  ASSUME IInv, NEW t \in Thread, QuitBegin(t)
  PROVE  IInv'
<1>1. TypeOK'
  BY DEF IInv, QuitBegin, TypeOK
<1>2. Places'
  BY DEF IInv, QuitBegin, TypeOK, Places, MainPlaces, InAdd, InDestructor,
      AddPc, LoopPlaces, TornIsLate
<1>3. Tables'
  BY DEF IInv, QuitBegin, TypeOK, Tables, Ownership, IsOpen, Progress,
      WatchedHasListener, ListenerAlive
<1>4. Events'
  BY DEF IInv, QuitBegin, TypeOK, Events, EvOwnedByMain, EventNamesSource
<1>5. ExitAfterLoop'
  BY DEF IInv, QuitBegin, ExitAfterLoop
<1> QED
  BY <1>1, <1>2, <1>3, <1>4, <1>5 DEF IInv

(* EpoolQuit takes another listener. *)
LEMMA QuitNextKeeps ==
  ASSUME IInv, NEW t \in Thread, QuitNext(t)
  PROVE  IInv'
<1>1. TypeOK'
  BY DEF IInv, QuitNext, TypeOK
<1>2. Places'
  BY DEF IInv, QuitNext, TypeOK, Places, MainPlaces, InAdd, InDestructor,
      AddPc, LoopPlaces, TornIsLate
<1>3. Tables'
  BY DEF IInv, QuitNext, TypeOK, Tables, Ownership, IsOpen, Progress,
      WatchedHasListener, ListenerAlive
<1>4. Events'
  BY DEF IInv, QuitNext, TypeOK, Events, EvOwnedByMain, EventNamesSource
<1>5. ExitAfterLoop'
  BY DEF IInv, QuitNext, ExitAfterLoop
<1> QED
  BY <1>1, <1>2, <1>3, <1>4, <1>5 DEF IInv

(* EpoolQuit clears epoll_loop_, so the loop does not wait again. *)
LEMMA QuitFlagKeeps ==
  ASSUME IInv, NEW t \in Thread, QuitFlag(t)
  PROVE  IInv'
<1>1. TypeOK'
  BY ZenonT(40) DEF IInv, QuitFlag, AfterQuit, TypeOK, Places, MainPlaces
<1>2. Places'
  BY DEF IInv, QuitFlag, AfterQuit, Places, MainPlaces, InAdd, InDestructor,
      AddPc, LoopPlaces, TornIsLate
<1>3. Tables'
  BY DEF IInv, QuitFlag, AfterQuit, Tables, Ownership, IsOpen, Progress,
      WatchedHasListener, ListenerAlive
<1>4. Events'
  BY DEF IInv, QuitFlag, AfterQuit, Events, EvOwnedByMain, EventNamesSource
<1>5. ExitAfterLoop'
  BY DEF IInv, QuitFlag, ExitAfterLoop
<1> QED
  BY <1>1, <1>2, <1>3, <1>4, <1>5 DEF IInv

(* main enters sigint_handler, for good. *)
LEMMA SigintMainKeeps ==
  ASSUME IInv, SigintMain
  PROVE  IInv'
<1>1. TypeOK'
  BY DEF IInv, SigintMain, TypeOK
<1>2. Places'
  BY DEF IInv, SigintMain, TypeOK, Places, MainPlaces, InAdd, InDestructor,
      AddPc, LoopPlaces, TornIsLate
<1>3. Tables'
  BY DEF IInv, SigintMain, TypeOK, Tables, Ownership, IsOpen, Progress,
      WatchedHasListener, ListenerAlive
<1>4. Events'
  BY DEF IInv, SigintMain, TypeOK, Events, EvOwnedByMain, EventNamesSource
<1>5. ExitAfterLoop'
  BY DEF IInv, SigintMain, ExitAfterLoop
<1> QED
  BY <1>1, <1>2, <1>3, <1>4, <1>5 DEF IInv

(* The loop enters sigint_handler and so EpoolQuit. *)
LEMMA SigintLoopKeeps ==
  ASSUME IInv, SigintLoop
  PROVE  IInv'
<1>1. TypeOK'
  BY DEF IInv, SigintLoop, TypeOK
<1>2. Places'
  BY DEF IInv, SigintLoop, TypeOK, Places, MainPlaces, InAdd, InDestructor,
      LoopPlaces, TornIsLate
<1>3. Tables'
  BY DEF IInv, SigintLoop, Tables, Ownership, IsOpen, Progress,
      WatchedHasListener, ListenerAlive
<1>4. Events'
  BY DEF IInv, SigintLoop, Events, EvOwnedByMain, EventNamesSource
<1>5. ExitAfterLoop'
  BY DEF IInv, SigintLoop, ExitAfterLoop
<1> QED
  BY <1>1, <1>2, <1>3, <1>4, <1>5 DEF IInv

(* exit on main: the first call waits in ~Epoll for the loop. *)
LEMMA ExitMainKeeps ==
  ASSUME IInv, ExitMain
  PROVE  IInv'
<1>1. TypeOK'
  BY DEF IInv, ExitMain, TypeOK
<1>2. Places'
  BY DEF IInv, ExitMain, TypeOK, Places, MainPlaces, InAdd, InDestructor,
      AddPc, LoopPlaces, TornIsLate
<1>3. Tables'
  BY DEF IInv, ExitMain, TypeOK, Tables, Ownership, IsOpen, Progress,
      WatchedHasListener, ListenerAlive
<1>4. Events'
  BY DEF IInv, ExitMain, TypeOK, Events, EvOwnedByMain, EventNamesSource
<1>5. ExitAfterLoop'
  BY DEF IInv, ExitMain, TypeOK, ExitAfterLoop
<1> QED
  BY <1>1, <1>2, <1>3, <1>4, <1>5 DEF IInv

(* exit on the loop: only a second call ends the process normally. *)
LEMMA ExitLoopKeeps ==
  ASSUME IInv, ExitLoop
  PROVE  IInv'
<1>1. TypeOK'
  BY DEF IInv, ExitLoop, TypeOK
<1>2. Places'
  BY DEF IInv, ExitLoop, Places, MainPlaces, InAdd, InDestructor, LoopPlaces,
      TornIsLate
<1>3. Tables'
  BY DEF IInv, ExitLoop, Tables, Ownership, IsOpen, Progress,
      WatchedHasListener, ListenerAlive
<1>4. Events'
  BY DEF IInv, ExitLoop, Events, EvOwnedByMain, EventNamesSource
<1>5. ExitAfterLoop'
  BY DEF IInv, ExitLoop, TypeOK, ExitAfterLoop
<1> QED
  BY <1>1, <1>2, <1>3, <1>4, <1>5 DEF IInv

(* ~Epoll returns when the loop has ended. *)
LEMMA JoinKeeps ==
  ASSUME IInv, Join
  PROVE  IInv'
<1>1. TypeOK'
  BY DEF IInv, Join, TypeOK
<1>2. Places'
  BY DEF IInv, Join, Places, MainPlaces, InAdd, InDestructor, LoopPlaces,
      TornIsLate
<1>3. Tables'
  BY DEF IInv, Join, Tables, Ownership, IsOpen, Progress, WatchedHasListener,
      ListenerAlive
<1>4. Events'
  BY DEF IInv, Join, Events, EvOwnedByMain, EventNamesSource
<1>5. ExitAfterLoop'
  BY DEF IInv, Join, ExitAfterLoop
<1> QED
  BY <1>1, <1>2, <1>3, <1>4, <1>5 DEF IInv

(* The process crashes. *)
LEMMA UndefinedCrashKeeps ==
  ASSUME IInv, NEW t \in Thread, UndefinedCrash(t)
  PROVE  IInv'
<1>1. TypeOK'
  BY DEF IInv, UndefinedCrash, TypeOK
<1>2. Places'
  BY DEF IInv, UndefinedCrash, Places, MainPlaces, InAdd, InDestructor,
      LoopPlaces, TornIsLate
<1>3. Tables'
  BY DEF IInv, UndefinedCrash, Tables, Ownership, IsOpen, Progress,
      WatchedHasListener, ListenerAlive
<1>4. Events'
  BY DEF IInv, UndefinedCrash, Events, EvOwnedByMain, EventNamesSource
<1>5. ExitAfterLoop'
  BY DEF IInv, UndefinedCrash, ExitAfterLoop
<1> QED
  BY <1>1, <1>2, <1>3, <1>4, <1>5 DEF IInv

(* A device raises an input. *)
LEMMA InputKeeps ==
  ASSUME IInv, NEW f \in Fd, Input(f)
  PROVE  IInv'
<1>1. TypeOK'
  BY EpollAssumption DEF IInv, Input, TypeOK
<1>2. Places'
  BY DEF IInv, Input, Places, MainPlaces, InAdd, InDestructor, LoopPlaces,
      TornIsLate
<1>3. Tables'
  BY DEF IInv, Input, IsOpen, Tables, Ownership, Progress,
      WatchedHasListener, ListenerAlive
<1>4. Events'
  BY DEF IInv, Input, Events, EvOwnedByMain, EventNamesSource
<1>5. ExitAfterLoop'
  BY DEF IInv, Input, ExitAfterLoop
<1> QED
  BY <1>1, <1>2, <1>3, <1>4, <1>5 DEF IInv

-----------------------------------------------------------------------------
(* Every step of the reactor, its users and its environment keeps the
   invariant. *)
LEMMA StepKeeps ==
  ASSUME IInv, Next
  PROVE  IInv'
<1>1. CASE MainStep
  BY <1>1, InstanceKeeps, AddInsertKeeps, AddFcntlKeeps, AddFillKeeps,
     AddCtlKeeps, CloseKeeps, ExitMainKeeps, JoinKeeps DEF MainStep
<1>2. CASE LoopStep
  BY <1>2, TestKeeps, WaitEventsKeeps, WaitTimeoutKeeps, CallKeeps, RunKeeps,
     ExitLoopKeeps, FindHitKeeps, FindMissKeeps DEF LoopStep
<1>3. CASE Environment
  BY <1>3, SigintMainKeeps, SigintLoopKeeps, WaitFailsKeeps,
     UndefinedCrashKeeps, InputKeeps DEF Environment
<1>4. ASSUME NEW t \in Thread, SharedStep(t) PROVE IInv'
  BY <1>4, DelFillKeeps, DelCtlKeeps, EraseKeeps, QuitBeginKeeps,
     QuitNextKeeps, QuitFlagKeeps DEF SharedStep
<1>5. ASSUME NEW o \in Obj, OpenFails(o) \/ Destroy(o) PROVE IInv'
  BY <1>5, OpenFailsKeeps, DestroyKeeps
<1>6. ASSUME NEW o \in Obj, NEW f \in Fd, Open(o, f) PROVE IInv'
  BY <1>6, OpenKeeps
<1> QED
  BY <1>1, <1>2, <1>3, <1>4, <1>5, <1>6 DEF Next

(* A step that changes nothing keeps it too. *)
LEMMA StutterKeeps ==
  ASSUME IInv, UNCHANGED vars
  PROVE  IInv'
<1> USE DEF vars
<1>1. TypeOK'
  BY DEF IInv, TypeOK
<1>2. Places'
  BY DEF IInv, Places, MainPlaces, InAdd, InDestructor, LoopPlaces, TornIsLate
<1>3. Tables'
  BY DEF IInv, Tables, Ownership, IsOpen, Progress, WatchedHasListener,
         ListenerAlive
<1>4. Events'
  BY DEF IInv, Events, EvOwnedByMain, EventNamesSource
<1>5. ExitAfterLoop'
  BY DEF IInv, ExitAfterLoop
<1> QED
  BY <1>1, <1>2, <1>3, <1>4, <1>5 DEF IInv

-----------------------------------------------------------------------------
(* The inductive invariant holds in every reachable state. *)
THEOREM Invariance == Spec => []IInv
<1>1. IInv /\ [Next]_vars => IInv'
  BY StepKeeps, StutterKeeps
<1> QED
  BY InitEstablishes, <1>1, PTL DEF Spec

(* The reactor's state keeps its types: main is never in code of the loop,
   nor the loop in main's, and a handler is called only through an entry
   that was found. *)
THEOREM TypeCorrect == Spec => []TypeOK
<1>1. IInv => TypeOK
  BY DEF IInv
<1> QED
  BY Invariance, <1>1, PTL

(* EpollAdd inserts before it registers and EpollDel unregisters before it
   erases: until a thread quits the loop, a watched descriptor always has a
   listener, whichever of the two calls the loop runs through. *)
THEOREM WatchedAlwaysHasListener == Spec => []WatchedHasListener
<1>1. IInv => WatchedHasListener
  BY DEF IInv, Tables
<1> QED
  BY Invariance, <1>1, PTL

(* Until a thread quits the loop, listeners_ never refers to an object that
   is destroyed or has another descriptor. *)
THEOREM ListenersAreAlive == Spec => []ListenerAlive
<1>1. IInv => ListenerAlive
  BY DEF IInv, Tables
<1> QED
  BY Invariance, <1>1, PTL

(* The unprotected sharing of ev_ between EpollAdd on main and EpollDel on
   both threads never makes an event name a descriptor other than the one
   that raised it. *)
THEOREM EventsNameTheirSource == Spec => []EventNamesSource
<1>1. IInv => EventNamesSource
  BY DEF IInv, Events
<1> QED
  BY Invariance, <1>1, PTL

(* A process that called exit once ends normally only after the loop thread
   has left EpollLoop, or was never started. *)
THEOREM ExitWaitsForLoop == Spec => []ExitAfterLoop
<1>1. IInv => ExitAfterLoop
  BY DEF IInv
<1> QED
  BY Invariance, <1>1, PTL
-----------------------------------------------------------------------------
(* Where devices are kept, as main.cc keeps its own, until the process ends:
   what is registered belongs to the object that owns the descriptor, and so
   does what has been found, because an owner is one for good. *)
OwnersStay ==
  /\ pc["main"] # "close" /\ ~InDestructor
  /\ \A f \in Fd : listeners[f] # None => fdOf[listeners[f]] = f
  /\ \A e \in batch : e.by \in Obj /\ fdOf[e.by] = e.src
  /\ it # None => /\ it.ev \in batch
                  /\ it.obj \in Obj /\ fdOf[it.obj] = it.ev.data
                  /\ pc["loop"] \in {"call", "run"} \/ "loop" \in quitting

LEMMA OwnersInit == ASSUME Init PROVE OwnersStay
BY EpollAssumption DEF Init, OwnersStay, InDestructor, DelPc

LEMMA OwnersStep ==
  ASSUME IInv, Scoped = {}, OwnersStay, [Next]_vars
  PROVE  OwnersStay'
<1> USE DEF InDestructor
<1>1. CASE MainStep
  <2>1. CASE Instance
    BY <2>1 DEF Instance, OwnersStay, IInv, TypeOK
  <2>2. CASE AddInsert
    BY <2>2, EpollAssumption DEF AddInsert, OwnersStay, IInv, TypeOK, Places, MainPlaces,
       InAdd, AddPc
  <2>3. CASE AddFcntl
    BY <2>3 DEF AddFcntl, AddReturns, OwnersStay, IInv, TypeOK
  <2>4. CASE AddFill
    BY <2>4 DEF AddFill, OwnersStay, IInv, TypeOK
  <2>5. CASE AddCtl
    BY <2>5 DEF AddCtl, AddReturns, OwnersStay, IInv, TypeOK
  <2>6. CASE Close
    BY <2>6 DEF Close, OwnersStay
  <2>7. CASE ExitMain \/ Join
    BY <2>7 DEF ExitMain, Join, OwnersStay, IInv, TypeOK
  <2> QED
    BY <1>1, <2>1, <2>2, <2>3, <2>4, <2>5, <2>6, <2>7 DEF MainStep
<1>2. CASE LoopStep
  <2>1. CASE Test \/ WaitTimeout \/ Call \/ ExitLoop
    BY <2>1 DEF Test, WaitTimeout, Call, ExitLoop, OwnersStay, IInv, TypeOK
  <2>2. CASE WaitEvents
    <3>1. ASSUME NEW f \in Fd, Ready(f)
          PROVE  LET o == CHOOSE o \in Obj : fdOf[o] = f IN o \in Obj /\ fdOf[o] = f
      BY <3>1 DEF Ready, IInv, Tables, Ownership, IsOpen
    <3> QED
      BY <2>2, <3>1 DEF WaitEvents, OwnersStay, IInv, TypeOK, LoopPlaces, Places
  <2>3. CASE Run
    BY <2>3 DEF Run, AfterEvent, OwnersStay, IInv, TypeOK
  <2>4. ASSUME NEW e \in batch, FindHit(e) PROVE OwnersStay'
    BY <2>4, EpollAssumption DEF FindHit, OwnersStay, IInv, TypeOK, Event
  <2>5. ASSUME NEW e \in batch, FindMiss(e) PROVE OwnersStay'
    BY <2>5 DEF FindMiss, AfterEvent, OwnersStay, IInv, TypeOK
  <2> QED
    BY <1>2, <2>1, <2>2, <2>3, <2>4, <2>5 DEF LoopStep
<1>3. CASE Environment
  <2>1. CASE SigintMain
    BY <2>1 DEF SigintMain, OwnersStay, IInv, TypeOK
  <2>2. CASE SigintLoop \/ WaitFails
    BY <2>2 DEF SigintLoop, WaitFails, OwnersStay, IInv, TypeOK
  <2>3. ASSUME NEW t \in Thread, UndefinedCrash(t) PROVE OwnersStay'
    BY <2>3 DEF UndefinedCrash, OwnersStay, IInv, TypeOK
  <2>4. ASSUME NEW f \in Fd, Input(f) PROVE OwnersStay'
    BY <2>4 DEF Input, OwnersStay, IInv, TypeOK
  <2> QED
    BY <1>3, <2>1, <2>2, <2>3, <2>4 DEF Environment
<1>4. ASSUME NEW t \in Thread, SharedStep(t) PROVE OwnersStay'
  <2>1. CASE DelFill(t) \/ DelCtl(t)
    BY <2>1 DEF DelFill, DelCtl, OwnersStay, IInv, TypeOK
  <2>2. CASE Erase(t)
    BY <2>2, EpollAssumption DEF Erase, OwnersStay, IInv, TypeOK, Places, MainPlaces, LoopPlaces
  <2>3. CASE QuitBegin(t)
    BY <2>3 DEF QuitBegin, OwnersStay, IInv, TypeOK, Places, MainPlaces
  <2>4. CASE QuitNext(t)
    BY <2>4 DEF QuitNext, OwnersStay, IInv, TypeOK, Places, MainPlaces
  <2>5. CASE QuitFlag(t)
    BY <2>5 DEF QuitFlag, AfterQuit, OwnersStay, IInv, TypeOK
  <2> QED
    BY <1>4, <2>1, <2>2, <2>3, <2>4, <2>5 DEF SharedStep
<1>5. ASSUME NEW o \in Obj, OpenFails(o) \/ Destroy(o) PROVE OwnersStay'
  BY <1>5 DEF OpenFails, Destroy, OwnersStay, IInv, TypeOK
<1>6. ASSUME NEW o \in Obj, NEW f \in Fd, Open(o, f) PROVE OwnersStay'
  BY <1>6, EpollAssumption DEF Open, IsOpen, OwnersStay, IInv, TypeOK, Tables, Ownership, Event
<1>7. CASE UNCHANGED vars
  BY <1>7 DEF vars, OwnersStay
<1> QED
  BY <1>1, <1>2, <1>3, <1>4, <1>5, <1>6, <1>7 DEF Next

(* The callback that is run for an event is that of the object whose device
   raised it, if no object is destroyed, through races on listeners_, EINTR and
   signals at any moment: what the run epoll_reuse shows needs a destructor. *)
THEOREM KeptDevicesGetTheirEvents == Scoped = {} => (Spec => []DispatchesOwner)
<1> SUFFICES ASSUME Scoped = {} PROVE Spec => []DispatchesOwner
  OBVIOUS
<1>1. Init => OwnersStay
  BY OwnersInit
<1>2. IInv /\ OwnersStay /\ [Next]_vars => OwnersStay'
  BY OwnersStep
<1>3. ASSUME IInv, OwnersStay PROVE DispatchesOwner
  <2> SUFFICES ASSUME it # None PROVE it.obj = it.ev.by
    BY DEF DispatchesOwner
  <2>1. it.ev \in batch /\ it.obj \in Obj /\ fdOf[it.obj] = it.ev.data
    BY <1>3 DEF OwnersStay
  <2>2. it.ev.by \in Obj /\ fdOf[it.ev.by] = it.ev.src /\ it.ev.data = it.ev.src
    BY <1>3, <2>1 DEF OwnersStay, IInv, Events, EventNamesSource
  <2>3. it.ev.src \in Fd
    BY <1>3, <2>1 DEF IInv, TypeOK, Event
  <2> QED
    BY <1>3, <2>1, <2>2, <2>3, EpollAssumption DEF IInv, Tables, Ownership
<1> QED
  BY Invariance, <1>1, <1>2, <1>3, PTL DEF Spec
=============================================================================
