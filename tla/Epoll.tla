------------------------------- MODULE Epoll -------------------------------
(***************************************************************************)
(* The reactor of epoll/xepoll.cc and the life of the process around it.   *)
(*                                                                         *)
(* The main thread builds device objects (TouchScreen, GpioKey, TimerFd,   *)
(* Inotify, Uart, ...): each opens a descriptor, gives it to EpollAdd with *)
(* a callback, and, if it is destroyed, takes it out with EpollDel and     *)
(* closes it.  The loop thread runs EpollLoop.  SIGINT runs EpoolQuit and  *)
(* exit on whichever thread takes it, and exit runs ~Epoll, which joins    *)
(* the loop thread.  No lock protects listeners_, ev_ or epoll_loop_, so   *)
(* each access that another thread can interleave with is a step.          *)
(*                                                                         *)
(* The kernel's side (interest list, readiness, signal delivery) is the    *)
(* environment: it is modelled from how the code uses it.                  *)
(***************************************************************************)
EXTENDS Naturals, FiniteSets

CONSTANTS
  Fd,            \* descriptors the kernel can hand out
  Obj,           \* device objects, each of which owns at most one descriptor
  Scoped,        \* the objects destroyed while the process runs
  Fatal,         \* objects whose constructor can call exit (Inotify, Uart)
  Greedy,        \* objects whose callback never returns (Uart::UartLoop)
  Deaf,          \* objects whose callback consumes nothing (Socket::handleRead)
  Interruptible, \* can epoll_wait fail with EINTR (stop and continue)?
  MaxEvents,     \* MAXEVENTS, the size of events_
  MaxInput,      \* bound: unread inputs of one descriptor
  None           \* no descriptor, no object

ASSUME EpollAssumption ==
  /\ Scoped \subseteq Obj /\ Fatal \subseteq Obj
  /\ Greedy \subseteq Obj /\ Deaf \subseteq Obj
  /\ Interruptible \in BOOLEAN
  /\ MaxEvents \in Nat \ {0} /\ MaxInput \in Nat \ {0}
  /\ None \notin Fd /\ None \notin Obj

Thread == {"main", "loop"}

Other(t) == IF t = "main" THEN "loop" ELSE "main"

VARIABLES
  proc,       \* is the process up, and if not how it ended
  pc,         \* what each thread is about to do
  self,       \* the object main is building or destroying
  st,         \* each object's life
  fdOf,       \* each object's descriptor (key_input_fd_, timer_fd_, ...)
  listeners,  \* listeners_: whose callback is registered for a descriptor
  evFd,       \* ev_.data.fd, the one epoll_event both threads write
  interest,   \* kernel: the data.fd registered with each descriptor
  input,      \* kernel: unread inputs of each descriptor
  batch,      \* events_[i .. nfds-1], still to be dispatched
  it,         \* handle_it: the event found, and the object whose callback it is
  delFd,      \* the argument of the EpollDel each thread is in
  running,    \* epoll_loop_
  quitting,   \* threads that have entered EpoolQuit
  handling,   \* threads inside sigint_handler
  exits,      \* calls of exit so far; the first one runs ~Epoll
  torn        \* can listeners_ be corrupt: two updates at once, or one that a
              \* signal stopped half-way?

vars == <<proc, pc, self, st, fdOf, listeners, evFd, interest, input, batch,
          it, delFd, running, quitting, handling, exits, torn>>

mainVars   == <<self, st, fdOf>>
kernelVars == <<interest, input>>
loopVars   == <<batch, it>>
quitVars   == <<running, quitting, handling, exits, torn>>

DelPc  == {"delFill", "delCtl", "erase"}
QuitPc == {"qBegin", "qNext", "qFlag"}
MainPc == {"idle", "instance", "insert", "fcntl", "fill", "addCtl", "close",
           "exit", "join", "hung"} \union DelPc \union QuitPc
LoopPc == {"none", "test", "wait", "find", "call", "run", "exit", "done"}
             \union DelPc \union QuitPc

Event == [src : Fd, data : Fd, by : Obj]

-----------------------------------------------------------------------------
(* Initially main() has installed sigint_handler; nothing is open and the
   Epoll singleton does not exist. *)

Init ==
  /\ proc = "up"
  /\ pc = [t \in Thread |-> IF t = "main" THEN "idle" ELSE "none"]
  /\ self = None
  /\ st = [o \in Obj |-> "new"]
  /\ fdOf = [o \in Obj |-> None]
  /\ listeners = [f \in Fd |-> None]
  /\ evFd = None
  /\ interest = [f \in Fd |-> None]
  /\ input = [f \in Fd |-> 0]
  /\ batch = {}
  /\ it = None
  /\ delFd = [t \in Thread |-> None]
  /\ running = TRUE
  /\ quitting = {} /\ handling = {} /\ exits = 0
  /\ torn = FALSE

At(t, p) == proc = "up" /\ pc[t] = p

Goto(t, p) == pc' = [pc EXCEPT ![t] = p]

IsOpen(f) == \E o \in Obj : fdOf[o] = f

Ready(f) == interest[f] # None /\ input[f] > 0

(* Two threads in listeners_ at once, one of them changing it, or a thread
   reading what a signal left half changed: undefined behaviour. *)
Writing(t) == pc[t] \in {"insert", "erase"}
Reading(t) == pc[t] \in {"find", "qBegin", "qNext"}

Racing(t) ==
  \/ Writing(Other(t)) /\ (Writing(t) \/ Reading(t))
  \/ Writing(t) /\ Reading(Other(t))
  \/ torn /\ (Writing(t) \/ Reading(t))

WriteRace(t) == Writing(t) /\ (Writing(Other(t)) \/ torn)

-----------------------------------------------------------------------------
(* main: a device object is constructed. *)

(* The constructor (or init) opens its device. *)
Open(o, f) ==
  /\ At("main", "idle") /\ st[o] = "new" /\ ~IsOpen(f)
  /\ st' = [st EXCEPT ![o] = "open"]
  /\ fdOf' = [fdOf EXCEPT ![o] = f]
  /\ self' = o
  /\ Goto("main", "instance")
  /\ UNCHANGED <<proc, listeners, evFd, kernelVars, loopVars, delFd, quitVars>>

(* The constructor gives up on the whole process: exit without EpoolQuit. *)
OpenFails(o) ==
  /\ At("main", "idle") /\ st[o] = "new" /\ o \in Fatal
  /\ Goto("main", "exit")
  /\ UNCHANGED <<proc, mainVars, listeners, evFd, kernelVars, loopVars, delFd,
                 quitVars>>

(* MY_EPOLL: the first use constructs the singleton and starts the loop
   thread.  The caller goes on with EpollAdd, or with EpoolQuit when it is
   the signal handler. *)
Instance ==
  /\ At("main", "instance")
  /\ LET next == IF "main" \in handling THEN "qBegin" ELSE "insert"
     IN  pc' = [pc EXCEPT !["main"] = next,
                          !["loop"] = IF @ = "none" THEN "test" ELSE @]
  /\ quitting' = quitting \union handling
  /\ UNCHANGED <<proc, mainVars, listeners, evFd, kernelVars, loopVars, delFd,
                 running, handling, exits, torn>>

(* listeners_[fd] = handler; racing with another writer it can be lost. *)
AddInsert ==
  /\ At("main", "insert")
  /\ \/ listeners' = [listeners EXCEPT ![fdOf[self]] = self]
     \/ WriteRace("main") /\ UNCHANGED listeners
  /\ torn' = (torn \/ WriteRace("main"))
  /\ Goto("main", "fcntl")
  /\ UNCHANGED <<proc, mainVars, evFd, kernelVars, loopVars, delFd, running,
                 quitting, handling, exits>>

(* EpollAdd returns; no caller looks at the result. *)
AddReturns ==
  /\ Goto("main", "idle")
  /\ st' = [st EXCEPT ![self] = "live"]
  /\ self' = None

(* fcntl: make the descriptor non-blocking, or return -1 at once. *)
AddFcntl ==
  /\ At("main", "fcntl")
  /\ \/ Goto("main", "fill") /\ UNCHANGED <<self, st>>
     \/ AddReturns
  /\ UNCHANGED <<proc, fdOf, listeners, evFd, kernelVars, loopVars, delFd,
                 quitVars>>

(* A forgotten "ev_.data.fd = fd" (used as a mutant of AddFill). *)
AddFillForgets ==
  /\ At("main", "fill")
  /\ evFd' = IF evFd = None THEN fdOf[self] ELSE evFd
  /\ Goto("main", "addCtl")
  /\ UNCHANGED <<proc, mainVars, listeners, kernelVars, loopVars, delFd,
                 quitVars>>

(* ev_.data.fd = fd, in the member both threads share. *)
AddFill ==
  /\ At("main", "fill")
  /\ evFd' = fdOf[self]
  /\ Goto("main", "addCtl")
  /\ UNCHANGED <<proc, mainVars, listeners, kernelVars, loopVars, delFd,
                 quitVars>>

(* epoll_ctl(ADD): the kernel copies ev_ as it is now, or refuses. *)
AddCtl ==
  /\ At("main", "addCtl")
  /\ \/ interest' = [interest EXCEPT ![fdOf[self]] = evFd]
     \/ UNCHANGED interest
  /\ AddReturns
  /\ UNCHANGED <<proc, fdOf, listeners, evFd, input, loopVars, delFd, quitVars>>

-----------------------------------------------------------------------------
(* EpollDel, called on main by a destructor, and on either thread by
   EpoolQuit. *)

(* A destructor that closes without EpollDel (a mutant of Destroy). *)
DestroyOnlyCloses(o) ==
  /\ At("main", "idle") /\ o \in Scoped /\ st[o] = "live"
  /\ self' = o
  /\ delFd' = [delFd EXCEPT !["main"] = fdOf[o]]
  /\ Goto("main", "close")
  /\ UNCHANGED <<proc, st, fdOf, listeners, evFd, kernelVars, loopVars,
                 quitVars>>

(* A destructor calls EpollDel on its descriptor. *)
Destroy(o) ==
  /\ At("main", "idle") /\ o \in Scoped /\ st[o] = "live"
  /\ self' = o
  /\ delFd' = [delFd EXCEPT !["main"] = fdOf[o]]
  /\ Goto("main", "delFill")
  /\ UNCHANGED <<proc, st, fdOf, listeners, evFd, kernelVars, loopVars,
                 quitVars>>

DelFill(t) ==
  /\ At(t, "delFill")
  /\ evFd' = delFd[t]
  /\ Goto(t, "delCtl")
  /\ UNCHANGED <<proc, mainVars, listeners, kernelVars, loopVars, delFd,
                 quitVars>>

(* EpollDel without its epoll_ctl (a mutant of DelCtl). *)
DelCtlForgets(t) ==
  /\ At(t, "delCtl")
  /\ Goto(t, "erase")
  /\ UNCHANGED <<proc, mainVars, listeners, evFd, kernelVars, loopVars, delFd,
                 quitVars>>

(* epoll_ctl(DEL); ENOENT is ignored. *)
DelCtl(t) ==
  /\ At(t, "delCtl")
  /\ interest' = [interest EXCEPT ![delFd[t]] = None]
  /\ Goto(t, "erase")
  /\ UNCHANGED <<proc, mainVars, listeners, evFd, input, loopVars, delFd,
                 quitVars>>

(* listeners_.erase(fd), and back to the caller. *)
Erase(t) ==
  /\ At(t, "erase")
  /\ \/ listeners' = [listeners EXCEPT ![delFd[t]] = None]
     \/ WriteRace(t) /\ UNCHANGED listeners
  /\ torn' = (torn \/ WriteRace(t))
  /\ Goto(t, IF t \in quitting THEN "qNext" ELSE "close")
  /\ UNCHANGED <<proc, mainVars, evFd, kernelVars, loopVars, delFd, running,
                 quitting, handling, exits>>

(* The destructor closes the descriptor, which leaves every interest list,
   and the object's memory is gone.  It does not wait for its callback. *)
Close ==
  /\ At("main", "close")
  /\ LET f == fdOf[self] IN
       /\ interest' = [interest EXCEPT ![f] = None]
       /\ input' = [input EXCEPT ![f] = 0]
  /\ st' = [st EXCEPT ![self] = "dead"]
  /\ fdOf' = [fdOf EXCEPT ![self] = None]
  /\ self' = None
  /\ Goto("main", "idle")
  /\ UNCHANGED <<proc, listeners, evFd, loopVars, delFd, quitVars>>

-----------------------------------------------------------------------------
(* loop: EpollLoop. *)

(* while (epoll_loop_) *)
Test ==
  /\ At("loop", "test")
  /\ Goto("loop", IF running THEN "wait" ELSE "done")
  /\ UNCHANGED <<proc, mainVars, listeners, evFd, kernelVars, loopVars, delFd,
                 quitVars>>

Nearer(n, m) == IF n < m THEN n ELSE m

(* epoll_wait returns as many ready descriptors as fit, each with the data
   registered for it; "by" is the object whose device raised the event. *)
WaitEvents ==
  /\ At("loop", "wait")
  /\ \E fs \in SUBSET {f \in Fd : Ready(f)} :
       /\ fs # {}
       /\ Cardinality(fs) =
            Nearer(MaxEvents, Cardinality({f \in Fd : Ready(f)}))
       /\ batch' = {[src |-> f, data |-> interest[f],
                     by |-> CHOOSE o \in Obj : fdOf[o] = f] : f \in fs}
  /\ Goto("loop", "find")
  /\ UNCHANGED <<proc, mainVars, listeners, evFd, kernelVars, it, delFd,
                 quitVars>>

(* Taking a timeout for a failure (a mutant of WaitTimeout). *)
WaitTimeoutEnds ==
  /\ At("loop", "wait") /\ \A f \in Fd : ~Ready(f)
  /\ Goto("loop", "done")
  /\ UNCHANGED <<proc, mainVars, listeners, evFd, kernelVars, loopVars, delFd,
                 quitVars>>

(* One second without an event: nfds = 0. *)
WaitTimeout ==
  /\ At("loop", "wait") /\ \A f \in Fd : ~Ready(f)
  /\ Goto("loop", "test")
  /\ UNCHANGED <<proc, mainVars, listeners, evFd, kernelVars, loopVars, delFd,
                 quitVars>>

(* nfds = -1: the loop itself calls EpoolQuit. *)
WaitFails ==
  /\ At("loop", "wait") /\ Interruptible
  /\ quitting' = quitting \union {"loop"}
  /\ Goto("loop", "qBegin")
  /\ UNCHANGED <<proc, mainVars, listeners, evFd, kernelVars, loopVars, delFd,
                 running, handling, exits, torn>>

(* The for over events_ goes on with what is left of the batch.  (An event
   without EPOLLIN, as of a device that is unplugged, is passed over; no device
   here is, so every event has it.) *)
AfterEvent(e) ==
  /\ batch' = batch \ {e}
  /\ it' = None
  /\ Goto("loop", IF batch = {e} THEN "test" ELSE "find")

(* FindHit without the test against listeners_.end() (a mutant). *)
FindHitUnchecked(e) ==
  /\ At("loop", "find")
  /\ it' = [ev |-> e, obj |-> listeners[e.data]]
  /\ Goto("loop", "call")
  /\ UNCHANGED <<proc, mainVars, listeners, evFd, kernelVars, batch, delFd,
                 quitVars>>

(* listeners_.find(fd) succeeds: handle_it points at that entry. *)
FindHit(e) ==
  /\ At("loop", "find") /\ listeners[e.data] # None
  /\ it' = [ev |-> e, obj |-> listeners[e.data]]
  /\ Goto("loop", "call")
  /\ UNCHANGED <<proc, mainVars, listeners, evFd, kernelVars, batch, delFd,
                 quitVars>>

(* "can not find the fd"; a find that races with a rehash may miss too. *)
FindMiss(e) ==
  /\ At("loop", "find") /\ (listeners[e.data] = None \/ Racing("loop"))
  /\ AfterEvent(e)
  /\ UNCHANGED <<proc, mainVars, listeners, evFd, kernelVars, delFd, quitVars>>

(* handle_it->second() enters the callback of the object that was found,
   erased from listeners_ in the meantime or not. *)
Call ==
  /\ At("loop", "call")
  /\ Goto("loop", "run")
  /\ UNCHANGED <<proc, mainVars, listeners, evFd, kernelVars, loopVars, delFd,
                 quitVars>>

(* The callback reads one input from its object's descriptor and returns. *)
Run ==
  /\ At("loop", "run") /\ it.obj \notin Greedy
  /\ LET f == fdOf[it.obj] IN
       input' = IF f # None /\ it.obj \notin Deaf /\ input[f] > 0
                  THEN [input EXCEPT ![f] = @ - 1] ELSE input
  /\ AfterEvent(it.ev)
  /\ UNCHANGED <<proc, mainVars, listeners, evFd, interest, delFd, quitVars>>

-----------------------------------------------------------------------------
(* EpoolQuit, on the loop thread or in a signal handler. *)

(* for (auto lfd : listeners_) starts: nothing, or some first entry. *)
QuitBegin(t) ==
  /\ At(t, "qBegin")
  /\ \/ /\ \A f \in Fd : listeners[f] = None
        /\ Goto(t, "qFlag") /\ UNCHANGED delFd
     \/ \E f \in Fd : /\ listeners[f] # None
                      /\ delFd' = [delFd EXCEPT ![t] = f]
                      /\ Goto(t, "delFill")
  /\ UNCHANGED <<proc, mainVars, listeners, evFd, kernelVars, loopVars,
                 quitVars>>

(* ++ on the iterator EpollDel has just erased: what the freed node holds
   leads to another entry or ends the loop early (or crashes, see
   UndefinedCrash). *)
QuitNext(t) ==
  /\ At(t, "qNext")
  /\ \/ Goto(t, "qFlag") /\ UNCHANGED delFd
     \/ \E f \in Fd : /\ listeners[f] # None
                      /\ delFd' = [delFd EXCEPT ![t] = f]
                      /\ Goto(t, "delFill")
  /\ UNCHANGED <<proc, mainVars, listeners, evFd, kernelVars, loopVars,
                 quitVars>>

AfterQuit(t) == Goto(t, IF t \in handling THEN "exit" ELSE "test")

(* EpoolQuit without its assignment (a mutant of QuitFlag). *)
QuitFlagForgets(t) ==
  /\ At(t, "qFlag")
  /\ AfterQuit(t)
  /\ UNCHANGED <<proc, mainVars, listeners, evFd, kernelVars, loopVars, delFd,
                 quitVars>>

(* epoll_loop_ = false; then exit(0) in the handler, or the loop again. *)
QuitFlag(t) ==
  /\ At(t, "qFlag")
  /\ running' = FALSE
  /\ AfterQuit(t)
  /\ UNCHANGED <<proc, mainVars, listeners, evFd, kernelVars, loopVars, delFd,
                 quitting, handling, exits, torn>>

-----------------------------------------------------------------------------
(* SIGINT and exit. *)

(* The kernel prefers main.  A main stopped inside listeners_ leaves it
   torn; stopped while it constructs the singleton, or inside the
   allocator, the handler can block on main itself.  (Of main's allocations
   only the insert's is followed: elsewhere main is stopped between two.) *)
SigintMain ==
  /\ proc = "up" /\ "main" \notin handling
  /\ handling' = handling \union {"main"}
  /\ torn' = (torn \/ Writing("main"))
  /\ \/ Goto("main", "instance")
     \/ /\ Writing("main") \/ (pc["main"] = "instance" /\ pc["loop"] = "none")
        /\ Goto("main", "hung")
  /\ UNCHANGED <<proc, mainVars, listeners, evFd, kernelVars, loopVars, delFd,
                 running, quitting, exits>>

(* With SIGINT masked in main's handler, a second one goes to the loop. *)
SigintLoop ==
  /\ proc = "up" /\ "main" \in handling /\ "loop" \notin handling
  /\ pc["loop"] \notin {"none", "done"}
  /\ handling' = handling \union {"loop"}
  /\ quitting' = quitting \union {"loop"}
  /\ torn' = (torn \/ Writing("loop"))
  /\ Goto("loop", "qBegin")
  /\ UNCHANGED <<proc, mainVars, listeners, evFd, kernelVars, loopVars, delFd,
                 running, exits>>

(* exit on main: the first call runs ~Epoll if the singleton exists. *)
ExitMain ==
  /\ At("main", "exit")
  /\ exits' = exits + 1
  /\ IF exits = 0 /\ pc["loop"] # "none"
       THEN Goto("main", "join") /\ UNCHANGED proc
       ELSE proc' = "exited" /\ UNCHANGED pc
  /\ UNCHANGED <<mainVars, listeners, evFd, kernelVars, loopVars, delFd,
                 running, quitting, handling, torn>>

(* exit on the loop thread: ~Epoll would join the thread it runs on, which
   throws out of a destructor; if main is already in ~Epoll, exit ends the
   process under it. *)
ExitLoop ==
  /\ At("loop", "exit")
  /\ exits' = exits + 1
  /\ proc' = IF exits = 0 THEN "aborted" ELSE "exited"
  /\ UNCHANGED <<pc, mainVars, listeners, evFd, kernelVars, loopVars, delFd,
                 running, quitting, handling, torn>>

(* ~Epoll that does not wait for the loop thread (a mutant of Join). *)
JoinDetaches ==
  /\ At("main", "join")
  /\ proc' = "exited"
  /\ UNCHANGED <<pc, mainVars, listeners, evFd, kernelVars, loopVars, delFd,
                 quitVars>>

(* loop_thread_.join() returns; the rest of exit ends the process. *)
Join ==
  /\ At("main", "join") /\ pc["loop"] = "done"
  /\ proc' = "exited"
  /\ UNCHANGED <<pc, mainVars, listeners, evFd, kernelVars, loopVars, delFd,
                 quitVars>>

(* The crash that undefined behaviour can also end in: a race on
   listeners_, the erased iterator of EpoolQuit, or a callback that is
   called after its entry, or runs after its object, is gone. *)
UndefinedCrash(t) ==
  /\ proc = "up"
  /\ \/ Racing(t)
     \/ pc[t] = "qNext"
     \/ pc[t] = "call" /\ listeners[it.ev.data] = None
     \/ pc[t] = "run" /\ st[it.obj] = "dead"
  /\ proc' = "crashed"
  /\ UNCHANGED <<pc, mainVars, listeners, evFd, kernelVars, loopVars, delFd,
                 quitVars>>

(* The device raises an input. *)
Input(f) ==
  /\ proc = "up" /\ IsOpen(f) /\ input[f] < MaxInput
  /\ input' = [input EXCEPT ![f] = @ + 1]
  /\ UNCHANGED <<proc, pc, mainVars, listeners, evFd, interest, loopVars,
                 delFd, quitVars>>

-----------------------------------------------------------------------------
MainStep == Instance \/ AddInsert \/ AddFcntl \/ AddFill \/ AddCtl \/ Close
              \/ ExitMain \/ Join

SharedStep(t) == DelFill(t) \/ DelCtl(t) \/ Erase(t)
                   \/ QuitBegin(t) \/ QuitNext(t) \/ QuitFlag(t)

LoopStep == Test \/ WaitEvents \/ WaitTimeout \/ Call \/ Run \/ ExitLoop
              \/ \E e \in batch : FindHit(e) \/ FindMiss(e)

Environment == SigintMain \/ SigintLoop \/ WaitFails
                 \/ (\E t \in Thread : UndefinedCrash(t))
                 \/ (\E f \in Fd : Input(f))

Next ==
  \/ MainStep \/ LoopStep \/ Environment
  \/ \E t \in Thread : SharedStep(t)
  \/ \E o \in Obj : OpenFails(o) \/ Destroy(o) \/ \E f \in Fd : Open(o, f)

Spec == Init /\ [][Next]_vars

(* A thread that can go on does: the scheduler runs both, fcntl, epoll_ctl
   and close return, epoll_wait returns after a second at most and a
   callback on a non-blocking descriptor returns.  Nothing is assumed of
   main's decisions to build or destroy, of devices or of signals.  The
   kernel hands out ready descriptors in turn, so one that stays ready is
   not left out of epoll_wait for ever. *)
Fairness ==
  /\ WF_vars(MainStep \/ SharedStep("main"))
  /\ WF_vars(LoopStep \/ SharedStep("loop"))
  /\ \A f \in Fd : SF_vars(WaitEvents /\ \E e \in batch' : e.src = f)

FairSpec == Spec /\ Fairness

-----------------------------------------------------------------------------
(* Type correctness of the reactor's and the process's state. *)
TypeOK ==
  /\ proc \in {"up", "exited", "aborted", "crashed"}
  /\ pc \in [Thread -> MainPc \union LoopPc]
  /\ pc["main"] \in MainPc /\ pc["loop"] \in LoopPc
  /\ self \in Obj \union {None}
  /\ st \in [Obj -> {"new", "open", "live", "dead"}]
  /\ fdOf \in [Obj -> Fd \union {None}]
  /\ listeners \in [Fd -> Obj \union {None}]
  /\ evFd \in Fd \union {None}
  /\ interest \in [Fd -> Fd \union {None}]
  /\ input \in [Fd -> 0 .. MaxInput]
  /\ batch \subseteq Event
  /\ it \in [ev : Event, obj : Obj] \union {None}
  /\ delFd \in [Thread -> Fd \union {None}]
  /\ running \in BOOLEAN
  /\ quitting \subseteq Thread /\ handling \subseteq Thread
  /\ exits \in Nat
  /\ torn \in BOOLEAN

(* Until some thread enters EpoolQuit, every descriptor the kernel watches
   has an entry in listeners_: EpollAdd inserts before it registers and
   EpollDel unregisters before it erases, whatever the loop does between. *)
WatchedHasListener ==
  quitting = {} => \A f \in Fd : interest[f] # None => listeners[f] # None

(* Until some thread enters EpoolQuit, no entry of listeners_ outlives its
   object, failed EpollAdds included: what a find reaches is an object that
   is not destroyed and still owns the descriptor. *)
ListenerAlive ==
  quitting = {} =>
    \A f \in Fd : listeners[f] # None =>
      /\ st[listeners[f]] \in {"open", "live"}
      /\ fdOf[listeners[f]] = f

(* An event that epoll_wait delivers names the descriptor that raised it,
   although both threads fill the one ev_: a loop that shares ev_ with main
   (EpoolQuit after EINTR) never waits again. *)
EventNamesSource == \A e \in batch : e.data = e.src

(* If exit was called once, the process ends normally only after the loop
   thread has left EpollLoop: no callback runs during the teardown. *)
ExitAfterLoop == proc = "exited" /\ exits = 1 => pc["loop"] \in {"none", "done"}

(* The callback run for an event is the one "corresponding" to it (the
   comment at xepoll.cc:125): that of the object whose device raised it. *)
DispatchesOwner == it # None => it.obj = it.ev.by

(* Input on a watched descriptor gets a callback for that descriptor, or the
   watch ends, some thread quits the loop, listeners_ is corrupt, or the
   process ends: no descriptor is starved by the others, by a find that
   misses because main inserts, or by callbacks that consume nothing. *)
InputServed ==
  \A f \in Fd :
    Ready(f) /\ quitting = {} ~>
      \/ pc["loop"] = "run" /\ it.ev.src = f
      \/ interest[f] = None \/ quitting # {} \/ torn \/ proc # "up"

(* A SIGINT ends the process, whatever both threads were doing, when
   callbacks return: unless it stops main inside listeners_ or in the
   singleton's constructor, or both threads change listeners_ at once. *)
SigintEnds ==
  "main" \in handling /\ pc["main"] # "hung" ~> proc # "up" \/ torn
=============================================================================
