------------------------------ MODULE Dispatch ------------------------------
(***************************************************************************)
(* The scheduler (sched.c): the loop over select(), the table of input     *)
(* handlers, and the timer signal that runs Main_loop between them, or in  *)
(* the middle of them; with the sockets of the connections, which Main_loop *)
(* and the handlers open and close (netserver.c, socklib.c).               *)
(*                                                                         *)
(* Main_loop is one step: the connections it ends, then the one it sets up. *)
(* The kernel gives out the lowest descriptor that is free.                *)
(***************************************************************************)
EXTENDS Integers, FiniteSetsExt

CONSTANTS
  Contact,         \* contactSocket
  MaxConnections,  \* max_connections
  NumSelectFd      \* NUM_SELECT_FD

\* max_connections is at most 26, of the 32 descriptors in the table, of which
\* the contact port has the first (netserver.c:422, sched.c:144).
ASSUME DispatchAssumption ==
  /\ Contact \in Nat /\ MaxConnections \in Nat /\ NumSelectFd \in Nat
  /\ MaxConnections < NumSelectFd

NoSocket == -1
Conns    == 0..MaxConnections - 1      \* indices of Conn[]
Fds      == Contact..Contact + MaxConnections + 1

VARIABLES
  sock,        \* by slot: the socket of the connection, if there is one
  handlers,    \* input_handlers[]: by descriptor, the slot, the contact port or nothing
  inputMask, maxFd,
  openFds,     \* descriptors that are open
  exited,      \* ServerExit has been called
  pc,          \* where sched is
  readmask,    \* its copy of input_mask, and then what is ready
  at,          \* its index
  blocked,     \* SIGALRM is blocked
  retimed,     \* setup_timer has been called by a handler of this round
  gone         \* Main_loop ended the connection whose handler runs

schedTable == <<sock, handlers, inputMask, maxFd, openFds, exited>>
schedVars  == <<schedTable, pc, readmask, at, blocked, retimed, gone>>

ContactHandler == -2
Dummy          == -1

SchedInit ==
  /\ sock = [s \in Conns |-> NoSocket]
  /\ handlers = [fd \in Fds |-> IF fd = Contact THEN ContactHandler ELSE Dummy]
  /\ inputMask = {Contact} /\ maxFd = Contact
  /\ openFds = {Contact} /\ exited = FALSE
  /\ pc = "copy" /\ readmask = {} /\ at = -1
  /\ blocked = FALSE /\ retimed = FALSE /\ gone = FALSE
-----------------------------------------------------------------------------
(* The table of handlers, as a record that is passed from call to call. *)

Scheduled == [sock |-> sock, handlers |-> handlers, inputMask |-> inputMask,
              maxFd |-> maxFd, open |-> openFds, exited |-> exited]

Schedules(t) ==
  /\ sock' = t.sock /\ handlers' = t.handlers /\ inputMask' = t.inputMask
  /\ maxFd' = t.maxFd /\ openFds' = t.open /\ exited' = t.exited

InRange(fd) == Contact <= fd /\ fd < Contact + NumSelectFd

InstallInput(t, handler, fd) ==
  IF ~InRange(fd) \/ fd \in t.inputMask THEN [t EXCEPT !.exited = TRUE]
  ELSE [t EXCEPT !.handlers[fd] = handler, !.inputMask = @ \cup {fd},
                 !.maxFd = IF fd > @ THEN fd ELSE @]

LowestOf(fds, fd) == IF fds = {} THEN NoSocket ELSE Min(fds)

\* The highest descriptor that remains.
HighestOf(fds, fd) == IF fds = {} THEN NoSocket ELSE Max(fds)

RemoveInput(t, fd) ==
  IF ~InRange(fd) THEN [t EXCEPT !.exited = TRUE]
  ELSE IF fd \notin t.inputMask THEN t
  ELSE [t EXCEPT !.handlers[fd] = Dummy, !.inputMask = @ \ {fd},
                 !.maxFd = IF fd = @ THEN HighestOf(t.inputMask \ {fd}, fd) ELSE @]

\* Destroy_connection: nothing happens for one that is free.
DestroyConnection(t, s) ==
  IF t.sock[s] = NoSocket THEN t
  ELSE [RemoveInput(t, t.sock[s]) EXCEPT !.open = @ \ {t.sock[s]}, !.sock[s] = NoSocket]

\* CreateDgramSocket.
FreeFd(t) == Min(Fds \ t.open)

DgramClose(t, fd) == [t EXCEPT !.open = @ \ {fd}]

\* Setup_connection: without a socket, without its port or a mode that does not
\* block, without memory, and at last the connection that listens.
SetupOutcomes(t) ==
  LET free   == {s \in Conns : t.sock[s] = NoSocket}
      fd     == FreeFd(t)
      opened == [t EXCEPT !.open = @ \cup {fd}]
      s      == Min(free)
      mine   == [opened EXCEPT !.sock[s] = fd]
  IN IF free = {} THEN {t}
     ELSE {t, DgramClose(opened, fd), DestroyConnection(mine, s), InstallInput(mine, s, fd)}
-----------------------------------------------------------------------------
(* Main_loop, by the signal: Input ends connections, Queue_loop starts one. *)

EndAll(t, ended) ==
  LET upTo[n \in 0..MaxConnections] ==
        IF n = 0 THEN t
        ELSE IF n - 1 \in ended THEN DestroyConnection(upTo[n - 1], n - 1) ELSE upTo[n - 1]
  IN upTo[MaxConnections]

InHand == IF pc = "handling" THEN handlers[at] ELSE Dummy

OnTimer ==
  /\ ~blocked /\ ~exited
  /\ \E ended \in SUBSET {s \in Conns : sock[s] # NoSocket} :
       /\ \E t \in SetupOutcomes(EndAll(Scheduled, ended)) : Schedules(t)
       /\ gone' = (gone \/ InHand \in ended)
  \* select is interrupted
  /\ pc' = IF pc = "select" THEN "copy" ELSE pc
  /\ UNCHANGED <<readmask, at, blocked, retimed>>
-----------------------------------------------------------------------------
(* sched. *)

Copy ==
  /\ pc = "copy" /\ ~exited
  /\ pc' = "select" /\ readmask' = inputMask
  /\ UNCHANGED <<schedTable, at, blocked, retimed, gone>>

\* select looks at the descriptors up to max_fd, and fails if one is closed.
Select ==
  /\ pc = "select" /\ ~exited
  /\ LET watched == {fd \in readmask : fd <= maxFd}
     IN IF watched \subseteq openFds
        THEN /\ \E ready \in SUBSET watched \ {{}} : readmask' = ready
             /\ pc' = "block"
        ELSE pc' = "copy" /\ UNCHANGED readmask
  /\ UNCHANGED <<schedTable, at, blocked, retimed, gone>>

NotBlocked == FALSE

\* sigprocmask(SIG_BLOCK): SIGALRM has to wait for the handlers.
Blocking == TRUE

Block ==
  /\ pc = "block" /\ ~exited
  /\ pc' = "dispatch" /\ blocked' = Blocking /\ at' = maxFd
  /\ UNCHANGED <<schedTable, readmask, retimed, gone>>

Call ==
  /\ pc = "dispatch" /\ ~exited /\ at >= Contact
  /\ IF at \in readmask THEN pc' = "handling" /\ UNCHANGED at
                        ELSE at' = at - 1 /\ UNCHANGED pc
  /\ gone' = FALSE
  /\ UNCHANGED <<schedTable, readmask, blocked, retimed>>

\* Handle_input and Contact: a client may leave or be kicked, also by another
\* one or from outside, and somebody may tune the frame rate: setup_timer
\* ends with allow_timer.
Handle ==
  /\ pc = "handling" /\ ~exited
  /\ \/ pc' = "handled" /\ UNCHANGED <<schedTable, blocked, retimed>>
     \/ /\ handlers[at] # Dummy
        /\ \E s \in Conns : sock[s] # NoSocket /\ Schedules(DestroyConnection(Scheduled, s))
        /\ pc' = "handled"
        /\ UNCHANGED <<blocked, retimed>>
     \/ /\ handlers[at] # Dummy
        /\ blocked' = FALSE /\ retimed' = TRUE
        /\ pc' = "handling"
        /\ UNCHANGED schedTable
  /\ UNCHANGED <<readmask, at, gone>>

Return ==
  /\ pc = "handled" /\ ~exited
  /\ pc' = "dispatch" /\ at' = at - 1
  /\ UNCHANGED <<schedTable, readmask, blocked, retimed, gone>>

Round ==
  /\ pc = "dispatch" /\ ~exited /\ at < Contact
  /\ pc' = "copy" /\ blocked' = FALSE /\ retimed' = FALSE
  /\ at' = -1
  /\ UNCHANGED <<schedTable, readmask, gone>>

SchedNext == OnTimer \/ Copy \/ Select \/ Block \/ Call \/ Handle \/ Return \/ Round

SchedSpec == SchedInit /\ [][SchedNext]_schedVars
-----------------------------------------------------------------------------
(* Properties. *)

\* Every connection is heard, and nothing is open that nobody owns, whatever
\* way a connection is set up, fails half-way or ends, in a handler or by the
\* timer: its socket is its own and open, has its handler and is among those
\* that select looks at; and the table never overflows (sched.c:162, 194).
\* While a handler runs, Main_loop does not end the connection in its hands,
\* unless a handler has set the timer anew, which lets the signal through
\* (sched.c:91, 141, 256).
EveryoneIsHeard ==
  /\ ~exited
  /\ openFds = {Contact} \cup ({sock[s] : s \in Conns} \ {NoSocket})
  /\ \A s, t \in Conns : s # t /\ sock[s] # NoSocket => sock[s] # sock[t]
  /\ \A s \in Conns : sock[s] # NoSocket => handlers[sock[s]] = s
  /\ openFds = inputMask
  /\ \A fd \in openFds : fd <= maxFd
  /\ gone => retimed
=============================================================================
