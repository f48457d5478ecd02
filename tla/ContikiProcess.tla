--------------------------- MODULE ContikiProcess ---------------------------
(***************************************************************************)
(* The Contiki process kernel under the iduinos core                        *)
(* (src/iduinos/sys/process.c, run by src/iduinos/main.cpp): the list of    *)
(* processes, the event queue, and poll requests.                           *)
(*                                                                          *)
(* Everything but process_poll runs in the main loop, as calls inside       *)
(* calls: the kernel calls a thread, which may start or exit a process,     *)
(* which makes the kernel call other threads.  stack holds these calls,     *)
(* innermost first; when it is empty the sketch's loop() is running, which  *)
(* may use the kernel as a thread does.  Walks along the list keep their    *)
(* place in it (at) while the threads they call change the list.            *)
(*                                                                          *)
(* process_poll may be called at any moment: the clock's interrupt handler  *)
(* does (src/iduinos/mcu_avr/clock.c:368).                                  *)
(***************************************************************************)
EXTENDS Integers, Sequences, FiniteSets

CONSTANTS
  Process,
  NULL,            \* the end of the list; also PROCESS_BROADCAST
  HEAD,            \* the variable process_list, seen as the first link
  Started,         \* processes that are started before the loop, last first
  NUMEVENTS,       \* PROCESS_CONF_NUMEVENTS (32)
  Posted,          \* the events that are posted, and to whom
  Polled,          \* the processes that are polled
  MaxCalls         \* bound: starts, exits and synchronous posts

ASSUME ProcessAssumption ==
  /\ IsFiniteSet(Process)
  /\ NULL \notin Process /\ HEAD \notin Process /\ NULL # HEAD
  /\ Started \in Seq(Process)
  /\ \A i, j \in DOMAIN Started : Started[i] = Started[j] => i = j
  /\ NUMEVENTS \in 1..128 /\ Polled \subseteq Process
  /\ Posted \subseteq [ev : {"MSG", "EXIT"}, p : Process \cup {NULL}]
  /\ MaxCalls \in Nat

NoEvent == [ev |-> "NONE", p |-> NULL]
State == {"NONE", "RUNNING", "CALLED"}   \* PROCESS_STATE_*

VARIABLES
  next,             \* p->next; next[HEAD] is process_list
  state,            \* p->state
  needspoll,        \* p->needspoll
  process_current,
  poll_requested,
  events, fevent, nevents, \* the event queue, a slot that is free holds NoEvent
  stack,            \* the calls under way, innermost first
  calls,            \* MaxCalls counts
  owed,             \* history: processes whose poll has not been answered
  undone            \* history: processes that process_exit was asked to exit
                    \* in the middle of a call of theirs, or that do_poll set
                    \* running after their exit

listvars == <<next, state>>
pollvars == <<needspoll, poll_requested, owed>>
queuevars == <<events, fevent, nevents>>
callvars == <<calls, undone>>
vars == <<listvars, pollvars, queuevars, process_current, stack, callvars>>

\* The kinds of calls.  called tells call_process from exit_process as the
\* caller of a thread.  at is where a walk has got to; due, that a broadcast has
\* yet to call the process there.  missed is history: the processes a walk has
\* yet to visit, less those that have exited.
Thread(p, ev, called) ==
  [fn |-> "thread", p |-> p, ev |-> ev, called |-> called]
Walk(fn, p, arg, old, missed) ==
  [fn |-> fn, p |-> p, arg |-> arg, old |-> old, missed |-> missed,
   at |-> HEAD, due |-> FALSE]
Walks == {"do_poll", "do_event", "exit_process"}
Top == Head(stack)
Running(fn) == stack # << >> /\ Top.fn = fn
With(frame) == <<frame>> \o Tail(stack)

\* Whoever can call the kernel: a thread, or loop().
UserCode == stack # << >> => Top.fn = "thread"

\* The processes on the list.
Listed ==
  LET Nth[n \in 0..Cardinality(Process)] ==
        IF n = 0 THEN next[HEAD]
        ELSE LET p == Nth[n - 1] IN IF p = NULL THEN NULL ELSE next[p]
  IN  {Nth[n] : n \in DOMAIN Nth} \ {NULL}

\* After initialize() (main.cpp:12-26): process_init, and the processes started
\* there wait for their first event.
Init ==
  /\ next = [p \in Process \cup {HEAD} |->
               IF p = HEAD THEN IF Started = << >> THEN NULL ELSE Started[1]
               ELSE IF \E i \in 2..Len(Started) : Started[i - 1] = p
               THEN Started[CHOOSE i \in 2..Len(Started) : Started[i - 1] = p]
               ELSE NULL]
  /\ state = [p \in Process |-> IF \E i \in DOMAIN Started : Started[i] = p
                                THEN "RUNNING" ELSE "NONE"]
  /\ needspoll = [p \in Process |-> FALSE]
  /\ process_current = NULL /\ poll_requested = FALSE
  /\ events = [i \in 0..(NUMEVENTS - 1) |-> NoEvent]
  /\ fevent = 0 /\ nevents = 0
  /\ stack = << >> /\ calls = 0 /\ owed = {} /\ undone = {}
-----------------------------------------------------------------------------
(* Calling a thread, and its exit.                                          *)

\* call_process calls nothing but a running process that is not being called:
\* the states are bits and only RUNNING has the low one.
Callable(p) == state[p] = "RUNNING"

\* call_process(p, ev) with the calls in base under way.
call_process(p, ev, base) ==
  IF Callable(p)
  THEN /\ process_current' = p
       /\ state' = [state EXCEPT ![p] = "CALLED"]
       /\ stack' = <<Thread(p, ev, TRUE)>> \o base
  ELSE /\ stack' = base
       /\ UNCHANGED <<process_current, state>>

\* An exiting process is nobody's to visit any more.
Strike(p, base) ==
  [i \in DOMAIN base |->
     IF base[i].fn \in Walks THEN [base[i] EXCEPT !.missed = @ \ {p}]
     ELSE base[i]]

\* exit_process(p, from): nothing if p is not listed; a process that is no
\* longer running is unlinked at once.
exit_process(p, from, base) ==
  IF p \notin Listed THEN stack' = base /\ UNCHANGED <<state, owed>>
  ELSE IF state[p] = "NONE"
  THEN /\ stack' = <<[Walk("exit_process", p, from, process_current, {})
                        EXCEPT !.at = NULL]>> \o base
       /\ UNCHANGED <<state, owed>>
  ELSE /\ state' = [state EXCEPT ![p] = "NONE"]
       /\ owed' = owed \ {p}
       /\ stack' = <<Walk("exit_process", p, from, process_current,
                          {q \in Listed \ {p} : state[q] = "RUNNING"})>>
                     \o Strike(p, base)

\* A thread returns: waiting for more events, or exited or ended.
ThreadReturns(exited) ==
  /\ Running("thread")
  /\ IF ~Top.called
     THEN stack' = Tail(stack) /\ UNCHANGED <<state, owed>>
     ELSE IF exited \/ Top.ev = "EXIT"
     THEN exit_process(Top.p, Top.p, Tail(stack))
     ELSE /\ state' = [state EXCEPT ![Top.p] = "RUNNING"]
          /\ stack' = Tail(stack) /\ UNCHANGED owed
  /\ UNCHANGED <<next, needspoll, poll_requested, queuevars, process_current,
                 callvars>>

\* exit_process tells each process on the list, the exiting one excepted ...
TellNext ==
  /\ Running("exit_process") /\ Top.at # NULL /\ next[Top.at] # NULL
  /\ LET q == next[Top.at]
         base == With([Top EXCEPT !.at = q, !.missed = @ \ {q}])
     IN  IF q = Top.p THEN stack' = base /\ UNCHANGED <<process_current, state>>
         ELSE call_process(q, "EXITED", base)
  /\ UNCHANGED <<next, pollvars, queuevars, callvars>>

\* ... then calls the exiting process, unless it is the one that asked ...
CallExiting ==
  /\ Running("exit_process") /\ Top.at # NULL /\ next[Top.at] = NULL
  /\ LET base == With([Top EXCEPT !.at = NULL])
     IN  IF Top.p = Top.arg THEN stack' = base /\ UNCHANGED process_current
         ELSE /\ process_current' = Top.p
              /\ stack' = <<Thread(Top.p, "EXIT", FALSE)>> \o base
  /\ UNCHANGED <<listvars, pollvars, queuevars, callvars>>

UnlinkedHeadOnly(p) ==              \* mutant: only the head is unlinked
  IF next[HEAD] = p THEN [next EXCEPT ![HEAD] = next[p]] ELSE next
UnlinkedAndCleared(p) ==            \* mutant: p->next = NULL
  [q \in DOMAIN next |-> IF q = p THEN NULL
                         ELSE IF next[q] = p THEN next[p] ELSE next[q]]
\* The list without p, whose own link is left as it is.  The predecessor is
\* looked for on the list: stale links of processes that left it are not.
Unlinked(p) ==
  [q \in DOMAIN next |-> IF q \in Listed \cup {HEAD} /\ next[q] = p
                         THEN next[p] ELSE next[q]]

\* ... and takes it off the list.
Unlink ==
  /\ Running("exit_process") /\ Top.at = NULL
  /\ next' = Unlinked(Top.p)
  /\ process_current' = Top.old
  /\ stack' = Tail(stack)
  /\ UNCHANGED <<state, pollvars, queuevars, callvars>>
-----------------------------------------------------------------------------
(* What threads and loop() ask of the kernel.                               *)

RoomOneMore == nevents <= NUMEVENTS        \* mutant: one event too many
Room == nevents < NUMEVENTS

\* process_post; a full queue refuses.  The sum is cut to a byte before the
\* remainder is taken (process_num_events_t), so that NUMEVENTS is assumed to be
\* at most 128; the cut then changes nothing.
process_post(e) ==
  /\ UserCode /\ Room
  /\ events' = [events EXCEPT ![((fevent + nevents) % 256) % NUMEVENTS] = e]
  /\ nevents' = nevents + 1
  /\ UNCHANGED <<listvars, pollvars, fevent, process_current, stack, callvars>>

SynchForgets(base) ==                      \* mutant: the caller is not kept
  <<[fn |-> "synch", old |-> NULL]>> \o base
\* A synchronous call keeps its caller.
Synch(base) == <<[fn |-> "synch", old |-> process_current]>> \o base

\* process_post_synch calls the process at once; the caller goes on after it.
process_post_synch(p) ==
  /\ UserCode /\ calls < MaxCalls /\ calls' = calls + 1
  /\ call_process(p, "MSG", Synch(stack))
  /\ UNCHANGED <<next, pollvars, queuevars, undone>>

StartableAlways(p) == TRUE                 \* mutant: the list is not searched
Startable(p) == p \notin Listed

\* process_start puts a process that is not listed first and calls it.
process_start(p) ==
  /\ UserCode /\ calls < MaxCalls /\ calls' = calls + 1
  /\ Startable(p)
  /\ next' = [next EXCEPT ![p] = next[HEAD], ![HEAD] = p]
  /\ state' = [state EXCEPT ![p] = "CALLED"]
  /\ process_current' = p
  /\ stack' = <<Thread(p, "INIT", TRUE)>> \o Synch(stack)
  /\ UNCHANGED <<pollvars, queuevars, undone>>

\* process_post_synch returns: its caller is the current process again.
Resume ==
  /\ Running("synch")
  /\ process_current' = Top.old
  /\ stack' = Tail(stack)
  /\ UNCHANGED <<listvars, pollvars, queuevars, callvars>>

\* process_exit, of a process that runs or is in the middle of a call, the
\* caller itself among them.
process_exit(p) ==
  /\ UserCode /\ calls < MaxCalls /\ calls' = calls + 1
  /\ state[p] # "NONE"
  /\ undone' = IF state[p] = "CALLED" THEN undone \cup {p} ELSE undone
  /\ exit_process(p, process_current, stack)
  /\ UNCHANGED <<next, needspoll, poll_requested, queuevars, process_current>>

process_poll_quiet(p) ==                   \* mutant: poll_requested is not set
  /\ state[p] # "NONE"
  /\ needspoll' = [needspoll EXCEPT ![p] = TRUE] /\ owed' = owed \cup {p}
  /\ UNCHANGED <<listvars, poll_requested, queuevars, process_current, stack,
                 callvars>>

\* process_poll, at any moment.
process_poll(p) ==
  /\ state[p] # "NONE"
  /\ needspoll' = [needspoll EXCEPT ![p] = TRUE]
  /\ poll_requested' = TRUE
  /\ owed' = owed \cup {p}
  /\ UNCHANGED <<listvars, queuevars, process_current, stack, callvars>>
-----------------------------------------------------------------------------
(* process_run: do_poll if a poll was requested, then do_event.             *)

\* do_poll starts, if a poll was requested, before what is left in base.
PollFirst(base) ==
  IF poll_requested
  THEN /\ poll_requested' = FALSE
       /\ stack' = <<Walk("do_poll", NULL, "POLL", NULL, owed)>> \o base
  ELSE stack' = base /\ UNCHANGED poll_requested

process_run ==
  /\ stack = << >> /\ (poll_requested \/ nevents > 0)
  /\ PollFirst(<<[fn |-> "process_run"]>>)
  /\ UNCHANGED <<listvars, needspoll, owed, queuevars, process_current, callvars>>

\* do_poll calls each process that needs it, and sets it running first: one
\* that has exited too, which a walk can reach over a process it is at that
\* has left the list.
PollNext ==
  /\ Running("do_poll") /\ next[Top.at] # NULL
  /\ LET q == next[Top.at]
     IN  IF needspoll[q]
         THEN /\ state' = [state EXCEPT ![q] = "CALLED"]
              /\ needspoll' = [needspoll EXCEPT ![q] = FALSE]
              /\ owed' = owed \ {q}
              /\ undone' = IF state[q] = "NONE" THEN undone \cup {q} ELSE undone
              /\ process_current' = q
              /\ stack' = <<Thread(q, "POLL", TRUE)>> \o
                          With([Top EXCEPT !.at = q, !.missed = @ \ {q}])
         ELSE /\ stack' = With([Top EXCEPT !.at = q])
              /\ UNCHANGED <<state, needspoll, owed, undone, process_current>>
  /\ UNCHANGED <<next, poll_requested, queuevars, calls>>

\* do_event takes the oldest event, if there is one.  events[fevent].p = NULL
\* is a broadcast.
do_event ==
  /\ Running("process_run") /\ nevents > 0
  /\ LET e == events[fevent]
     IN  stack' = With(Walk("do_event", e.p, e.ev, NULL,
                            IF e.p = NULL THEN Listed ELSE {}))
  /\ events' = [events EXCEPT ![fevent] = NoEvent]
  /\ fevent' = (fevent + 1) % NUMEVENTS
  /\ nevents' = nevents - 1
  /\ UNCHANGED <<listvars, pollvars, process_current, callvars>>

\* An event for one process.
CallReceiver ==
  /\ Running("do_event") /\ Top.p # NULL /\ Top.at = HEAD
  /\ call_process(Top.p, Top.arg, With([Top EXCEPT !.at = NULL]))
  /\ UNCHANGED <<next, pollvars, queuevars, callvars>>

\* A broadcast goes on to the next process, whose call polls may precede ...
BroadcastNext ==
  /\ Running("do_event") /\ Top.p = NULL /\ ~Top.due /\ next[Top.at] # NULL
  /\ PollFirst(With([Top EXCEPT !.at = next[Top.at], !.due = TRUE]))
  /\ UNCHANGED <<listvars, needspoll, owed, queuevars, process_current, callvars>>

\* ... and calls it.
CallListed ==
  /\ Running("do_event") /\ Top.due
  /\ call_process(Top.at, Top.arg,
                  With([Top EXCEPT !.due = FALSE, !.missed = @ \ {Top.at}]))
  /\ UNCHANGED <<next, pollvars, queuevars, callvars>>

\* do_poll or do_event is at its end, or process_run has no event.
Finished ==
  \/ Running("process_run") /\ nevents = 0
  \/ Running("do_poll") /\ next[Top.at] = NULL
  \/ Running("do_event") /\ IF Top.p # NULL THEN Top.at = NULL
                            ELSE ~Top.due /\ next[Top.at] = NULL

Return ==
  /\ Finished
  /\ stack' = Tail(stack)
  /\ UNCHANGED <<listvars, pollvars, queuevars, process_current, callvars>>
-----------------------------------------------------------------------------
Kernel ==
  \/ process_run \/ PollNext \/ do_event \/ CallReceiver
  \/ BroadcastNext \/ CallListed \/ Return
  \/ TellNext \/ CallExiting \/ Unlink \/ Resume

Threads == \E exited \in BOOLEAN : ThreadReturns(exited)

Calls ==
  \/ \E e \in Posted : process_post(e)
  \/ \E p \in Process : process_post_synch(p) \/ process_start(p)
                          \/ process_exit(p)

Next == Kernel \/ Threads \/ Calls \/ \E p \in Polled : process_poll(p)

Spec == Init /\ [][Next]_vars

(* loop() and threads return (they are cooperative: nothing else would run    *)
(* again if they did not), and the main loop calls process_run for ever.      *)
FairSpec == Spec /\ WF_vars(Kernel \/ Threads)
-----------------------------------------------------------------------------
(* Properties.                                                              *)

Frames == {stack[i] : i \in DOMAIN stack}
Exiting(p) == \E f \in Frames : f.fn = "exit_process" /\ f.p = p

TypeOK ==
  /\ next \in [Process \cup {HEAD} -> Process \cup {NULL}]
  /\ state \in [Process -> State]
  /\ needspoll \in [Process -> BOOLEAN] /\ poll_requested \in BOOLEAN
  /\ owed \subseteq Polled
  /\ process_current \in Process \cup {NULL}
  /\ events \in [0..(NUMEVENTS - 1) -> Posted \cup {NoEvent}]
  /\ fevent \in 0..(NUMEVENTS - 1) /\ nevents \in 0..NUMEVENTS
  /\ calls \in 0..MaxCalls /\ undone \subseteq Process
  /\ \A f \in Frames : f.fn \in Walks \cup {"thread", "synch", "process_run"}

(* Threads start and exit each other from inside calls from inside walks;     *)
(* yet a process that runs can be found on the list, and one on the list is   *)
(* running or in the middle of its exit.  One that is lost from the list gets *)
(* no broadcast and no poll and cannot be seen to run by process_start.  Those *)
(* that process_exit took off the list in the middle of a call of theirs are   *)
(* excused: call_process sets them running again when the call returns         *)
(* (process.c:198), though process.h:384-386 says of process_exit, for the     *)
(* process that calls it too, that it makes the process exit.  So are those    *)
(* that do_poll sets running after their exit (process.c:235).                 *)
ListedAreRunning ==
  \A p \in Process \ undone :
    IF state[p] # "NONE" THEN p \in Listed ELSE p \in Listed => Exiting(p)

(* A thread is not called again while it is being called, where it would go   *)
(* on from its last continuation: its next one is stored when it returns.     *)
(* One that was exited in a call and started again before it returned is.     *)
ThreadsNotReentered ==
  \A i, j \in DOMAIN stack :
    stack[i].fn = "thread" /\ stack[j].fn = "thread" /\ stack[i].p = stack[j].p
      => i = j \/ stack[i].p \in undone

(* PROCESS_CURRENT() is the thread that asks for it, after everything that    *)
(* its calls made the kernel call: timers belong to the process that sets     *)
(* them (etimer.c:169).                                                       *)
CurrentIsCalled == Running("thread") => process_current = Top.p

(* What a thread may rely on while it runs, whatever its calls start, exit and *)
(* post: it is the current process, and nobody runs it a second time.          *)
ThreadRunsAlone == ThreadsNotReentered /\ CurrentIsCalled

(* A walk along the list ends having visited every process it had to: the     *)
(* polled ones, the listeners of a broadcast, the running processes that are  *)
(* to be told of an exit.  Only those that exited meanwhile and, again, the   *)
(* undone are excused, though others left and entered the list under the walk. *)
AtTheEnd ==
  IF Top.at = NULL THEN TRUE ELSE next[Top.at] = NULL /\ ~Top.due
WalksMissNobody ==
  \A fn \in Walks : Running(fn) /\ AtTheEnd => Top.missed \subseteq undone

\* The event do_event is delivering.
Delivered ==
  IF \E f \in Frames : f.fn = "do_event"
  THEN LET f == CHOOSE f \in Frames : f.fn = "do_event"
       IN  [ev |-> f.arg, p |-> f.p]
  ELSE NoEvent

EventFifo == INSTANCE BoundedFifo WITH
  Item <- Posted, Capacity <- NUMEVENTS, Nothing <- NoEvent,
  buffer <- [k \in 1..nevents |-> events[(fevent + k - 1) % NUMEVENTS]],
  hand <- Delivered,
  reset <- FALSE

(* Events posted by threads, by the threads these call, and in the middle of  *)
(* a delivery, are delivered one at a time in the order they were posted; one *)
(* that did not fit leaves no trace.                                          *)
EventsTakenInOrder == EventFifo!ServedSpec

(* A process that was polled, in an interrupt between any two steps of a walk, *)
(* is called, or exits (the undone excused): no poll is owed for ever.         *)
PolledIsCalled == \A p \in Polled : []<>(p \notin owed \/ p \in undone)

(* process_run always gets back to main, which feeds the watchdog only then   *)
(* (main.cpp:37-38), whatever is polled and posted meanwhile.                 *)
LoopRunsAgain == []<>(stack = << >>)
=============================================================================
