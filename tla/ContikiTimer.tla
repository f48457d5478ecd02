---------------------------- MODULE ContikiTimer ----------------------------
(***************************************************************************)
(* The timers of the iduinos core: event timers (src/iduinos/sys/etimer.c,  *)
(* timer.c), callback timers on top of them (ctimer.c), the Timer objects   *)
(* that sketches use (src/Contiki/Timer.cpp), and the clock's interrupt     *)
(* (src/iduinos/mcu_avr/clock.c).                                           *)
(*                                                                          *)
(* An event timer that expires is not called: its event waits in the queue  *)
(* of the kernel, behind others, while the sketch and other callbacks start *)
(* and stop timers, that one among them.  The kernel is reduced to what     *)
(* ContikiProcess shows of it: process_run answers a poll, then delivers    *)
(* the oldest event; a poll asked for in an interrupt is kept.              *)
(*                                                                          *)
(* Times are kept as differences: since[t] is clock_time() - t->start.      *)
(* next_expiration is left out: nothing reads it.                           *)
(***************************************************************************)
EXTENDS Integers, Sequences, FiniteSets, SequencesExt

CONSTANTS
  Ctimer,          \* callback timers
  AutoReset,       \* those of them that are Timer objects which repeat
  Etimer,          \* event timers that threads wait for
  Owner,           \* and the process of each
  Intervals,       \* what timers are set to
  CLOCK,           \* the clock counts modulo CLOCK (2^32)
  NUMEVENTS,       \* length of the event queue (32)
  MaxLag,          \* bound: ticks between two calls of process_run
  MaxCalls         \* bound: what sketch and threads do

None == "none"             \* PROCESS_NONE; no timer's callback is running
CtimerProcess == "ctimer_process"
Process == {Owner[e] : e \in Etimer}
Timer == Ctimer \cup Etimer

ASSUME TimerAssumption ==
  /\ IsFiniteSet(Ctimer) /\ IsFiniteSet(Etimer) /\ Ctimer \cap Etimer = {}
  /\ AutoReset \subseteq Ctimer /\ DOMAIN Owner = Etimer
  /\ {None, CtimerProcess} \cap (Process \cup Timer) = {}
  /\ CLOCK \in Nat \ {0, 1}
  /\ Intervals \subseteq 1..(CLOCK \div 2 - 1)
  /\ NUMEVENTS \in 1..128 /\ MaxLag \in Nat /\ MaxCalls \in Nat

\* An event: the timer that expired, or None for one of another kind; and the
\* process it is for.
Event == [timer : Timer \cup {None}, p : Process \cup {CtimerProcess}]

VARIABLES
  since, interval,   \* t->timer
  owner,             \* t->p
  timerlist,
  ctimer_list,
  events,
  polled,            \* etimer_process needs a poll
  pc,                \* "loop", the sketch or a thread; "walk", etimer_process;
                     \* "event", do_event; "callback", a ctimer's function
  at,                \* where the walk is
  running,           \* the ctimer whose function is called
  alive,             \* processes that run
  lag, calls,        \* what MaxLag and MaxCalls count
  hasty,             \* history: see NotEarly
  stopped            \* history: "no", "yes" and, in its own tick, "inTick"

timervars == <<since, interval, owner, timerlist, ctimer_list, polled>>
kernelvars == <<events, pc, at, running>>
history == <<hasty, stopped>>
vars == <<timervars, kernelvars, alive, lag, calls, history>>

Listed(t) == t \in ToSet(timerlist)
Queued(t) == \E i \in DOMAIN events : events[i].timer = t
Room == Len(events) < NUMEVENTS

timer_expired_sooner(t) ==                  \* mutant
  interval[t] <= (since[t] + 1) % CLOCK
\* timer_expired: the difference plus one, in the clock's width.
timer_expired(t) == interval[t] < (since[t] + 1) % CLOCK

\* After initialize() (src/iduinos/main.cpp): both processes run, no timer is set.
Init ==
  /\ since = [t \in Timer |-> 0] /\ interval = [t \in Timer |-> 0]
  /\ owner = [t \in Timer |-> None]
  /\ timerlist = << >> /\ ctimer_list = << >> /\ events = << >>
  /\ polled = FALSE
  /\ pc = "loop" /\ at = 1 /\ running = None
  /\ alive = Process
  /\ lag = 0 /\ calls = 0
  /\ hasty = [c \in Ctimer |-> FALSE] /\ stopped = [c \in Ctimer |-> "no"]

\* The clock's interrupt, at any moment.  The start of a timer that can only be
\* set anew is not read again, and its since is left at 0.
InUse(t) == Listed(t) \/ Queued(t) \/ running = t
TickUnheard ==                        \* mutant: the interrupt does not poll
  /\ lag < MaxLag /\ lag' = lag + 1
  /\ since' = [t \in Timer |->
                 IF InUse(t) THEN (since[t] + 1) % CLOCK ELSE since[t]]
  /\ UNCHANGED <<interval, owner, timerlist, ctimer_list, polled, kernelvars,
                 alive, calls, history>>
Tick ==
  /\ lag < MaxLag /\ lag' = lag + 1
  /\ since' = [t \in Timer |->
                 IF InUse(t) THEN (since[t] + 1) % CLOCK ELSE since[t]]
  /\ polled' = (polled \/ timerlist # << >>)
  /\ UNCHANGED <<interval, owner, timerlist, ctimer_list, kernelvars, alive,
                 calls, history>>
-----------------------------------------------------------------------------
(* Setting and stopping.                                                    *)

add_timer_twice(t, p) ==              \* mutant: the list is not searched
  /\ polled' = TRUE
  /\ owner' = [owner EXCEPT ![t] = p]
  /\ timerlist' = <<t>> \o timerlist
\* add_timer of process p: a timer that is on the list stays where it is, and
\* stays with the process it had.
add_timer(t, p) ==
  /\ polled' = TRUE
  /\ IF owner[t] # None /\ Listed(t)
     THEN UNCHANGED <<owner, timerlist>>
     ELSE /\ owner' = [owner EXCEPT ![t] = p]
          /\ timerlist' = <<t>> \o timerlist

etimer_set(t, i, p) ==
  /\ interval' = [interval EXCEPT ![t] = i]
  /\ since' = [since EXCEPT ![t] = 0]
  /\ add_timer(t, p)

\* The start moves on by one interval, from when the timer expired.
etimer_reset(t, p) ==
  /\ since' = [since EXCEPT ![t] = (@ - interval[t]) % CLOCK]
  /\ UNCHANGED interval
  /\ add_timer(t, p)

etimer_stop(t) ==
  /\ timerlist' = RemoveFirst(timerlist, t)
  /\ owner' = [owner EXCEPT ![t] = None]
  /\ since' = [since EXCEPT ![t] = IF Queued(t) \/ running = t THEN @ ELSE 0]
  /\ UNCHANGED <<interval, polled>>

Waiting(c) == c \in ToSet(ctimer_list)
Readd(c) == ctimer_list' = Append(RemoveFirst(ctimer_list, c), c)

\* Whoever sets timers: the sketch, a thread, or a ctimer's function.
UserCode == pc \in {"loop", "callback"}
Call == UserCode /\ calls < MaxCalls /\ calls' = calls + 1

\* ctimer_set, by Timer::start and Timer::setTime.
ctimer_set(c, i) ==
  /\ etimer_set(c, i, CtimerProcess)
  /\ Readd(c)
  /\ hasty' = [hasty EXCEPT ![c] = Queued(c) \/ (running = c /\ c \in AutoReset)]
  /\ stopped' = [stopped EXCEPT ![c] = "no"]
Start(c, i) ==
  /\ Call /\ ctimer_set(c, i)
  /\ UNCHANGED <<kernelvars, alive, lag>>

\* ctimer_stop, by Timer::stop and the destructor.
ctimer_stop_listed(c) ==              \* mutant: it stays on ctimer_list
  etimer_stop(c) /\ UNCHANGED ctimer_list
ctimer_stop(c) ==
  etimer_stop(c) /\ ctimer_list' = RemoveFirst(ctimer_list, c)
Stop(c) ==
  /\ Call /\ ctimer_stop(c)
  /\ stopped' = [stopped EXCEPT ![c] = IF running = c THEN "inTick" ELSE "yes"]
  /\ UNCHANGED <<kernelvars, alive, lag, hasty>>

\* A thread sets its event timer (ExpiryTimer::start).
Wait(e, i) ==
  /\ Call /\ pc = "loop" /\ Owner[e] \in alive
  /\ etimer_set(e, i, Owner[e])
  /\ UNCHANGED <<ctimer_list, kernelvars, alive, lag, history>>

\* A list of which only the timers in K are left, in their order (a set of one
\* list).
Left(list, K) ==
  {[i \in DOMAIN place |-> list[place[i]]] :
     place \in {f \in UNION {[1..n -> DOMAIN list] : n \in 0..Len(list)} :
                 /\ \A i, j \in DOMAIN f : i < j => f[i] < f[j]
                 /\ Range(f) = {i \in DOMAIN list : list[i] \in K}}}

\* It exits, and etimer_process hears of it at once: the timers of the process
\* leave the list.
Exit(p) ==
  /\ Call /\ p \in alive
  /\ alive' = alive \ {p}
  /\ timerlist' \in Left(timerlist, {t \in Timer : owner[t] # p})
  /\ since' = [t \in Timer |-> IF owner[t] = p /\ ~Queued(t) THEN 0 ELSE since[t]]
  /\ UNCHANGED <<interval, owner, ctimer_list, polled, kernelvars, lag, history>>

Restart(p) ==
  /\ Call /\ p \notin alive /\ alive' = alive \cup {p}
  /\ UNCHANGED <<timervars, kernelvars, lag, history>>

\* Other events fill the queue.
Post(p) ==
  /\ Call /\ Room
  /\ events' = Append(events, [timer |-> None, p |-> p])
  /\ UNCHANGED <<timervars, pc, at, running, alive, lag, history>>

\* The sketch has the ctimers in C.
Sketch(C) ==
  \/ \E c \in C : Stop(c) \/ \E i \in Intervals : Start(c, i)
  \/ \E e \in Etimer, i \in Intervals : Wait(e, i)
  \/ \E p \in Process : Exit(p) \/ Restart(p) \/ Post(p)
-----------------------------------------------------------------------------
(* The kernel and the two timer processes.                                  *)

process_run ==
  /\ pc = "loop"
  /\ polled' = FALSE /\ at' = 1
  /\ pc' = IF polled THEN "walk" ELSE "event"
  /\ lag' = 0
  /\ UNCHANGED <<since, interval, owner, timerlist, ctimer_list, events, running,
                 alive, calls, history>>

PostOrDrop(t) ==                      \* mutant: a full queue is not noticed
  /\ events' = IF Room THEN Append(events, [timer |-> t, p |-> owner[t]]) ELSE events
  /\ owner' = [owner EXCEPT ![t] = None]
  /\ timerlist' = RemoveFirst(timerlist, t)
  /\ at' = 1 /\ UNCHANGED polled
\* etimer_process posts the event of an expired timer, takes it off the list and
\* begins again; when the queue is full it asks for another poll and goes on.
PostExpired(t) ==
  IF Room
  THEN /\ events' = Append(events, [timer |-> t, p |-> owner[t]])
       /\ owner' = [owner EXCEPT ![t] = None]
       /\ timerlist' = RemoveFirst(timerlist, t)
       /\ at' = 1 /\ UNCHANGED polled
  ELSE at' = at + 1 /\ polled' = TRUE /\ UNCHANGED <<events, owner, timerlist>>

Examine ==
  /\ pc = "walk" /\ at \in DOMAIN timerlist
  /\ LET t == timerlist[at]
     IN  IF timer_expired(t) THEN PostExpired(t)
         ELSE at' = at + 1 /\ UNCHANGED <<events, owner, timerlist, polled>>
  /\ UNCHANGED <<since, interval, ctimer_list, pc, running, alive, lag, calls,
                 history>>

WalkEnds ==
  /\ pc = "walk" /\ at \notin DOMAIN timerlist
  /\ pc' = "event" /\ at' = 1
  /\ UNCHANGED <<timervars, events, running, alive, lag, calls, history>>

\* do_event.  ctimer_process calls the function of a ctimer that is on its list,
\* which it leaves; a thread goes on as the sketch does.
TakeEvent ==
  /\ pc = "event" /\ events # << >>
  /\ events' = Tail(events)
  /\ LET t == Head(events).timer
     IN  IF t \in Ctimer /\ Waiting(t)
         THEN /\ ctimer_list' = RemoveFirst(ctimer_list, t)
              /\ running' = t /\ pc' = "callback" /\ UNCHANGED since
         ELSE /\ pc' = "loop"
              /\ since' = [u \in Timer |-> IF u = t /\ ~Listed(u)
                                              /\ \A i \in 2..Len(events) :
                                                   events[i].timer # u
                                           THEN 0 ELSE since[u]]
              /\ UNCHANGED <<ctimer_list, running>>
  /\ UNCHANGED <<interval, owner, timerlist, polled, at, alive, lag, calls, history>>

NoEvent ==
  /\ pc = "event" /\ events = << >> /\ pc' = "loop"
  /\ UNCHANGED <<timervars, events, at, running, alive, lag, calls, history>>

\* The function returns; a repeating Timer's resets it, whatever it did.
Returns(c) ==
  /\ pc = "callback" /\ running = c
  /\ pc' = "loop" /\ running' = None
  /\ UNCHANGED <<events, at, alive, lag, calls, history>>
CallbackReturns(c) ==
  /\ Returns(c)
  /\ IF c \in AutoReset
     THEN etimer_reset(c, CtimerProcess) /\ Readd(c)
     ELSE /\ since' = [since EXCEPT ![c] = IF Listed(c) \/ Queued(c) THEN @ ELSE 0]
          /\ UNCHANGED <<interval, owner, timerlist, ctimer_list, polled>>

Kernel == process_run \/ Examine \/ WalkEnds \/ TakeEvent \/ NoEvent
-----------------------------------------------------------------------------
Next == Tick \/ Kernel \/ Sketch(Ctimer) \/ \E c \in Ctimer : CallbackReturns(c)

Spec == Init /\ [][Next]_vars
-----------------------------------------------------------------------------
(* Properties.                                                              *)

(* Types; and no timer is twice on a list: the lists are linked through the   *)
(* timers themselves, and a timer that entered twice, set while it was on the *)
(* list or after its process had exited, would close the list into a ring     *)
(* that no walk leaves.                                                       *)
TypeOK ==
  /\ since \in [Timer -> 0..(CLOCK - 1)]
  /\ interval \in [Timer -> Intervals \cup {0}]
  /\ owner \in [Timer -> Process \cup {None, CtimerProcess}]
  /\ timerlist \in Seq(Timer) /\ IsInjective(timerlist)
  /\ ctimer_list \in Seq(Ctimer) /\ IsInjective(ctimer_list)
  /\ events \in Seq(Event) /\ Len(events) <= NUMEVENTS
  /\ polled \in BOOLEAN /\ pc \in {"loop", "walk", "event", "callback"}
  /\ at \in 1..(Len(timerlist) + 1)
  /\ running \in Ctimer \cup {None} /\ alive \subseteq Process
  /\ lag \in 0..MaxLag /\ calls \in 0..MaxCalls
  /\ hasty \in [Ctimer -> BOOLEAN]
  /\ stopped \in [Ctimer -> {"no", "yes", "inTick"}]

(* A timer somebody waits for is not lost between the two lists and the queue: *)
(* a ctimer on its list has an event timer that runs or an event on its way;   *)
(* one that etimer_expired calls running is on the list; and every event timer *)
(* on the list has a living process to tell.                                   *)
NoTimerLost ==
  /\ \A c \in Ctimer : Waiting(c) => Listed(c) \/ Queued(c)
  /\ \A c \in Ctimer : owner[c] # None => Listed(c)
  /\ \A t \in Timer : Listed(t) => owner[t] \in alive \cup {CtimerProcess}

Called(c) == pc' = "callback" /\ pc # "callback" /\ running' = c
\* A difference of half the clock's range or more is a start in the future.
Early(c) == since[c] < interval[c] \/ since[c] >= CLOCK \div 2

(* A ctimer's function is called no earlier than its interval asks, from its   *)
(* start or, repeating, from when it last expired, except after a call of      *)
(* Timer::start or Timer::setTime that came in haste: while an event of the    *)
(* timer's former run waited in the queue, or in the tick of a repeating       *)
(* Timer, which is reset when the tick returns (Timer.cpp:40).                 *)
NotEarly == [][\A c \in Ctimer : Called(c) /\ ~hasty[c] => ~Early(c)]_vars

(* No start gets half the clock's range old before the timer is called or      *)
(* stopped: beyond that etimer.c could not tell a late timer from one that is  *)
(* started in the future.  It takes a main loop that keeps up with its timers: *)
(* how long a timer waits for room in the queue, nothing in the code bounds.   *)
Punctual ==
  \A c \in Ctimer : InUse(c) /\ ~hasty[c] => since[c] < CLOCK \div 2

(* A timer that was stopped is not called before it is started again, though   *)
(* its event may be in the queue, unless it stopped itself and repeats.        *)
StoppedStaysQuiet ==
  [][\A c \in Ctimer : Called(c) =>
       stopped[c] = "no" \/ (stopped[c] = "inTick" /\ c \in AutoReset)]_vars

(* A ctimer that was set is called or stopped, whatever else is started,       *)
(* stopped, posted or exits, and however full the queue.                       *)
EveryCtimerIsCalled == \A c \in Ctimer : Waiting(c) ~> ~Waiting(c)
=============================================================================
