-------------------------- MODULE SeparateResource --------------------------
(***************************************************************************)
(* A CoAP resource that answers later (src/CoAP/SeparateResource.cpp,       *)
(* SeparateResponse.cpp): a GET is accepted and a callback timer is set,    *)
(* whose function sends the response in a transaction of its own.  One      *)
(* response is under way at a time, and the engine's transactions are few.  *)
(* The resource lives beside the timers of the sketch (ContikiTimer); the   *)
(* CoAP engine is outside the repository and kept as its clients and its    *)
(* transactions.                                                            *)
(***************************************************************************)
EXTENDS ContikiTimer

CONSTANTS
  sep,               \* the resource's ctimer
  Client,            \* who sends GETs, once each
  Time,              \* SeparateResource::time
  MaxTransactions    \* COAP_MAX_OPEN_TRANSACTIONS

ASSUME SeparateAssumption ==
  /\ sep \in Ctimer \ AutoReset /\ Time \in Intervals
  /\ IsFiniteSet(Client) /\ None \notin Client /\ MaxTransactions \in Nat

VARIABLES
  active,            \* SeparateResponse::_active
  metadata,          \* _store.request_metadata: whose request it is
  waiting,           \* clients that have yet to ask
  accepted,          \* clients whose request was accepted
  transactions,      \* open transactions, by client
  answered,          \* clients to whom a response was sent, in order
  refused            \* history: a response found no transaction

engine == <<waiting, transactions>>
separate == <<active, metadata, accepted, answered, refused>>

SepInit ==
  /\ Init
  /\ active = FALSE /\ metadata = None
  /\ waiting = Client /\ accepted = {}
  /\ transactions = {} /\ answered = << >> /\ refused = FALSE

accept_always(c) ==                  \* mutant: _active is not looked at
  active' = TRUE /\ metadata' = c /\ accepted' = accepted \cup {c}
\* accept: one at a time.
accept(c) ==
  /\ ~active
  /\ active' = TRUE /\ metadata' = c /\ accepted' = accepted \cup {c}

\* handleRequest, a thread's: doGet of the resource.
doGet(c) ==
  /\ pc = "loop" /\ c \in waiting /\ waiting' = waiting \ {c}
  /\ \/ accept(c) /\ ctimer_set(sep, Time)
     \/ /\ active                               \* coap_separate_reject
        /\ UNCHANGED <<timervars, history, active, metadata, accepted>>
  /\ UNCHANGED <<kernelvars, alive, lag, calls, transactions, answered, refused>>

HasTransaction == Cardinality(transactions) < MaxTransactions

\* send, in a transaction of its own if there is one.
send ==
  IF HasTransaction
  THEN /\ transactions' = transactions \cup {metadata}
       /\ answered' = Append(answered, metadata)
       /\ active' = FALSE /\ UNCHANGED refused
  ELSE refused' = TRUE /\ UNCHANGED <<transactions, answered, active>>

\* The resource's ctimer_callback: end, then send, whose result is not looked at.
SendSeparate ==
  /\ CallbackReturns(sep)
  /\ send
  /\ UNCHANGED <<waiting, metadata, accepted>>

\* The engine: a response is acknowledged or given up.
Acknowledge(c) ==
  /\ c \in transactions /\ transactions' = transactions \ {c}
  /\ UNCHANGED <<vars, waiting, separate>>

\* The sketch has the other ctimers.
Others ==
  /\ \/ Tick \/ Kernel \/ Sketch(Ctimer \ {sep})
     \/ \E c \in Ctimer \ {sep} : CallbackReturns(c)
  /\ UNCHANGED <<engine, separate>>

SepNext ==
  \/ Others \/ SendSeparate
  \/ \E c \in Client : doGet(c) \/ Acknowledge(c)

allvars == <<vars, engine, separate>>
SepSpec == SepInit /\ [][SepNext]_allvars

(* The clock ticks, main() calls process_run for ever, ctimer functions return *)
(* and transactions end (the engine gives up after its last retry).            *)
SepFairSpec ==
  /\ SepSpec
  /\ WF_allvars(Tick /\ UNCHANGED <<engine, separate>>)
  /\ WF_allvars(Kernel /\ UNCHANGED <<engine, separate>>)
  /\ WF_allvars(SendSeparate)
  /\ \A c \in Ctimer \ {sep} :
       WF_allvars(CallbackReturns(c) /\ UNCHANGED <<engine, separate>>)
-----------------------------------------------------------------------------
(* Properties.                                                              *)

(* The flag, the stored request and the timer go together, though each is     *)
(* changed in a different function: every accepted request has been answered,  *)
(* once, or is the one that is stored; one is under way exactly while the      *)
(* resource's timer is set or its function runs, unless a response was refused *)
(* a transaction.  So a timer that fires always has an unanswered request to   *)
(* answer, and metadata is never overwritten before it has been used.          *)
RequestsAccountedFor ==
  /\ IsInjective(answered) /\ ToSet(answered) \subseteq accepted
  /\ accepted \ ToSet(answered) = IF active THEN {metadata} ELSE {}
  /\ Waiting(sep) \/ running = sep <=> active /\ ~refused

(* An accepted request is answered, to the client it came from, though another *)
(* client asks meanwhile and the sketch's timers come and go, unless there was  *)
(* no transaction when its time came: then nobody tries again and the resource  *)
(* rejects everybody for ever (SeparateResource.cpp:30).                        *)
AcceptedIsAnswered ==
  \A c \in Client : c \in accepted ~> c \in ToSet(answered) \/ refused
=============================================================================
