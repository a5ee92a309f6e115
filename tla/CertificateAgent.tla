-------------------------- MODULE CertificateAgent ---------------------------
(***************************************************************************)
(* The certificate agent on the VPS, app/vps_cert_agent.py: AgentApplica-  *)
(* tion, its handler do_GET, and the RateLimiter between them.             *)
(*                                                                         *)
(* ThreadingHTTPServer gives every request a thread.  RateLimiter.allow    *)
(* takes the time of the request before it takes its lock, so that the     *)
(* deque of a client need not be in the order of its time stamps.          *)
(*                                                                         *)
(* An entry of a deque is named by the request that it was recorded for;   *)
(* its time stamp is the moment of that request.                           *)
(***************************************************************************)
EXTENDS Integers, FiniteSets, Sequences

CONSTANTS
    Requests,   \* the GET requests the agent gets
    Clients,    \* client addresses, the identities of the rate limiter
    Names,      \* certificate names that are asked for
    Allowed,    \* the --allowed-name arguments
    Ask,        \* what each request asks for
    Nobody,     \* the holder of a free lock
    Limit,      \* MAX_REQUESTS_PER_MINUTE
    Window,     \* the sixty seconds of the budget, in ticks
    MaxClock    \* bound: ticks in a behaviour

Asks == [client : Clients, token : BOOLEAN, name : Names]

ASSUME AskAssumption == Ask \in [Requests -> Asks]
ASSUME NamesAssumption == Allowed \subseteq Names /\ Nobody \notin Requests
ASSUME RequestsAssumption == IsFiniteSet(Requests)
ASSUME BoundsAssumption ==
    /\ Limit \in Nat \ {0}
    /\ Window \in Nat \ {0}
    /\ MaxClock \in Nat

VARIABLES
    clock,      \* time.monotonic()
    events,     \* RateLimiter.events: the deque of each client
    lock,       \* RateLimiter.lock
    moment,     \* when RateLimiter.allow took its time
    pc,         \* where its thread is
    answer,     \* what its client was answered
    entered     \* history: when it was recorded in the deque

limiter == <<events, lock>>
threads == <<moment, pc, answer>>
vars == <<clock, limiter, threads, entered>>

Answers == {"none", "elsewhere", "too_many", "unauthorized",
            "forbidden", "served", "not_found", "dropped", "gone"}

TypeOK ==
    /\ clock \in 0..MaxClock
    /\ events \in [Clients -> Seq(Requests)]
    /\ \A c \in Clients : Len(events[c]) <= Limit
    /\ lock \in Requests \cup {Nobody}
    /\ moment \in [Requests -> 0..MaxClock]
    /\ pc \in [Requests -> {"idle", "sampled", "locked", "admitted", "done"}]
    /\ \A r \in Requests : lock = r <=> pc[r] = "locked"
    /\ answer \in [Requests -> Answers]
    /\ entered \in [Requests -> 0..MaxClock]

Init ==
    /\ clock = 0
    /\ events = [c \in Clients |-> <<>>]
    /\ lock = Nobody
    /\ moment = [r \in Requests |-> 0]
    /\ pc = [r \in Requests |-> "idle"]
    /\ answer = [r \in Requests |-> "none"]
    /\ entered = [r \in Requests |-> 0]

-----------------------------------------------------------------------------
Goto(r, position) == pc' = [pc EXCEPT ![r] = position]

Reply(r, what) ==
    /\ answer' = [answer EXCEPT ![r] = what]
    /\ Goto(r, "done")

Deque(r) == events[Ask[r].client]

(* Any other path: /healthz, or 404.  It costs no budget. *)
OtherPath(r) ==
    /\ pc[r] = "idle"
    /\ Reply(r, "elsewhere")
    /\ UNCHANGED <<clock, limiter, moment, entered>>

(* RateLimiter.allow takes the time, then the lock. *)
Sample(r) ==
    /\ pc[r] = "idle"
    /\ moment' = [moment EXCEPT ![r] = clock]
    /\ Goto(r, "sampled")
    /\ UNCHANGED <<clock, limiter, answer, entered>>

Acquire(r) ==
    /\ pc[r] = "sampled"
    /\ lock = Nobody
    /\ lock' = r
    /\ Goto(r, "locked")
    /\ UNCHANGED <<clock, events, moment, answer, entered>>

(* Slip: an entry leaves the window one tick early. *)
StaleEarly(r) == Deque(r) # <<>> /\ moment[Head(Deque(r))] <= moment[r] - Window + 1

(* Slip: looks at the newest entry. *)
StaleNewest(r) ==
    Deque(r) # <<>> /\ moment[Deque(r)[Len(Deque(r))]] <= moment[r] - Window

(* The head of the deque has left the window of this request. *)
Stale(r) == Deque(r) # <<>> /\ moment[Head(Deque(r))] <= moment[r] - Window

Pop(r) ==
    /\ pc[r] = "locked"
    /\ Stale(r)
    /\ events' = [events EXCEPT ![Ask[r].client] = Tail(@)]
    /\ UNCHANGED <<clock, lock, threads, entered>>

Refuse(r) ==
    /\ pc[r] = "locked"
    /\ ~ Stale(r)
    /\ Len(Deque(r)) >= Limit
    /\ lock' = Nobody
    /\ Reply(r, "too_many")
    /\ UNCHANGED <<clock, events, moment, entered>>

(* Slip: one more than the limit. *)
AdmitOneMore(r) ==
    /\ pc[r] = "locked"
    /\ ~ Stale(r)
    /\ Len(Deque(r)) <= Limit
    /\ events' = [events EXCEPT ![Ask[r].client] = Append(@, r)]
    /\ entered' = [entered EXCEPT ![r] = clock]
    /\ lock' = Nobody
    /\ Goto(r, "admitted")
    /\ UNCHANGED <<clock, moment, answer>>

Admit(r) ==
    /\ pc[r] = "locked"
    /\ ~ Stale(r)
    /\ Len(Deque(r)) < Limit
    /\ events' = [events EXCEPT ![Ask[r].client] = Append(@, r)]
    /\ entered' = [entered EXCEPT ![r] = clock]
    /\ lock' = Nobody
    /\ Goto(r, "admitted")
    /\ UNCHANGED <<clock, moment, answer>>

(* extract_bundle finds the certificate, or raises RuntimeError (no storage, no
   entry, an entry it cannot decode), or the ValidationError of
   validate_bundle, which do_GET does not catch: the connection then ends
   without an answer.  Traefik may change the storage between two requests. *)
Extracted == {"served", "not_found", "dropped"}

(* A request within the budget. *)
Examine(r) ==
    /\ pc[r] = "admitted"
    /\ \/ ~ Ask[r].token /\ Reply(r, "unauthorized")
       \/ Ask[r].token /\ Ask[r].name \notin Allowed /\ Reply(r, "forbidden")
       \/ /\ Ask[r].token /\ Ask[r].name \in Allowed
          /\ \E result \in Extracted : Reply(r, result)
    /\ UNCHANGED <<clock, limiter, moment, entered>>

-----------------------------------------------------------------------------
Tick ==
    /\ clock < MaxClock
    /\ clock' = clock + 1
    /\ UNCHANGED <<limiter, threads, entered>>

(* The agent is started again: its budgets and its threads are gone. *)
Restart ==
    /\ events' = [c \in Clients |-> <<>>]
    /\ lock' = Nobody
    /\ pc' = [r \in Requests |-> IF pc[r] = "idle" THEN "idle" ELSE "done"]
    /\ answer' = [r \in Requests |-> IF pc[r] = "idle" THEN "none" ELSE "gone"]
    /\ moment' = [r \in Requests |-> 0]
    /\ entered' = [r \in Requests |-> 0]
    /\ UNCHANGED clock

Thread(r) ==
    \/ OtherPath(r) \/ Sample(r) \/ Acquire(r) \/ Pop(r)
    \/ Refuse(r) \/ Admit(r) \/ Examine(r)

Next ==
    \/ \E r \in Requests : Thread(r)
    \/ Tick
    \/ Restart

Spec == Init /\ [][Next]_vars

-----------------------------------------------------------------------------
(* The requests of a client that this process let past the rate limiter,
   whatever they were answered. *)
Examined(c) ==
    {r \in Requests :
        /\ Ask[r].client = c
        /\ \/ pc[r] = "admitted"
           \/ answer[r] \in {"unauthorized", "forbidden"} \cup Extracted}

(* The budget of a client holds at every moment and for whatever its requests
   were answered, wrong tokens included: at most Limit of those that took
   their time within the last Window were let in, although the threads enter
   the deque in another order than that of their time stamps, and one that
   waited for the lock drops the entries of others late. *)
WindowBudget ==
    \A c \in Clients :
        Cardinality({r \in Examined(c) : moment[r] > clock - Window}) <= Limit

(* A request is refused only when Limit others of its own client were let in
   within the window before it took its time, or while it waited: refusals and
   other clients use up nothing, and no entry stays longer than its window. *)
RefusedForAReason ==
    \A r \in Requests :
        answer[r] = "too_many" =>
            Cardinality({s \in Examined(Ask[r].client) :
                            entered[s] > moment[r] - Window}) >= Limit
=============================================================================
