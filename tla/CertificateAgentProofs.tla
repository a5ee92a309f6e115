----------------------- MODULE CertificateAgentProofs ------------------------
(***************************************************************************)
(* Theorems about module CertificateAgent, for every number of requests    *)
(* and clients, every limit and every window.                              *)
(***************************************************************************)
EXTENDS CertificateAgent, FiniteSetTheorems, TLAPS

(* A request has no answer before the rate limiter and the handler are done
   with it. *)
Progress == \A r \in Requests : pc[r] # "done" => answer[r] = "none"

(* Time stamps lie in the past, and before the entry into the deque. *)
Times ==
    \A r \in Requests :
        /\ moment[r] <= clock
        /\ \A c \in Clients : r \in Examined(c) => moment[r] <= entered[r] /\ entered[r] <= clock

(* A deque holds requests that were let in, once each, in the order in which
   they were. *)
Recorded ==
    \A c \in Clients :
        /\ \A i \in 1..Len(events[c]) : events[c][i] \in Examined(c)
        /\ \A i, j \in 1..Len(events[c]) :
              i < j => /\ events[c][i] # events[c][j]
                       /\ entered[events[c][i]] <= entered[events[c][j]]

(* Whatever is still in the window is in the deque. *)
Kept ==
    \A c \in Clients : \A r \in Examined(c) :
        moment[r] > clock - Window => \E i \in 1..Len(events[c]) : events[c][i] = r

IInv == TypeOK /\ Progress /\ Times /\ Recorded /\ Kept /\ RefusedForAReason

-----------------------------------------------------------------------------
LEMMA InitIInv == Init => IInv
<1> SUFFICES ASSUME Init PROVE IInv
  OBVIOUS
<1> USE DEF Init
<1>1. TypeOK
  BY BoundsAssumption, NamesAssumption DEF TypeOK, Answers
<1>2. \A c \in Clients : Examined(c) = {} /\ Len(events[c]) = 0
  BY DEF Examined, Extracted
<1>3. Progress /\ RefusedForAReason
  BY DEF Progress, RefusedForAReason
<1>4. Times /\ Recorded /\ Kept
  BY <1>2, BoundsAssumption DEF Times, Recorded, Kept
<1> QED
  BY <1>1, <1>3, <1>4 DEF IInv

LEMMA Types == TypeOK /\ [Next]_vars => TypeOK'
<1> SUFFICES ASSUME TypeOK, [Next]_vars PROVE TypeOK'
  OBVIOUS
<1> USE DEF TypeOK, Goto, Reply, Answers, Extracted, Deque, limiter, threads
<1>0. /\ Nobody \notin Requests
      /\ MaxClock \in Nat /\ Limit \in Nat \ {0} /\ Window \in Nat \ {0}
      /\ \A r \in Requests : Ask[r].client \in Clients
  BY NamesAssumption, BoundsAssumption, AskAssumption DEF Asks
<1>1. ASSUME NEW r \in Requests, OtherPath(r) PROVE TypeOK'
  BY <1>0, <1>1 DEF OtherPath
<1>2. ASSUME NEW r \in Requests, Sample(r) PROVE TypeOK'
  BY <1>0, <1>2 DEF Sample
<1>3. ASSUME NEW r \in Requests, Acquire(r) PROVE TypeOK'
  BY <1>0, <1>3 DEF Acquire
<1>4. ASSUME NEW r \in Requests, Pop(r) PROVE TypeOK'
  <2>1. /\ events[Ask[r].client] \in Seq(Requests) /\ events[Ask[r].client] # <<>>
        /\ Len(events[Ask[r].client]) \in Nat
    BY <1>0, <1>4 DEF Pop, Stale
  <2>2. /\ Tail(events[Ask[r].client]) \in Seq(Requests)
        /\ Len(Tail(events[Ask[r].client])) <= Limit
    BY <2>1, <1>0
  <2> QED
    BY <1>0, <1>4, <2>2 DEF Pop
<1>5. ASSUME NEW r \in Requests, Refuse(r) PROVE TypeOK'
  BY <1>0, <1>5 DEF Refuse
<1>6. ASSUME NEW r \in Requests, Admit(r) PROVE TypeOK'
  <2>1. /\ Append(events[Ask[r].client], r) \in Seq(Requests)
        /\ Len(Append(events[Ask[r].client], r)) <= Limit
    BY <1>0, <1>6 DEF Admit
  <2> QED
    BY <1>0, <1>6, <2>1 DEF Admit
<1>7. ASSUME NEW r \in Requests, Examine(r) PROVE TypeOK'
  BY <1>0, <1>7 DEF Examine
<1>8. CASE Tick
  BY <1>0, <1>8 DEF Tick
<1>9. CASE Restart
  BY <1>0, <1>9 DEF Restart
<1>10. CASE UNCHANGED vars
  BY <1>10 DEF vars
<1> QED
  BY <1>1, <1>2, <1>3, <1>4, <1>5, <1>6, <1>7, <1>8, <1>9, <1>10 DEF Next, Thread

THEOREM TypeCorrect == Spec => []TypeOK
<1>1. Init => TypeOK
  BY InitIInv DEF IInv
<1> QED
  BY <1>1, Types, PTL DEF Spec

-----------------------------------------------------------------------------
(* A step of a thread that lets nobody in or out. *)
LEMMA Undisturbed ==
    ASSUME Times, Recorded, Kept, UNCHANGED <<clock, events, moment, entered>>,
           \A c \in Clients : Examined(c)' = Examined(c)
    PROVE  Times' /\ Recorded' /\ Kept'
<1>1. Times'
  BY DEF Times
<1>2. Recorded'
  BY DEF Recorded
<1>3. Kept'
  BY DEF Kept
<1> QED
  BY <1>1, <1>2, <1>3

(* A refusal stays justified while nobody who was let in is forgotten. *)
LEMMA StillJustified ==
    ASSUME TypeOK, TypeOK', RefusedForAReason,
           \A r \in Requests : answer[r]' = "too_many" =>
                                answer[r] = "too_many" /\ moment[r]' = moment[r],
           \A c \in Clients : Examined(c) \subseteq Examined(c)',
           \A c \in Clients : \A s \in Examined(c) : entered[s]' = entered[s]
    PROVE  RefusedForAReason'
<1> SUFFICES ASSUME NEW r \in Requests, answer[r]' = "too_many"
             PROVE  Cardinality({s \in Examined(Ask[r].client)' :
                                    entered[s]' > moment[r]' - Window}) >= Limit
  BY DEF RefusedForAReason
<1> DEFINE c == Ask[r].client
           S == {s \in Examined(c) : entered[s] > moment[r] - Window}
           T == {s \in Examined(c)' : entered[s]' > moment[r]' - Window}
<1>1. c \in Clients
  BY AskAssumption DEF Asks
<1>2. Cardinality(S) >= Limit
  BY DEF RefusedForAReason
<1>3. S \in SUBSET T
  BY <1>1
<1>4. T \subseteq Requests
  BY DEF Examined
<1>5. IsFiniteSet(T)
  BY <1>4, RequestsAssumption, FS_Subset
<1>6. /\ Cardinality(S) \in Nat /\ Cardinality(T) \in Nat
      /\ Cardinality(S) <= Cardinality(T)
  BY <1>3, <1>5, FS_Subset, FS_CardinalityType
<1> HIDE DEF S, T
<1>7. Cardinality(T) >= Limit
  BY <1>2, <1>6, BoundsAssumption
<1> QED
  BY <1>7 DEF T, c

LEMMA IndexCardinality ==
    ASSUME NEW n \in Nat PROVE IsFiniteSet(1..n) /\ Cardinality(1..n) = n
<1>1. 1 \in Int /\ n \in Int
  OBVIOUS
<1>2. IsFiniteSet(1..n) /\ Cardinality(1..n) = IF 1 > n THEN 0 ELSE n - 1 + 1
  BY <1>1, FS_Interval
<1> QED
  BY <1>2

(* When the head of a full deque is in the window, so are all its entries. *)
LEMMA FullDeque ==
    ASSUME IInv, NEW r \in Requests, ~ Stale(r), Len(Deque(r)) >= Limit
    PROVE  Cardinality({s \in Examined(Ask[r].client) :
                           entered[s] > moment[r] - Window}) >= Limit
<1> DEFINE c == Ask[r].client
           q == events[c]
           S == {s \in Examined(c) : entered[s] > moment[r] - Window}
           f == [i \in 1..Len(q) |-> q[i]]
<1>0. TypeOK /\ Times /\ Recorded
  BY DEF IInv
<1>1. /\ c \in Clients /\ q \in Seq(Requests) /\ Len(q) \in Nat /\ Len(q) >= Limit
      /\ Limit \in Nat \ {0} /\ Window \in Nat
      /\ moment \in [Requests -> Nat] /\ entered \in [Requests -> Nat]
  <2>1. c \in Clients
    BY AskAssumption DEF Asks
  <2>2. q \in Seq(Requests) /\ Len(q) \in Nat
    BY <2>1, <1>0 DEF TypeOK
  <2>3. moment \in [Requests -> Nat] /\ entered \in [Requests -> Nat]
    BY <1>0, BoundsAssumption DEF TypeOK
  <2> QED
    BY <2>1, <2>2, <2>3, BoundsAssumption DEF Deque
<1>2. \A i \in 1..Len(q) : q[i] \in Examined(c) /\ q[i] \in Requests
  BY <1>0, <1>1 DEF Recorded, Examined
<1>3. \A i, j \in 1..Len(q) :
         i < j => q[i] # q[j] /\ entered[q[i]] <= entered[q[j]]
  BY <1>0, <1>1 DEF Recorded
<1>4. 1 \in 1..Len(q) /\ moment[q[1]] > moment[r] - Window
  <2>1. 1 \in 1..Len(q) /\ q # <<>> /\ Head(q) = q[1]
    BY <1>1
  <2>2. ~ (moment[q[1]] <= moment[r] - Window)
    BY <2>1 DEF Stale, Deque
  <2>3. moment[q[1]] \in Nat /\ moment[r] \in Nat
    BY <2>1, <1>1, <1>2
  <2>4. \A x, y \in Nat : ~ (x <= y - Window) => x > y - Window
    BY <1>1
  <2> HIDE DEF q
  <2> QED
    BY <2>1, <2>2, <2>3, <2>4
<1>5. moment[q[1]] <= entered[q[1]]
  BY <1>0, <1>1, <1>2, <1>4 DEF Times
<1> HIDE DEF q, c
<1>6. ASSUME NEW i \in 1..Len(q) PROVE q[i] \in S
  <2>1. entered[q[1]] <= entered[q[i]]
    BY <1>1, <1>2, <1>3, <1>4
  <2>2. /\ entered[q[1]] \in Nat /\ entered[q[i]] \in Nat
        /\ moment[q[1]] \in Nat /\ moment[r] \in Nat
    BY <1>1, <1>2, <1>4
  <2>3. entered[q[i]] > moment[r] - Window
    BY <2>1, <2>2, <1>1, <1>4, <1>5
  <2> QED
    BY <2>3, <1>2
<1>7. f \in Injection(1..Len(q), S)
  <2>1. f \in [1..Len(q) -> S]
    BY <1>6
  <2>2. ASSUME NEW i \in 1..Len(q), NEW j \in 1..Len(q), i # j PROVE f[i] # f[j]
    <3>1. i < j \/ j < i
      BY <2>2, <1>1
    <3> QED
      BY <3>1, <1>3
  <2> QED
    BY <2>1, <2>2 DEF Injection, IsInjective
<1>8. S \subseteq Requests
  BY DEF Examined
<1>9. IsFiniteSet(S)
  BY <1>8, RequestsAssumption, FS_Subset
<1>10. Cardinality(1..Len(q)) <= Cardinality(S)
  BY <1>7, <1>9, FS_Injection
<1>11. Cardinality(1..Len(q)) = Len(q)
  BY <1>1, IndexCardinality
<1>12. Cardinality(S) \in Nat
  BY <1>9, FS_CardinalityType
<1> HIDE DEF S
<1>13. Cardinality(S) >= Limit
  BY <1>1, <1>10, <1>11, <1>12
<1> QED
  BY <1>13 DEF S, c

LEMMA NextIInv == IInv /\ [Next]_vars => IInv'
<1> SUFFICES ASSUME IInv, [Next]_vars PROVE IInv'
  OBVIOUS
<1> USE DEF IInv
<1>0. /\ TypeOK'
      /\ MaxClock \in Nat /\ Limit \in Nat \ {0} /\ Window \in Nat \ {0}
      /\ \A r \in Requests : Ask[r].client \in Clients
  BY Types, BoundsAssumption, AskAssumption DEF Asks
<1>1. ASSUME NEW r \in Requests, OtherPath(r) \/ Sample(r) \/ Acquire(r) PROVE IInv'
  <2>1. Progress'
    BY <1>1 DEF OtherPath, Sample, Acquire, Progress, Goto, Reply, TypeOK
  <2>2. \A c \in Clients : Examined(c)' = Examined(c)
    BY <1>1 DEF OtherPath, Sample, Acquire, Progress, Goto, Reply, TypeOK, Examined, Extracted
  <2>3. \A c \in Clients : r \notin Examined(c)
    BY <1>1 DEF OtherPath, Sample, Acquire, Progress, Examined, Extracted
  <2>4. UNCHANGED <<clock, events, entered>>
    BY <1>1 DEF OtherPath, Sample, Acquire, limiter
  <2>5. /\ \A s \in Requests \ {r} : moment'[s] = moment[s]
        /\ moment'[r] = moment[r] \/ moment'[r] = clock
    BY <1>1 DEF OtherPath, Sample, Acquire, TypeOK
  <2>6. Times'
    <3>1. clock \in Nat /\ \A c \in Clients : \A s \in Examined(c) : s \in Requests \ {r}
      BY <1>0, <2>3 DEF TypeOK, Examined
    <3>2. \A s \in Requests : moment'[s] <= clock'
      BY <3>1, <2>4, <2>5 DEF Times
    <3> QED
      BY <3>1, <3>2, <2>2, <2>4, <2>5 DEF Times
  <2>7. Recorded'
    BY <2>2, <2>4 DEF Recorded
  <2>8. Kept'
    BY <2>2, <2>3, <2>4, <2>5 DEF Kept, Examined
  <2>9. RefusedForAReason'
    <3>1. \A s \in Requests : answer[s]' = "too_many" =>
                               answer[s] = "too_many" /\ moment[s]' = moment[s]
      BY <1>1, <2>5 DEF OtherPath, Sample, Acquire, Goto, Reply, TypeOK, Progress
    <3> QED
      BY <3>1, <2>2, <2>4, <1>0, StillJustified
  <2> QED
    BY <1>0, <2>1, <2>6, <2>7, <2>8, <2>9
<1>2. ASSUME NEW r \in Requests, Pop(r) PROVE IInv'
  <2> DEFINE c == Ask[r].client
             q == events[c]
  <2>1. Progress'
    BY <1>2 DEF Pop, Progress, threads
  <2>2. \A d \in Clients : Examined(d)' = Examined(d)
    BY <1>2 DEF Pop, Examined, threads
  <2>3. UNCHANGED <<clock, moment, entered, answer>>
    BY <1>2 DEF Pop, threads
  <2>4. /\ c \in Clients /\ q \in Seq(Requests) /\ q # <<>> /\ events'[c] = Tail(q)
        /\ \A d \in Clients \ {c} : events'[d] = events[d]
        /\ moment[q[1]] <= moment[r] - Window
    BY <1>0, <1>2 DEF Pop, Stale, Deque, TypeOK
  <2>5. /\ Len(q) \in Nat \ {0} /\ Len(events'[c]) = Len(q) - 1
        /\ \A i \in 1..(Len(q) - 1) : events'[c][i] = q[i + 1]
    BY <2>4
  <2>6. Times'
    BY <2>2, <2>3 DEF Times
  <2>7. Recorded'
    <3>1. ASSUME NEW d \in Clients, NEW i \in 1..Len(events'[d])
          PROVE  events'[d][i] \in Examined(d)
      <4>1. CASE d = c
        <5>1. i + 1 \in 1..Len(q) /\ events'[d][i] = q[i + 1]
          BY <3>1, <4>1, <2>5
        <5> QED
          BY <5>1, <4>1 DEF Recorded
      <4>2. CASE d # c
        BY <4>2, <2>4 DEF Recorded
      <4> QED
        BY <4>1, <4>2
    <3>2. ASSUME NEW d \in Clients, NEW i \in 1..Len(events'[d]),
                 NEW j \in 1..Len(events'[d]), i < j
          PROVE  /\ events'[d][i] # events'[d][j]
                 /\ entered[events'[d][i]] <= entered[events'[d][j]]
      <4>1. CASE d = c
        <5>1. i + 1 \in 1..Len(q) /\ j + 1 \in 1..Len(q) /\ i + 1 < j + 1
          BY <3>2, <4>1, <2>5
        <5> QED
          BY <5>1, <4>1, <3>2, <2>4, <2>5 DEF Recorded
      <4>2. CASE d # c
        BY <3>2, <4>2, <2>4 DEF Recorded
      <4> QED
        BY <4>1, <4>2
    <3> QED
      BY <3>1, <3>2, <2>2, <2>3 DEF Recorded
  <2>8. Kept'
    <3>1. ASSUME NEW d \in Clients, NEW s \in Examined(d), moment[s] > clock - Window
          PROVE  \E i \in 1..Len(events'[d]) : events'[d][i] = s
      <4>1. PICK i \in 1..Len(events[d]) : events[d][i] = s
        BY <3>1 DEF Kept
      <4>2. CASE d = c
        <5>1. moment[r] <= clock /\ moment[r] \in Nat /\ clock \in Nat /\ moment[s] \in Nat
          BY <1>0 DEF Times, TypeOK, Examined
        <5>2. i # 1
          BY <5>1, <4>1, <4>2, <3>1, <2>4, <1>0
        <5>3. i - 1 \in 1..(Len(q) - 1) /\ events'[c][i - 1] = q[i]
          BY <5>2, <4>2, <2>5
        <5> QED
          BY <5>3, <4>1, <4>2, <2>5
      <4>3. CASE d # c
        BY <4>1, <4>3, <2>4
      <4> QED
        BY <4>2, <4>3
    <3> QED
      BY <3>1, <2>2, <2>3 DEF Kept
  <2>9. RefusedForAReason'
    BY <2>2, <2>3, <1>0, StillJustified
  <2> QED
    BY <1>0, <2>1, <2>6, <2>7, <2>8, <2>9
<1>3. ASSUME NEW r \in Requests, Refuse(r) PROVE IInv'
  <2>1. Progress'
    BY <1>3 DEF Refuse, Progress, Goto, Reply, TypeOK
  <2>2. \A c \in Clients : Examined(c)' = Examined(c)
    BY <1>3 DEF Refuse, Progress, Goto, Reply, TypeOK, Examined, Extracted
  <2>3. UNCHANGED <<clock, events, moment, entered>>
    BY <1>3 DEF Refuse
  <2>4. RefusedForAReason'
    <3> SUFFICES ASSUME NEW s \in Requests, answer'[s] = "too_many"
                 PROVE  Cardinality({t \in Examined(Ask[s].client) :
                                        entered[t] > moment[s] - Window}) >= Limit
      BY <2>2, <2>3, <1>0 DEF RefusedForAReason
    <3>1. CASE s = r
      BY <3>1, <1>3, FullDeque DEF Refuse
    <3>2. CASE s # r
      BY <3>2, <1>3 DEF Refuse, Reply, RefusedForAReason, TypeOK
    <3> QED
      BY <3>1, <3>2
  <2> QED
    BY <1>0, <2>1, <2>2, <2>3, <2>4, Undisturbed
<1>4. ASSUME NEW r \in Requests, Admit(r) PROVE IInv'
  <2> DEFINE c == Ask[r].client
             q == events[c]
  <2>1. Progress'
    BY <1>4 DEF Admit, Progress, Goto, TypeOK
  <2>2. /\ \A d \in Clients \ {c} : Examined(d)' = Examined(d)
        /\ Examined(c)' = Examined(c) \cup {r}
        /\ \A d \in Clients : r \notin Examined(d)
    BY <1>4 DEF Admit, Progress, Goto, TypeOK, Examined, Extracted
  <2>3. UNCHANGED <<clock, moment, answer>>
    BY <1>4 DEF Admit
  <2>4. entered'[r] = clock /\ \A s \in Requests \ {r} : entered'[s] = entered[s]
    BY <1>4 DEF Admit, TypeOK
  <2>5. /\ c \in Clients /\ q \in Seq(Requests) /\ events'[c] = Append(q, r)
        /\ \A d \in Clients \ {c} : events'[d] = events[d]
    BY <1>0, <1>4 DEF Admit, TypeOK
  <2>6. /\ Len(q) \in Nat /\ Len(events'[c]) = Len(q) + 1
        /\ \A i \in 1..Len(q) : events'[c][i] = q[i]
        /\ events'[c][Len(q) + 1] = r
    BY <2>5
  <2>7. \A d \in Clients : \A s \in Examined(d) : s \in Requests /\ entered'[s] = entered[s]
    BY <2>2, <2>4 DEF Examined
  <2>8. clock \in Nat /\ moment \in [Requests -> Nat] /\ entered \in [Requests -> Nat]
    BY <1>0 DEF TypeOK
  <2>9. Times'
    BY <2>2, <2>3, <2>4, <2>7, <2>8 DEF Times
  <2>10. Recorded'
    <3>1. ASSUME NEW d \in Clients, NEW i \in 1..Len(events'[d])
          PROVE  events'[d][i] \in Examined(d)'
      <4>1. CASE d = c
        BY <4>1, <2>2, <2>5, <2>6 DEF Recorded
      <4>2. CASE d # c
        BY <4>2, <2>2, <2>5 DEF Recorded
      <4> QED
        BY <4>1, <4>2
    <3>2. ASSUME NEW d \in Clients, NEW i \in 1..Len(events'[d]),
                 NEW j \in 1..Len(events'[d]), i < j
          PROVE  /\ events'[d][i] # events'[d][j]
                 /\ entered'[events'[d][i]] <= entered'[events'[d][j]]
      <4>1. CASE d = c /\ j = Len(q) + 1
        <5>1. /\ i \in 1..Len(q) /\ events'[d][i] = q[i] /\ q[i] \in Examined(c)
              /\ events'[d][j] = r
          BY <4>1, <3>2, <2>6, <2>5 DEF Recorded
        <5>2. entered'[q[i]] <= clock
          BY <5>1, <2>7, <2>5 DEF Times
        <5> QED
          BY <5>1, <5>2, <2>2, <2>4, <2>5
      <4>2. CASE d = c /\ j # Len(q) + 1
        <5>1. /\ i \in 1..Len(q) /\ events'[d][i] = q[i] /\ q[i] \in Examined(c)
              /\ j \in 1..Len(q) /\ events'[d][j] = q[j] /\ q[j] \in Examined(c)
          BY <4>2, <3>2, <2>6, <2>5 DEF Recorded
        <5>2. q[i] # q[j] /\ entered[q[i]] <= entered[q[j]]
          BY <5>1, <3>2, <2>5 DEF Recorded
        <5> QED
          BY <5>1, <5>2, <2>7, <2>5
      <4>3. CASE d # c
        <5>1. /\ i \in 1..Len(events[d]) /\ events'[d][i] = events[d][i]
              /\ j \in 1..Len(events[d]) /\ events'[d][j] = events[d][j]
              /\ events[d][i] \in Examined(d) /\ events[d][j] \in Examined(d)
          BY <4>3, <3>2, <2>5 DEF Recorded
        <5> QED
          BY <5>1, <3>2, <2>7 DEF Recorded
      <4> QED
        BY <4>1, <4>2, <4>3
    <3> QED
      BY <3>1, <3>2 DEF Recorded
  <2>11. Kept'
    <3>1. ASSUME NEW d \in Clients, NEW s \in Examined(d)', moment[s] > clock - Window
          PROVE  \E i \in 1..Len(events'[d]) : events'[d][i] = s
      <4>1. CASE s = r
        <5>1. d = c
          BY <4>1, <3>1, <2>2
        <5> QED
          BY <5>1, <4>1, <2>6
      <4>2. CASE s # r
        <5>1. s \in Examined(d)
          BY <4>2, <3>1, <2>2
        <5>2. PICK i \in 1..Len(events[d]) : events[d][i] = s
          BY <5>1, <3>1 DEF Kept
        <5>3. CASE d = c
          BY <5>2, <5>3, <2>6
        <5>4. CASE d # c
          BY <5>2, <5>4, <2>5
        <5> QED
          BY <5>3, <5>4
      <4> QED
        BY <4>1, <4>2
    <3> QED
      BY <3>1, <2>3 DEF Kept
  <2>12. RefusedForAReason'
    <3>1. \A d \in Clients : Examined(d) \subseteq Examined(d)'
      BY <2>2
    <3> QED
      BY <3>1, <2>3, <2>7, <1>0, StillJustified
  <2> QED
    BY <1>0, <2>1, <2>9, <2>10, <2>11, <2>12
<1>5. ASSUME NEW r \in Requests, Examine(r) PROVE IInv'
  <2>1. Progress'
    BY <1>5 DEF Examine, Progress, Goto, Reply, TypeOK
  <2>2. \A c \in Clients : Examined(c)' = Examined(c)
    BY <1>5 DEF Examine, Progress, Goto, Reply, TypeOK, Examined, Extracted
  <2>3. UNCHANGED <<clock, events, moment, entered>>
    BY <1>5 DEF Examine, limiter
  <2>4. \A s \in Requests : answer'[s] = "too_many" => answer[s] = "too_many"
    BY <1>5 DEF Examine, Reply, TypeOK, Extracted
  <2>5. RefusedForAReason'
    BY <2>2, <2>3, <2>4, <1>0, StillJustified
  <2> QED
    BY <1>0, <2>1, <2>2, <2>3, <2>5, Undisturbed
<1>6. CASE Tick
  <2>1. /\ UNCHANGED <<events, lock, moment, pc, answer, entered>>
        /\ clock' = clock + 1 /\ clock \in Nat
        /\ moment \in [Requests -> Nat] /\ entered \in [Requests -> Nat]
    BY <1>6, <1>0 DEF Tick, limiter, threads, TypeOK
  <2>2. \A c \in Clients : Examined(c)' = Examined(c) /\ Examined(c) \subseteq Requests
    BY <2>1 DEF Examined
  <2>3. Progress' /\ Recorded'
    BY <2>1, <2>2 DEF Progress, Recorded
  <2>4. Times'
    BY <2>1, <2>2 DEF Times
  <2>5. Kept'
    BY <2>1, <2>2, <1>0 DEF Kept
  <2>6. RefusedForAReason'
    BY <2>1, <2>2, <1>0, StillJustified
  <2> QED
    BY <1>0, <2>3, <2>4, <2>5, <2>6
<1>7. CASE Restart
  <2>1. \A c \in Clients : Examined(c)' = {} /\ Len(events'[c]) = 0
    BY <1>7 DEF Restart, Examined, Extracted
  <2>2. Progress' /\ RefusedForAReason'
    BY <1>7 DEF Restart, Progress, RefusedForAReason
  <2>3. Times'
    BY <1>7, <2>1 DEF Restart, Times, TypeOK
  <2>4. Recorded' /\ Kept'
    BY <2>1 DEF Recorded, Kept
  <2> QED
    BY <1>0, <2>2, <2>3, <2>4
<1>8. CASE UNCHANGED vars
  <2>1. UNCHANGED <<clock, events, lock, moment, pc, answer, entered>>
    BY <1>8 DEF vars, limiter, threads
  <2>2. \A c \in Clients : Examined(c)' = Examined(c)
    BY <2>1 DEF Examined
  <2>3. Progress' /\ RefusedForAReason'
    BY <2>1, <2>2, <1>0 DEF Progress, RefusedForAReason
  <2> QED
    BY <1>0, <2>1, <2>2, <2>3, Undisturbed
<1> QED
  BY <1>1, <1>2, <1>3, <1>4, <1>5, <1>6, <1>7, <1>8 DEF Next, Thread

THEOREM Invariance == Spec => []IInv
BY InitIInv, NextIInv, PTL DEF Spec

-----------------------------------------------------------------------------
(* The recent requests are in the deque, which has at most Limit entries. *)
LEMMA BudgetFromDeque == IInv => WindowBudget
<1> SUFFICES ASSUME IInv, NEW c \in Clients
             PROVE  Cardinality({r \in Examined(c) : moment[r] > clock - Window}) <= Limit
  BY DEF WindowBudget
<1> USE DEF IInv
<1> DEFINE q == events[c]
           S == {r \in Examined(c) : moment[r] > clock - Window}
           T == {q[i] : i \in 1..Len(q)}
           f == [i \in 1..Len(q) |-> q[i]]
<1>1. Len(q) \in Nat /\ Len(q) <= Limit /\ Limit \in Nat
  BY BoundsAssumption DEF TypeOK
<1>2. f \in Surjection(1..Len(q), T)
  BY DEF Surjection
<1>3. IsFiniteSet(1..Len(q)) /\ Cardinality(1..Len(q)) = Len(q)
  BY <1>1, IndexCardinality
<1>4. IsFiniteSet(T) /\ Cardinality(T) <= Len(q)
  BY <1>2, <1>3, FS_Surjection
<1>5. S \in SUBSET T
  BY DEF Kept
<1>6. /\ Cardinality(S) <= Cardinality(T)
      /\ Cardinality(S) \in Nat /\ Cardinality(T) \in Nat
  BY <1>4, <1>5, FS_Subset, FS_CardinalityType
<1> HIDE DEF S, T, q
<1>7. Cardinality(S) <= Limit
  BY <1>1, <1>4, <1>6
<1> QED
  BY <1>7 DEF S

(* RateLimiter.allow keeps the budget, however its threads interleave. *)
THEOREM BudgetCorrectness == Spec => []WindowBudget
BY Invariance, BudgetFromDeque, PTL

(* And it refuses nobody without need. *)
THEOREM RefusalCorrectness == Spec => []RefusedForAReason
<1>1. IInv => RefusedForAReason
  BY DEF IInv
<1> QED
  BY <1>1, Invariance, PTL
=============================================================================
