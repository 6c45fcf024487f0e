-------------------------- MODULE HttpServerProofs --------------------------
(***************************************************************************)
(* Theorems about HttpServer, for any number of connections, threads and   *)
(* requests.                                                               *)
(***************************************************************************)
EXTENDS HttpServer, FiniteSetTheorems, TLAPS

\* The number of the request in hand: without it the write that answers it
\* could carry the number of no request.
InHandWasTaken ==
    \A c \in Conns :
        /\ front[c] \in {"received", "page"} => taken[c] > 0
        /\ stage[c] # "none" => taken[c] > 0
        /\ \A i \in DOMAIN queue : queue[i] = c => taken[c] > 0

\* A task that is queued adds itself to the queue and nothing else.
LEMMA Queued ==
    ASSUME NEW S, NEW q \in Seq(S), NEW t \in S
    PROVE  /\ Append(q, t) \in Seq(S)
           /\ \A i \in DOMAIN Append(q, t) :
                Append(q, t)[i] = t \/ \E j \in DOMAIN q : q[j] = Append(q, t)[i]
  <1>1. /\ Append(q, t) \in Seq(S) /\ DOMAIN Append(q, t) = 1 .. Len(q) + 1
        /\ \A i \in 1 .. Len(q) : Append(q, t)[i] = q[i]
        /\ Append(q, t)[Len(q) + 1] = t
    OBVIOUS
  <1>2. DOMAIN q = 1 .. Len(q) /\ Len(q) \in Nat
    OBVIOUS
  <1> QED
    BY <1>1, <1>2

TypeInv == TypeOK /\ InHandWasTaken

LEMMA TypeInvInit == Init => TypeInv
  <1> SUFFICES ASSUME Init PROVE TypeInv
    OBVIOUS
  <1> USE BoundsAssumption, TasksAssumption DEF Init
  <1>1. TypeOK
    BY DEF TypeOK, Nothing
  <1>2. InHandWasTaken
    BY DEF InHandWasTaken
  <1> QED
    BY <1>1, <1>2 DEF TypeInv

\* What the clients and time do.
LEMMA TypeInvOutside ==
    ASSUME TypeInv, NEW c \in Conns, Ask(c) \/ HangUp(c) \/ Deadline(c)
    PROVE  TypeInv'
  <1> USE BoundsAssumption DEF TypeInv, TypeOK, InHandWasTaken,
          clientVars, ioVars, makeVars, processVars
  <1>1. CASE Ask(c)
    <2>1. PICK load \in Loads : asks[c] < load[c]
      BY <1>1 DEF Ask
    <2>2. asks[c] + 1 \in 0 .. MaxRequests
      <3>1. load[c] \in 0 .. MaxRequests
        BY <2>1
      <3> QED
        BY <2>1, <3>1
    <2>3. asks' \in [Conns -> 0 .. MaxRequests]
      BY <1>1, <2>2 DEF Ask
    <2> QED
      BY <1>1, <2>3 DEF Ask
  <1>2. CASE HangUp(c)
    BY <1>2 DEF HangUp
  <1>3. CASE Deadline(c)
    BY <1>3 DEF Deadline
  <1> QED
    BY <1>1, <1>2, <1>3


\* What the listener and the ticker do.
LEMMA TypeInvListener ==
    ASSUME TypeInv, OnAcceptError \/ TickIsDue \/ RunNext \/ TickDone \/ Leave
    PROVE  TypeInv'
  <1> USE BoundsAssumption DEF clientVars, ioVars, makeVars, processVars
  <1>1. CASE OnAcceptError
    BY <1>1 DEF OnAcceptError, TypeInv, TypeOK, InHandWasTaken
  <1>2. CASE TickIsDue
    <2>0. queue \in Seq(Conns \cup {Ticker}) /\ queue' \in {queue, Append(queue, Ticker)}
      BY <1>2 DEF TickIsDue, TypeInv, TypeOK
    <2>1. queue' \in Seq(Conns \cup {Ticker})
      BY <2>0, Queued
    <2>2. \A i \in DOMAIN queue', d \in Conns :
            queue'[i] = d => \E j \in DOMAIN queue : queue[j] = d
      BY <2>0, Queued, TasksAssumption
    <2>8. TypeOK'
      BY <1>2, <2>1 DEF TickIsDue, TypeInv, TypeOK
    <2>9. InHandWasTaken'
      <3>1. UNCHANGED <<front, stage, taken>>
        BY <1>2 DEF TickIsDue, TypeInv, TypeOK
      <3> QED
        BY <2>2, <3>1 DEF InHandWasTaken, TypeInv, TypeOK
    <2> QED
      BY <2>8, <2>9 DEF TypeInv
  <1>3. CASE RunNext
    <2>1. /\ queue \in Seq(Conns \cup {Ticker}) /\ queue # <<>> /\ queue' = Tail(queue)
          /\ UNCHANGED <<front, taken>>
      BY <1>3 DEF RunNext, TypeInv, TypeOK
    <2>2. Head(queue) \in Conns \cup {Ticker} /\ queue' \in Seq(Conns \cup {Ticker})
      BY <2>1
    <2>3. Head(queue) = queue[1] /\ 1 \in DOMAIN queue
      BY <2>1
    <2>4. \A i \in DOMAIN queue' : i + 1 \in DOMAIN queue /\ queue'[i] = queue[i + 1]
      BY <2>1
    <2>5. stage' = stage \/ (Head(queue) \in Conns
                              /\ stage' = [stage EXCEPT ![Head(queue)] = "making"])
      BY <1>3, <2>2 DEF RunNext
    <2>8. TypeOK'
      <3>1. stage' \in [Conns -> {"none", "making", "typing", "coding", "sending"}]
        BY <2>5 DEF TypeInv, TypeOK
      <3> QED
        BY <1>3, <2>2, <3>1 DEF RunNext, TypeInv, TypeOK
    <2>9. InHandWasTaken'
      <3>1. \A c \in Conns : stage'[c] # "none" => stage[c] # "none" \/ c = Head(queue)
        BY <2>5 DEF TypeInv, TypeOK
      <3> QED
        BY <2>1, <2>3, <2>4, <3>1 DEF InHandWasTaken, TypeInv
    <2> QED
      BY <2>8, <2>9 DEF TypeInv
  <1>4. CASE TickDone
    BY <1>4 DEF TickDone, TypeInv, TypeOK, InHandWasTaken
  <1>5. CASE Leave
    <2>1. /\ front' \in [Conns -> {"none", "received", "inside", "leaving", "page", "reporting"}]
          /\ \A c \in Conns : front'[c] \in {"received", "page"} => front[c] \in {"received", "page"}
      BY <1>5 DEF Leave, TypeInv, TypeOK
    <2>2. TypeOK'
      BY <1>5, <2>1 DEF Leave, TypeInv, TypeOK
    <2>3. UNCHANGED <<taken, stage, queue>>
      BY <1>5 DEF Leave
    <2>4. InHandWasTaken'
      BY <2>1, <2>3 DEF TypeInv, InHandWasTaken
    <2> QED
      BY <2>2, <2>4 DEF TypeInv
  <1> QED
    BY <1>1, <1>2, <1>3, <1>4, <1>5

\* What the completion of an operation of a session does.
LEMMA TypeInvComplete ==
    ASSUME TypeInv, NEW c \in Conns, OnAccept(c) \/ OnRead(c) \/ OnReadEnd(c) \/ OnWrite(c) \/ OnWriteError(c)
    PROVE  TypeInv'
  <1> USE BoundsAssumption DEF clientVars, ioVars, makeVars, processVars
  <1>1. CASE OnAccept(c)
    <2>1. client' \in [Conns -> {"away", "connected", "gone", "closed"}]
      BY <1>1 DEF OnAccept, TypeInv, TypeOK
    <2>2. reads' \in [Conns -> Nat] /\ expired' \in [Conns -> BOOLEAN]
      BY <1>1 DEF OnAccept, Read, TypeInv, TypeOK
    <2>3. UNCHANGED <<accepting, asks, answers, writes, taken, front, queue, running,
                      stage, response, mainRuns, process>>
      BY <1>1 DEF OnAccept
    <2>4. TypeOK'
      BY <2>1, <2>2, <2>3 DEF TypeInv, TypeOK
    <2>5. InHandWasTaken'
      BY <2>3 DEF TypeInv, InHandWasTaken
    <2> QED
      BY <2>4, <2>5 DEF TypeInv
  <1>2. CASE OnRead(c)
    <2>1. taken[c] + 1 \in 0 .. MaxRequests /\ reads[c] - 1 \in Nat
      BY <1>2 DEF OnRead, TypeInv, TypeOK
    <2>2. taken' \in [Conns -> 0 .. MaxRequests] /\ reads' \in [Conns -> Nat]
      BY <1>2, <2>1 DEF OnRead, TypeInv, TypeOK
    <2>3. front' \in [Conns -> {"none", "received", "inside", "leaving", "page", "reporting"}]
      BY <1>2 DEF OnRead, TypeInv, TypeOK
    <2>8. TypeOK'
      BY <1>2, <2>2, <2>3 DEF OnRead, TypeInv, TypeOK
    <2>9. InHandWasTaken'
      <3>1. UNCHANGED <<stage, queue>> /\ taken'[c] = taken[c] + 1 /\ taken[c] \in Nat
        BY <1>2 DEF OnRead, TypeInv, TypeOK
      <3>2. \A d \in Conns \ {c} : UNCHANGED <<front[d], taken[d]>>
        BY <1>2 DEF OnRead, TypeInv, TypeOK
      <3> QED
        BY <3>1, <3>2 DEF TypeInv, InHandWasTaken
    <2> QED
      BY <2>8, <2>9 DEF TypeInv
  <1>3. CASE OnReadEnd(c)
    <2>1. reads[c] - 1 \in Nat
      BY <1>3 DEF OnReadEnd, TypeInv, TypeOK
    <2>2. reads' \in [Conns -> Nat]
      BY <1>3, <2>1 DEF OnReadEnd, TypeInv, TypeOK
    <2>3. client' \in [Conns -> {"away", "connected", "gone", "closed"}]
      BY <1>3 DEF OnReadEnd, Close, Drop, TypeInv, TypeOK
    <2>4. mainRuns' \in BOOLEAN /\ process' \in {"up", "down"}
      BY <1>3 DEF OnReadEnd, Close, Throw, TypeInv, TypeOK
    <2>8. TypeOK'
      BY <1>3, <2>2, <2>3, <2>4 DEF OnReadEnd, TypeInv, TypeOK
    <2>9. InHandWasTaken'
      BY <1>3 DEF OnReadEnd, TypeInv, InHandWasTaken, TypeOK
    <2> QED
      BY <2>8, <2>9 DEF TypeInv
  <1>4. CASE OnWrite(c)
    <2>1. Head(writes[c]) \in 1 .. MaxRequests /\ Tail(writes[c]) \in Seq(1 .. MaxRequests)
      BY <1>4 DEF OnWrite, TypeInv, TypeOK
    <2>2. writes' \in [Conns -> Seq(1 .. MaxRequests)]
      BY <1>4, <2>1 DEF OnWrite, TypeInv, TypeOK
    <2>3. answers' \in [Conns -> Seq(1 .. MaxRequests)]
      BY <1>4, <2>1 DEF OnWrite, TypeInv, TypeOK
    <2>4. client' \in [Conns -> {"away", "connected", "gone", "closed"}]
      BY <1>4 DEF OnWrite, Close, Drop, TypeInv, TypeOK
    <2>5. reads' \in [Conns -> Nat] /\ expired' \in [Conns -> BOOLEAN]
      <3>1. reads \in [Conns -> Nat] /\ expired \in [Conns -> BOOLEAN]
        BY DEF TypeInv, TypeOK
      <3>2. Read(c) \/ UNCHANGED <<reads, expired>>
        BY <1>4 DEF OnWrite
      <3>3. CASE Read(c)
        BY <3>1, <3>3, SMT DEF Read
      <3> QED
        BY <3>1, <3>2, <3>3
    <2>6. response' \in [Conns -> Responses \cup {Nothing}]
      BY <1>4 DEF OnWrite, Forget, TypeInv, TypeOK
    <2>7. mainRuns' \in BOOLEAN /\ process' \in {"up", "down"}
      BY <1>4 DEF OnWrite, Close, Throw, TypeInv, TypeOK
    <2>8. TypeOK'
      BY <1>4, <2>2, <2>3, <2>4, <2>5, <2>6, <2>7 DEF OnWrite, TypeInv, TypeOK
    <2>9. InHandWasTaken'
      BY <1>4 DEF OnWrite, TypeInv, InHandWasTaken, TypeOK
    <2> QED
      BY <2>8, <2>9 DEF TypeInv
  <1>5. CASE OnWriteError(c)
    <2>1. Tail(writes[c]) \in Seq(1 .. MaxRequests)
      BY <1>5 DEF OnWriteError, TypeInv, TypeOK
    <2>2. writes' \in [Conns -> Seq(1 .. MaxRequests)]
      BY <1>5, <2>1 DEF OnWriteError, TypeInv, TypeOK
    <2>3. client' \in [Conns -> {"away", "connected", "gone", "closed"}]
      BY <1>5 DEF OnWriteError, Drop, TypeInv, TypeOK
    <2>4. response' \in [Conns -> Responses \cup {Nothing}]
      BY <1>5 DEF OnWriteError, Forget, TypeInv, TypeOK
    <2>8. TypeOK'
      BY <1>5, <2>2, <2>3, <2>4 DEF OnWriteError, TypeInv, TypeOK
    <2>9. InHandWasTaken'
      BY <1>5 DEF OnWriteError, TypeInv, InHandWasTaken, TypeOK
    <2> QED
      BY <2>8, <2>9 DEF TypeInv
  <1> QED
    BY <1>1, <1>2, <1>3, <1>4, <1>5

\* What the routing of a request does.
LEMMA TypeInvRoute ==
    ASSUME TypeInv, NEW c \in Conns,
           EndpointFails(c) \/ Favicon(c) \/ DispatchApi(c) \/ FileRequest(c)
    PROVE  TypeInv'
  <1> USE BoundsAssumption DEF clientVars, ioVars, makeVars, processVars
  <1>1. CASE Favicon(c)
    BY <1>1 DEF Favicon, Drop, TypeInv, TypeOK, InHandWasTaken
  <1>2. CASE DispatchApi(c)
    <2>0. queue \in Seq(Conns \cup {Ticker}) /\ queue' \in {queue, Append(queue, c)}
      BY <1>2 DEF DispatchApi, TypeInv, TypeOK
    <2>1. queue' \in Seq(Conns \cup {Ticker})
      BY <2>0, Queued
    <2>2. \A i \in DOMAIN queue', d \in Conns :
            queue'[i] = d => d = c \/ \E j \in DOMAIN queue : queue[j] = d
      BY <2>0, Queued
    <2>3. /\ front' \in [Conns -> {"none", "received", "inside", "leaving", "page", "reporting"}]
          /\ stage' \in [Conns -> {"none", "making", "typing", "coding", "sending"}]
          /\ running' \in Conns \cup {Ticker, Leaving, Nobody}
      BY <1>2 DEF DispatchApi, TypeInv, TypeOK
    <2>4. UNCHANGED <<accepting, clientVars, ioVars, response, processVars>>
      BY <1>2 DEF DispatchApi, TypeInv, TypeOK
    <2>8. TypeOK'
      BY <2>1, <2>3, <2>4 DEF TypeInv, TypeOK
    <2>9. InHandWasTaken'
      <3>1. taken[c] > 0 /\ taken' = taken
        BY <1>2 DEF DispatchApi, TypeInv, TypeOK, InHandWasTaken
      <3>2. \A d \in Conns \ {c} : front'[d] = front[d] /\ stage'[d] = stage[d]
        BY <1>2 DEF DispatchApi, TypeInv, TypeOK
      <3>3. \A d \in Conns :
              /\ front'[d] \in {"received", "page"} => taken'[d] > 0
              /\ stage'[d] # "none" => taken'[d] > 0
        BY <3>1, <3>2 DEF TypeInv, InHandWasTaken
      <3>4. \A d \in Conns : \A i \in DOMAIN queue' : queue'[i] = d => taken'[d] > 0
        BY <2>2, <3>1 DEF TypeInv, InHandWasTaken
      <3> QED
        BY <3>3, <3>4 DEF InHandWasTaken
    <2> QED
      BY <2>8, <2>9 DEF TypeInv
  <1>3. CASE FileRequest(c)
    BY <1>3 DEF FileRequest, TypeInv, TypeOK, InHandWasTaken
  <1>4. CASE EndpointFails(c)
    BY <1>4 DEF EndpointFails, Throw, TypeInv, TypeOK, InHandWasTaken
  <1> QED
    BY <1>1, <1>2, <1>3, <1>4

\* What the making of a response does.
LEMMA TypeInvMake ==
    ASSUME TypeInv, NEW c \in Conns,
           \/ Make(c) \/ SetContentType(c) \/ SetStatus(c)
           \/ Send(c) \/ SendFails(c) \/ ReportingFails(c) \/ Report(c)
    PROVE  TypeInv'
  <1> USE BoundsAssumption DEF clientVars, ioVars, makeVars, processVars
  <1>1. CASE Make(c)
    BY <1>1 DEF Make, Responses, TypeInv, TypeOK, InHandWasTaken
  <1>2. CASE SetContentType(c)
    BY <1>2 DEF SetContentType, TypeInv, TypeOK, InHandWasTaken
  <1>3. CASE SetStatus(c)
    BY <1>3 DEF SetStatus, TypeInv, TypeOK, InHandWasTaken
  <1>4. CASE Send(c)
    <2>0. stage[c] # "none"
      BY <1>4 DEF Send, TypeInv, TypeOK
    <2>1. taken[c] \in 1 .. MaxRequests
      BY <2>0 DEF TypeInv, TypeOK, InHandWasTaken
    <2>2. Append(writes[c], taken[c]) \in Seq(1 .. MaxRequests)
      BY <2>1 DEF TypeInv, TypeOK
    <2>3. writes' \in [Conns -> Seq(1 .. MaxRequests)]
      BY <1>4, <2>2 DEF Send, TypeInv, TypeOK
    <2>4. /\ front' \in [Conns -> {"none", "received", "inside", "leaving", "page", "reporting"}]
          /\ stage' \in [Conns -> {"none", "making", "typing", "coding", "sending"}]
      BY <1>4 DEF Send, TypeInv, TypeOK
    <2>5. running' \in Conns \cup {Ticker, Leaving, Nobody} /\ process' \in {"up", "down"}
      BY <1>4 DEF Send, TypeInv, TypeOK
    <2>8. TypeOK'
      BY <1>4, <2>3, <2>4, <2>5 DEF Send, TypeInv, TypeOK
    <2>9. InHandWasTaken'
      BY <1>4 DEF Send, TypeInv, InHandWasTaken, TypeOK
    <2> QED
      BY <2>8, <2>9 DEF TypeInv
  <1>5. CASE Report(c)
    BY <1>5 DEF Report, TypeInv, TypeOK, InHandWasTaken
  <1>6. CASE SendFails(c)
    BY <1>6 DEF SendFails, Responses, TypeInv, TypeOK, InHandWasTaken
  <1>7. CASE ReportingFails(c)
    <2>1. /\ front' \in [Conns -> {"none", "received", "inside", "leaving", "page", "reporting"}]
          /\ stage' \in [Conns -> {"none", "making", "typing", "coding", "sending"}]
          /\ client' \in [Conns -> {"away", "connected", "gone", "closed"}]
      BY <1>7 DEF ReportingFails, Drop, TypeInv, TypeOK
    <2>2. /\ running' \in Conns \cup {Ticker, Leaving, Nobody}
          /\ process' \in {"up", "down"} /\ mainRuns' \in BOOLEAN
      BY <1>7 DEF ReportingFails, Throw, TypeInv, TypeOK
    <2>8. TypeOK'
      BY <1>7, <2>1, <2>2 DEF ReportingFails, TypeInv, TypeOK
    <2>9. InHandWasTaken'
      BY <1>7 DEF ReportingFails, TypeInv, InHandWasTaken, TypeOK
    <2> QED
      BY <2>8, <2>9 DEF TypeInv
  <1> QED
    BY <1>1, <1>2, <1>3, <1>4, <1>5, <1>6, <1>7

LEMMA TypeInvNext == TypeInv /\ [Next]_vars => TypeInv'
  <1> SUFFICES ASSUME TypeInv, [Next]_vars PROVE TypeInv'
    OBVIOUS
  <1>1. CASE ServerStep
    <2>1. CASE OnAcceptError \/ TickIsDue \/ RunNext \/ TickDone \/ Leave
      BY <2>1, TypeInvListener
    <2>2. CASE \E c \in Conns : Ask(c) \/ HangUp(c) \/ Deadline(c)
      BY <2>2, TypeInvOutside
    <2>3. CASE \E c \in Conns : OnAccept(c) \/ Complete(c)
      BY <2>3, TypeInvComplete DEF Complete
    <2>4. CASE \E c \in Conns : Proceed(c)
      BY <2>4, TypeInvRoute, TypeInvMake DEF Proceed
    <2> QED
      BY <1>1, <2>1, <2>2, <2>3, <2>4 DEF ServerStep
  <1>2. CASE UNCHANGED vars
    BY <1>2 DEF TypeInv, TypeOK, InHandWasTaken,
       vars, clientVars, ioVars, makeVars, processVars
  <1> QED
    BY <1>1, <1>2 DEF Next, Ended

\* Every answer that is written is to a request that was read.
THEOREM TypeCorrect == Spec => []TypeOK
  <1>1. TypeInv => TypeOK
    BY DEF TypeInv
  <1> QED
    BY <1>1, TypeInvInit, TypeInvNext, PTL DEF Spec
-----------------------------------------------------------------------------
\* Mutual exclusion is inductive with the types alone: a handler of the API is
\* in the strand from its first step to its last.
LEMMA ExclusionInit == Init => GameTouchedByOne
  BY DEF Init, GameTouchedByOne

LEMMA ExclusionNext == TypeInv /\ GameTouchedByOne /\ [Next]_vars => GameTouchedByOne'
  <1> SUFFICES ASSUME TypeInv, GameTouchedByOne, [Next]_vars PROVE GameTouchedByOne'
    OBVIOUS
  <1> USE DEF GameTouchedByOne
  <1>1. /\ running \in Conns \cup {Ticker, Leaving, Nobody}
        /\ front \in [Conns -> {"none", "received", "inside", "leaving", "page", "reporting"}]
        /\ stage \in [Conns -> {"none", "making", "typing", "coding", "sending"}]
        /\ queue \in Seq(Conns \cup {Ticker})
    BY DEF TypeInv, TypeOK
  <1>2. CASE UNCHANGED <<front, stage, running>>
    BY <1>2
  <1>3. CASE TickIsDue
    <2>1. UNCHANGED <<front, stage>> /\ running' \in {running, Ticker}
      BY <1>3 DEF TickIsDue, makeVars
    <2>2. running' # running => running = Nobody
      BY <1>3 DEF TickIsDue, StrandFree
    <2> QED
      BY <2>1, <2>2, TasksAssumption
  <1>4. CASE RunNext
    <2>1. running = Nobody /\ UNCHANGED front /\ running' \in Conns \cup {Ticker}
      BY <1>1, <1>4 DEF RunNext
    <2>2. \A d \in Conns : stage'[d] = stage[d] \/ running' = d
      BY <1>1, <1>4 DEF RunNext
    <2> QED
      BY <2>1, <2>2, TasksAssumption
  <1>5. CASE TickDone
    BY <1>5, TasksAssumption DEF TickDone, makeVars
  <1>6. ASSUME NEW c \in Conns, OnRead(c) PROVE GameTouchedByOne'
    BY <1>1, <1>6 DEF OnRead, makeVars
  <1>7. ASSUME NEW c \in Conns, Favicon(c) \/ EndpointFails(c) PROVE GameTouchedByOne'
    BY <1>1, <1>7 DEF Favicon, EndpointFails, makeVars
  <1>8. ASSUME NEW c \in Conns, DispatchApi(c) PROVE GameTouchedByOne'
    <2>1. CASE UNCHANGED <<stage, running>>
      BY <1>1, <1>8, <2>1 DEF DispatchApi
    <2>2. CASE running = Nobody /\ running' = c
      BY <1>1, <1>8, <2>2, TasksAssumption DEF DispatchApi
    <2> QED
      BY <1>8, <2>1, <2>2 DEF DispatchApi, StrandFree
  <1>9. ASSUME NEW c \in Conns, FileRequest(c) PROVE GameTouchedByOne'
    BY <1>1, <1>9 DEF FileRequest
  <1>10. ASSUME NEW c \in Conns, Make(c) \/ SetContentType(c) \/ SetStatus(c) \/ SendFails(c)
         PROVE  GameTouchedByOne'
    BY <1>1, <1>10 DEF Make, SetContentType, SetStatus, SendFails
  <1>11. ASSUME NEW c \in Conns, Send(c) \/ ReportingFails(c) PROVE GameTouchedByOne'
    <2>1. stage'[c] = "none" /\ \A d \in Conns \ {c} : UNCHANGED <<stage[d], front[d]>>
      BY <1>1, <1>11 DEF Send, ReportingFails
    <2>2. running # c => running' = running
      BY <1>11 DEF Send, ReportingFails, ByApi
    <2> QED
      BY <2>1, <2>2
  <1>12. ASSUME NEW c \in Conns, Report(c) PROVE GameTouchedByOne'
    BY <1>1, <1>12 DEF Report, makeVars
  <1>13. ASSUME NEW c \in Conns,
                Ask(c) \/ HangUp(c) \/ Deadline(c) \/ OnAccept(c) \/ OnReadEnd(c)
                  \/ OnWrite(c) \/ OnWriteError(c)
         PROVE  UNCHANGED <<front, stage, running>>
    BY <1>13 DEF Ask, HangUp, Deadline, OnAccept, OnReadEnd, OnWrite, OnWriteError, makeVars
  <1>14. CASE OnAcceptError \/ Ended
    BY <1>2, <1>14 DEF OnAcceptError, Ended, vars, makeVars
  <1>15. CASE UNCHANGED vars
    BY <1>2, <1>15 DEF vars, makeVars
  <1>16. CASE Leave
    <2>1. UNCHANGED stage /\ running = Leaving /\ \A c \in Conns : front'[c] = "page" <=> front[c] = "page"
      BY <1>1, <1>16 DEF Leave, makeVars
    <2> QED
      BY <2>1, TasksAssumption
  <1> HIDE DEF GameTouchedByOne
  <1> QED
    BY <1>2, <1>3, <1>4, <1>5, <1>6, <1>7, <1>8, <1>9, <1>10, <1>11, <1>12, <1>13,
       <1>14, <1>15, <1>16 DEF Next, ServerStep, Complete, Proceed

\* The game has no lock and needs none: handlers of the API and ticks exclude
\* each other (request_handler.h:125-126, 57).
THEOREM GameIsTouchedByOne == Spec => []GameTouchedByOne
  BY ExclusionInit, ExclusionNext, TypeInvInit, TypeInvNext, PTL DEF Spec
-----------------------------------------------------------------------------
(* One thing at a time.  A connection is counted where it waits: in its    *)
(* operations, in the queue of the strand, in the strand, on its thread.   *)

Times(q, t) == Cardinality({i \in DOMAIN q : q[i] = t})

LEMMA TimesIsNumber ==
    ASSUME NEW S, NEW q \in Seq(S), NEW t
    PROVE  Times(q, t) \in Nat /\ IsFiniteSet({i \in DOMAIN q : q[i] = t})
  <1>1. IsFiniteSet(1 .. Len(q)) /\ DOMAIN q = 1 .. Len(q)
    BY FS_Interval
  <1>2. {i \in DOMAIN q : q[i] = t} \in SUBSET (1 .. Len(q))
    BY <1>1
  <1> QED
    BY <1>1, <1>2, FS_Subset, FS_CardinalityType DEF Times

\* A task that is queued is in the queue once more.
LEMMA TimesOfAppend ==
    ASSUME NEW S, NEW q \in Seq(S), NEW u \in S, NEW t
    PROVE  Times(Append(q, u), t) = Times(q, t) + (IF u = t THEN 1 ELSE 0)
  <1> DEFINE P == {i \in DOMAIN q : q[i] = t}
             R == {i \in DOMAIN Append(q, u) : Append(q, u)[i] = t}
  <1>0. Times(q, t) = Cardinality(P) /\ Times(Append(q, u), t) = Cardinality(R)
    BY DEF Times
  <1>1. /\ DOMAIN Append(q, u) = 1 .. Len(q) + 1 /\ DOMAIN q = 1 .. Len(q) /\ Len(q) \in Nat
        /\ \A i \in 1 .. Len(q) : Append(q, u)[i] = q[i]
        /\ Append(q, u)[Len(q) + 1] = u
    OBVIOUS
  <1>2. IsFiniteSet(P) /\ Cardinality(P) \in Nat /\ Len(q) + 1 \notin P
    <2>1. IsFiniteSet(P)
      BY TimesIsNumber
    <2>2. Len(q) + 1 \notin P
      BY <1>1
    <2> QED
      BY <2>1, <2>2, FS_CardinalityType
  <1>3. CASE u = t
    <2>1. R = P \cup {Len(q) + 1}
      BY <1>1, <1>3
    <2>2. Cardinality(R) = Cardinality(P) + 1
      BY <1>2, <2>1, FS_AddElement
    <2> HIDE DEF P, R
    <2> QED
      BY <1>0, <1>3, <2>2
  <1>4. CASE u # t
    <2>1. R = P
      BY <1>1, <1>4
    <2> HIDE DEF P, R
    <2> QED
      BY <1>0, <1>2, <1>4, <2>1
  <1> QED
    BY <1>3, <1>4

\* The task that leaves the queue is in it once less.
LEMMA TimesOfTail ==
    ASSUME NEW S, NEW q \in Seq(S), q # <<>>, NEW t
    PROVE  Times(q, t) = Times(Tail(q), t) + (IF Head(q) = t THEN 1 ELSE 0)
  <1> DEFINE P == {i \in DOMAIN Tail(q) : Tail(q)[i] = t}
             R == {i \in DOMAIN q : q[i] = t}
             Shifted == R \ {1}
             f == [i \in P |-> i + 1]
  <1>0. Times(Tail(q), t) = Cardinality(P) /\ Times(q, t) = Cardinality(R)
    BY DEF Times
  <1>1. /\ DOMAIN q = 1 .. Len(q) /\ Len(q) \in Nat \ {0}
        /\ Tail(q) \in Seq(S) /\ DOMAIN Tail(q) = 1 .. Len(q) - 1
        /\ \A i \in 1 .. Len(q) - 1 : Tail(q)[i] = q[i + 1]
        /\ Head(q) = q[1]
    OBVIOUS
  <1>2. /\ IsFiniteSet(P) /\ Cardinality(P) \in Nat
        /\ IsFiniteSet(R) /\ Cardinality(R) \in Nat
    <2>1. IsFiniteSet(P)
      BY <1>1, TimesIsNumber
    <2>2. IsFiniteSet(R)
      BY TimesIsNumber
    <2> QED
      BY <2>1, <2>2, FS_CardinalityType
  <1>3. Cardinality(Shifted) = Cardinality(P)
    <2>1. f \in [P -> Shifted]
      BY <1>1
    <2>2. \A a, b \in P : f[a] = f[b] => a = b
      BY <1>1
    <2>3. \A k \in Shifted : \E a \in P : f[a] = k
      <3>1. SUFFICES ASSUME NEW k \in Shifted PROVE k - 1 \in P /\ f[k - 1] = k
        OBVIOUS
      <3> QED
        BY <1>1, <3>1
    <2>4. f \in Bijection(P, Shifted)
      BY <2>1, <2>2, <2>3 DEF Bijection, Injection, Surjection, IsInjective
    <2>5. ExistsBijection(P, Shifted)
      BY <2>4 DEF ExistsBijection
    <2> HIDE DEF P, Shifted
    <2> QED
      BY <1>2, <2>5, FS_Bijection
  <1>4. Cardinality(Shifted) = IF 1 \in R THEN Cardinality(R) - 1 ELSE Cardinality(R)
    BY <1>2, FS_RemoveElement
  <1>5. 1 \in R <=> Head(q) = t
    BY <1>1
  <1> HIDE DEF P, R, Shifted
  <1> QED
    BY <1>0, <1>2, <1>3, <1>4, <1>5

\* What a connection is waiting for, in the words of OneThingAtATime.
Pending(c) == reads[c] + Len(writes[c]) + InHand(c)

Settled(c) ==
    /\ client[c] = "connected" => Pending(c) = 1
    /\ client[c] = "gone" => Pending(c) =< 1
    /\ client[c] \in {"away", "closed"} => Pending(c) = 0

AllSettled == process = "up" => \A c \in Conns : Settled(c)

LEMMA OneThingIsSettled == AllSettled <=> OneThingAtATime
  BY DEF AllSettled, Settled, Pending, OneThingAtATime

\* The types that the counting needs.
CountTypes ==
    /\ client \in [Conns -> {"away", "connected", "gone", "closed"}]
    /\ reads \in [Conns -> Nat]
    /\ writes \in [Conns -> Seq(1 .. MaxRequests)]
    /\ front \in [Conns -> {"none", "received", "inside", "leaving", "page", "reporting"}]
    /\ queue \in Seq(Conns \cup {Ticker})
    /\ stage \in [Conns -> {"none", "making", "typing", "coding", "sending"}]

LEMMA WaitingIsNumber == CountTypes => \A c \in Conns : Waiting(c) = Times(queue, c) /\ Waiting(c) \in Nat
  <1> SUFFICES ASSUME CountTypes, NEW c \in Conns
               PROVE  Waiting(c) = Times(queue, c) /\ Waiting(c) \in Nat
    OBVIOUS
  <1>1. Waiting(c) = Times(queue, c)
    BY DEF Waiting, Times
  <1>2. Times(queue, c) \in Nat
    BY TimesIsNumber DEF CountTypes
  <1> QED
    BY <1>1, <1>2

LEMMA WaitingStays ==
    ASSUME queue' = queue
    PROVE  \A c \in Conns : Waiting(c)' = Waiting(c)
  BY DEF Waiting

\* A step that leaves the operations of a connection, the strand and the thread
\* that has its request in hand leaves what it waits for.
LEMMA PendingStays ==
    ASSUME NEW c \in Conns, queue' = queue, reads'[c] = reads[c], writes'[c] = writes[c],
           running' = c <=> running = c,
           front'[c] \in {"received", "page"} <=> front[c] \in {"received", "page"}
    PROVE  Pending(c)' = Pending(c)
  <1>1. Waiting(c)' = Waiting(c)
    BY WaitingStays
  <1> QED
    BY <1>1 DEF Pending, InHand

\* The steps that leave what every connection waits for.
LEMMA SettledStays ==
    ASSUME AllSettled, process = "up", \A c \in Conns : Pending(c)' = Pending(c),
           \/ client' = client
           \/ \E c \in Conns : client[c] = "connected" /\ client' = [client EXCEPT ![c] = "gone"],
           CountTypes
    PROVE  AllSettled'
  BY DEF AllSettled, Settled, CountTypes

\* The steps that change what one connection waits for.
LEMMA SettledChanges ==
    ASSUME AllSettled, process = "up", NEW c \in Conns,
           \A d \in Conns \ {c} : Pending(d)' = Pending(d) /\ client'[d] = client[d],
           Settled(c)'
    PROVE  AllSettled'
  BY DEF AllSettled, Settled

\* Requests, hang-ups, deadlines, and what a thread does before it sends.
LEMMA SettledQuiet ==
    ASSUME CountTypes, AllSettled, process = "up",
           \/ OnAcceptError \/ TickDone \/ Leave
           \/ \E c \in Conns : \/ Ask(c) \/ HangUp(c) \/ Deadline(c)
                               \/ Make(c) \/ SetContentType(c) \/ SetStatus(c)
                               \/ SendFails(c) \/ Report(c)
    PROVE  AllSettled'
  <1> USE DEF clientVars, ioVars, makeVars, processVars
  <1>1. queue' = queue /\ reads' = reads /\ writes' = writes
    BY DEF OnAcceptError, TickDone, Leave, Ask, HangUp, Deadline, Make, SetContentType, SetStatus, SendFails, Report
  <1>2. \A c \in Conns : running' = c <=> running = c
    BY TasksAssumption DEF OnAcceptError, TickDone, Leave, Ask, HangUp, Deadline, Make, SetContentType, SetStatus, SendFails, Report
  <1>3. \A c \in Conns : front'[c] \in {"received", "page"} <=> front[c] \in {"received", "page"}
    <2>1. CASE \E c \in Conns : Report(c)
      BY <2>1 DEF Report, CountTypes
    <2>2. CASE Leave
      BY <2>2 DEF Leave, CountTypes
    <2>3. CASE front' = front
      BY <2>3
    <2> QED
      BY <2>1, <2>2, <2>3 DEF OnAcceptError, TickDone, Ask, HangUp, Deadline, Make, SetContentType,
                         SetStatus, SendFails
  <1>4. \A c \in Conns : Pending(c)' = Pending(c)
    BY <1>1, <1>2, <1>3, PendingStays
  <1>5. \/ client' = client
        \/ \E c \in Conns : client[c] = "connected" /\ client' = [client EXCEPT ![c] = "gone"]
    BY DEF OnAcceptError, TickDone, Leave, Ask, HangUp, Deadline, Make, SetContentType, SetStatus, SendFails, Report
  <1> QED
    BY <1>4, <1>5, SettledStays

\* The listener and the completions of operations leave the strand alone.
LEMMA SettledOperations ==
    ASSUME CountTypes, AllSettled, process = "up", NEW c \in Conns,
           OnAccept(c) \/ OnRead(c) \/ OnReadEnd(c) \/ OnWrite(c) \/ OnWriteError(c)
    PROVE  AllSettled'
  <1> USE DEF clientVars, ioVars, makeVars, processVars
  <1>1. queue' = queue /\ running' = running
    BY DEF OnAccept, OnRead, OnReadEnd, OnWrite, OnWriteError
  <1>2. \A d \in Conns \ {c} :
          /\ reads'[d] = reads[d] /\ writes'[d] = writes[d]
          /\ front'[d] = front[d] /\ client'[d] = client[d]
    BY DEF OnAccept, OnRead, OnReadEnd, OnWrite, OnWriteError, Read, Drop, Close, Forget, CountTypes
  <1>3. \A d \in Conns \ {c} : Pending(d)' = Pending(d)
    BY <1>1, <1>2, PendingStays
  <1>4. Waiting(c) \in Nat /\ Waiting(c)' = Waiting(c) /\ Settled(c)
    BY <1>1, WaitingIsNumber, WaitingStays DEF AllSettled
  <1>5. /\ reads[c] \in Nat /\ Len(writes[c]) \in Nat
        /\ writes[c] # <<>> => Len(writes[c]) > 0 /\ Len(Tail(writes[c])) = Len(writes[c]) - 1
        /\ client[c] \in {"away", "connected", "gone", "closed"}
    BY DEF CountTypes
  <1>6. InHand(c) \in Nat
    BY <1>4 DEF InHand
  <1>7. front'[c] = front[c] => InHand(c)' = InHand(c)
    BY <1>1, <1>4 DEF InHand
  <1>8. front[c] = "none" /\ front'[c] = "received" => InHand(c)' = InHand(c) + 1
    BY <1>1, <1>4 DEF InHand
  <1> USE DEF Settled, Pending
  <1>9. Settled(c)'
    <2>1. CASE OnAccept(c)
      <3>1. /\ reads'[c] = reads[c] + 1 /\ writes' = writes /\ front' = front
            /\ client[c] = "away" /\ client'[c] = "connected"
        BY <2>1 DEF OnAccept, Read, CountTypes
      <3>2. Pending(c) = 0
        BY <1>4, <3>1
      <3>3. Pending(c)' = Pending(c) + 1
        BY <1>5, <1>6, <1>7, <3>1
      <3> QED
        BY <3>1, <3>2, <3>3
    <2>2. CASE OnRead(c)
      <3>1. /\ reads[c] > 0 /\ reads'[c] = reads[c] - 1 /\ writes' = writes /\ client' = client
            /\ front[c] = "none" /\ front'[c] = "received"
        BY <2>2 DEF OnRead, CountTypes
      <3>2. Pending(c)' = Pending(c)
        <4> DEFINE r == reads[c]  w == Len(writes[c])  h == InHand(c)
        <4>1. Pending(c) = r + w + h /\ Pending(c)' = reads'[c] + w + (h + 1)
          BY <1>8, <3>1
        <4>2. r \in Nat /\ w \in Nat /\ h \in Nat /\ r > 0 /\ reads'[c] = r - 1
          BY <1>5, <1>6, <3>1
        <4> HIDE DEF r, w, h, Pending
        <4> QED
          BY <4>1, <4>2
      <3> HIDE DEF Pending
      <3> QED
        BY <1>4, <3>1, <3>2
    <2>3. CASE OnReadEnd(c)
      <3>1. /\ reads[c] > 0 /\ reads'[c] = reads[c] - 1 /\ writes' = writes /\ front' = front
            /\ client'[c] = IF client[c] = "connected" THEN "closed" ELSE client[c]
        BY <2>3 DEF OnReadEnd, Close, Drop, CountTypes
      <3>2. Pending(c) = Pending(c)' + 1 /\ Pending(c)' \in Nat
        <4> DEFINE r == reads[c]  w == Len(writes[c])  h == InHand(c)
        <4>1. Pending(c) = r + w + h /\ Pending(c)' = reads'[c] + w + h
          BY <1>7, <3>1
        <4>2. r \in Nat /\ w \in Nat /\ h \in Nat /\ r > 0 /\ reads'[c] = r - 1
          BY <1>5, <1>6, <3>1
        <4> HIDE DEF r, w, h, Pending
        <4> QED
          BY <4>1, <4>2
      <3> HIDE DEF Pending
      <3> QED
        BY <1>4, <1>5, <3>1, <3>2
    <2>4. CASE OnWrite(c)
      <3>1. /\ writes[c] # <<>> /\ writes'[c] = Tail(writes[c]) /\ front' = front
            /\ \/ reads'[c] = reads[c] + 1 /\ client' = client
               \/ /\ reads' = reads
                  /\ client'[c] = IF client[c] = "connected" THEN "closed" ELSE client[c]
        BY <2>4 DEF OnWrite, Close, Drop, Read, CountTypes
      <3>2. \/ Pending(c)' = Pending(c) /\ client' = client
            \/ /\ Pending(c) = Pending(c)' + 1 /\ Pending(c)' \in Nat
               /\ client'[c] = IF client[c] = "connected" THEN "closed" ELSE client[c]
        <4> DEFINE r == reads[c]  w == Len(writes[c])  h == InHand(c)
        <4>1. Pending(c) = r + w + h /\ Pending(c)' = reads'[c] + Len(writes'[c]) + h
          BY <1>7, <3>1
        <4>2. /\ r \in Nat /\ w \in Nat /\ h \in Nat /\ w > 0 /\ Len(writes'[c]) = w - 1
              /\ \/ reads'[c] = r + 1 /\ client' = client
                 \/ /\ reads'[c] = r
                    /\ client'[c] = IF client[c] = "connected" THEN "closed" ELSE client[c]
          BY <1>5, <1>6, <3>1
        <4> HIDE DEF r, w, h, Pending
        <4> QED
          BY <4>1, <4>2
      <3> HIDE DEF Pending
      <3> QED
        BY <1>4, <1>5, <3>2
    <2>5. CASE OnWriteError(c)
      <3>1. /\ writes[c] # <<>> /\ writes'[c] = Tail(writes[c]) /\ front' = front /\ reads' = reads
            /\ client'[c] = IF client[c] = "connected" THEN "closed" ELSE client[c]
        BY <2>5 DEF OnWriteError, Drop, CountTypes
      <3>2. Pending(c) = Pending(c)' + 1 /\ Pending(c)' \in Nat
        <4> DEFINE r == reads[c]  w == Len(writes[c])  h == InHand(c)
        <4>1. Pending(c) = r + w + h /\ Pending(c)' = r + Len(writes'[c]) + h
          BY <1>7, <3>1
        <4>2. r \in Nat /\ w \in Nat /\ h \in Nat /\ w > 0 /\ Len(writes'[c]) = w - 1
          BY <1>5, <1>6, <3>1
        <4> HIDE DEF r, w, h, Pending
        <4> QED
          BY <4>1, <4>2
      <3> HIDE DEF Pending
      <3> QED
        BY <1>4, <1>5, <3>1, <3>2
    <2> QED
      BY <2>1, <2>2, <2>3, <2>4, <2>5
  <1> QED
    BY <1>2, <1>3, <1>9, SettledChanges

\* What is in the queue, in the strand and on the threads, before and after a
\* step that leaves the operations alone.
LEMMA SettledRoutes ==
    ASSUME CountTypes, AllSettled, process = "up", NEW c \in Conns,
           Favicon(c) \/ EndpointFails(c) \/ FileRequest(c)
    PROVE  AllSettled'
  <1> USE DEF clientVars, ioVars, makeVars, processVars
  <1>1. queue' = queue /\ running' = running /\ reads' = reads /\ writes' = writes
    BY DEF Favicon, EndpointFails, FileRequest
  <1>2. \A d \in Conns \ {c} : front'[d] = front[d] /\ client'[d] = client[d]
    BY DEF Favicon, EndpointFails, FileRequest, Drop, CountTypes
  <1>3. \A d \in Conns \ {c} : Pending(d)' = Pending(d)
    BY <1>1, <1>2, PendingStays
  <1>4. Settled(c)'
    <2>1. CASE FileRequest(c)
      <3>1. /\ front[c] \in {"received", "page"} /\ front'[c] \in {"received", "page"}
            /\ client' = client
        BY <2>1 DEF FileRequest, CountTypes
      <3>2. Pending(c)' = Pending(c)
        BY <1>1, <3>1, PendingStays
      <3> QED
        BY <3>1, <3>2 DEF AllSettled, Settled
    <2>2. CASE Favicon(c) \/ EndpointFails(c)
      <3>1. /\ front[c] = "received" /\ front'[c] = "none"
            /\ client'[c] = IF client[c] = "connected" THEN "closed" ELSE client[c]
        BY <2>2 DEF Favicon, EndpointFails, Drop, CountTypes
      <3>2. InHand(c) = InHand(c)' + 1 /\ InHand(c)' \in Nat
        BY <1>1, <3>1, WaitingIsNumber, WaitingStays DEF InHand
      <3>3. reads[c] \in Nat /\ Len(writes[c]) \in Nat /\ client[c] \in {"away", "connected", "gone", "closed"}
        BY DEF CountTypes
      <3>5. Pending(c) = Pending(c)' + 1 /\ Pending(c)' \in Nat
        <4> DEFINE r == reads[c]  w == Len(writes[c])  h == InHand(c)  k == InHand(c)'
        <4>1. Pending(c) = r + w + h /\ Pending(c)' = r + w + k
          BY <1>1 DEF Pending
        <4>2. r \in Nat /\ w \in Nat /\ k \in Nat /\ h = k + 1
          BY <3>2, <3>3
        <4> HIDE DEF r, w, h, k
        <4> QED
          BY <4>1, <4>2
      <3> QED
        BY <3>1, <3>3, <3>5 DEF AllSettled, Settled
    <2> QED
      BY <2>1, <2>2
  <1> QED
    BY <1>2, <1>3, <1>4, SettledChanges

\* What waits for the strand or is in it, when the operations and the thread of
\* the reader stay as they are.
LEMMA PendingInStrand ==
    ASSUME CountTypes, CountTypes', NEW c \in Conns, reads'[c] = reads[c], writes'[c] = writes[c],
           LET before == Waiting(c) + (IF running = c THEN 1 ELSE 0)
                                    + (IF front[c] \in {"received", "page"} THEN 1 ELSE 0)
               after == Waiting(c)' + (IF running' = c THEN 1 ELSE 0)
                                    + (IF front'[c] \in {"received", "page"} THEN 1 ELSE 0)
           IN  before = after
    PROVE  Pending(c)' = Pending(c)
  <1>1. InHand(c)' = InHand(c)
    BY DEF InHand
  <1> QED
    BY <1>1 DEF Pending

\* A request goes from the thread that read it to the strand or to its queue.
LEMMA SettledDispatch ==
    ASSUME CountTypes, CountTypes', AllSettled, process = "up", NEW c \in Conns, DispatchApi(c)
    PROVE  AllSettled'
  <1> USE DEF clientVars, ioVars, makeVars, processVars
  <1>1. /\ reads' = reads /\ writes' = writes /\ client' = client
        /\ front[c] = "received" /\ front'[c] \in {"inside", "reporting"}
        /\ \A d \in Conns \ {c} : front'[d] = front[d]
    BY DEF DispatchApi, CountTypes
  <1>2. ASSUME NEW d \in Conns PROVE Pending(d)' = Pending(d)
    <2>0. Waiting(d) = Times(queue, d) /\ Waiting(d)' = Times(queue', d) /\ Waiting(d) \in Nat
      BY WaitingIsNumber, WaitingIsNumber DEF Waiting, Times
    <2>1. CASE StrandFree
      <3>1. running = Nobody /\ running' = c /\ queue' = queue
        BY <2>1 DEF DispatchApi, StrandFree
      <3> QED
        BY <1>1, <2>0, <3>1, PendingInStrand, TasksAssumption
    <2>2. CASE ~StrandFree
      <3>1. running' = running /\ queue' = Append(queue, c)
        BY <2>2 DEF DispatchApi
      <3>2. Waiting(d)' = Waiting(d) + (IF c = d THEN 1 ELSE 0)
        <4>1. queue \in Seq(Conns \cup {Ticker}) /\ c \in Conns \cup {Ticker}
          BY DEF CountTypes
        <4>2. Times(Append(queue, c), d) = Times(queue, d) + (IF c = d THEN 1 ELSE 0)
          BY <4>1, TimesOfAppend
        <4> QED
          BY <2>0, <3>1, <4>2
      <3> QED
        BY <1>1, <2>0, <3>1, <3>2, PendingInStrand
    <2> QED
      BY <2>1, <2>2
  <1> QED
    BY <1>1, <1>2, SettledStays

\* The ticker is queued and run like a request, but it is none.
LEMMA SettledTurns ==
    ASSUME CountTypes, CountTypes', AllSettled, process = "up", TickIsDue \/ RunNext
    PROVE  AllSettled'
  <1> USE DEF clientVars, ioVars, makeVars, processVars
  <1>1. reads' = reads /\ writes' = writes /\ client' = client /\ front' = front
    BY DEF TickIsDue, RunNext
  <1>2. ASSUME NEW d \in Conns PROVE Pending(d)' = Pending(d)
    <2>0. Waiting(d) = Times(queue, d) /\ Waiting(d)' = Times(queue', d) /\ Waiting(d) \in Nat
      BY WaitingIsNumber DEF Waiting, Times
    <2>1. CASE TickIsDue
      <3>1. CASE queue' = queue /\ running = Nobody /\ running' = Ticker
        BY <1>1, <2>0, <3>1, PendingInStrand, TasksAssumption
      <3>2. CASE queue' = Append(queue, Ticker) /\ running' = running
        <4>1. Waiting(d)' = Waiting(d)
          <5>1. queue \in Seq(Conns \cup {Ticker}) /\ Ticker \in Conns \cup {Ticker} /\ Ticker # d
            BY TasksAssumption DEF CountTypes
          <5>2. Times(Append(queue, Ticker), d) = Times(queue, d) + 0
            BY <5>1, TimesOfAppend
          <5> QED
            BY <2>0, <3>2, <5>2
        <4> QED
          BY <1>1, <2>0, <3>2, <4>1, PendingInStrand
      <3> QED
        BY <2>1, <3>1, <3>2 DEF TickIsDue, StrandFree
    <2>2. CASE RunNext
      <3>1. /\ queue # <<>> /\ queue' = Tail(queue)
            /\ running = Nobody /\ running' = Head(queue)
        BY <2>2 DEF RunNext
      <3>2. Waiting(d) = Times(Tail(queue), d) + (IF Head(queue) = d THEN 1 ELSE 0)
        BY <2>0, <3>1, TimesOfTail DEF CountTypes
      <3>3. Times(Tail(queue), d) \in Nat
        BY <3>1, TimesIsNumber DEF CountTypes
      <3>4. Waiting(d)' = Times(Tail(queue), d)
        BY <2>0, <3>1
      <3> QED
        BY <1>1, <3>1, <3>2, <3>3, <3>4, PendingInStrand, TasksAssumption
    <2> QED
      BY <2>1, <2>2
  <1> QED
    BY <1>1, <1>2, SettledStays

\* The answer is written by whoever holds the request, in the strand or out of
\* it, and the request is no longer in hand.
LEMMA SettledSend ==
    ASSUME CountTypes, GameTouchedByOne, AllSettled, process = "up", NEW c \in Conns, Send(c)
    PROVE  AllSettled'
  <1> USE DEF clientVars, ioVars, makeVars, processVars
  <1>1. /\ queue' = queue /\ reads' = reads /\ client' = client
        /\ Len(writes'[c]) = Len(writes[c]) + 1
        /\ \A d \in Conns \ {c} : writes'[d] = writes[d] /\ front'[d] = front[d]
        /\ running = c => running' \in {Nobody, Leaving}
        /\ running # c => running' = running
        /\ front[c] = "page" => front'[c] = "reporting"
    BY DEF Send, ByApi, CountTypes
  <1>2. \A d \in Conns \ {c} : Pending(d)' = Pending(d)
    BY <1>1, PendingStays, TasksAssumption
  <1>3. running = c \/ front[c] = "page"
    BY DEF GameTouchedByOne, Send
  <1>4. Waiting(c) \in Nat /\ Waiting(c)' = Waiting(c) /\ reads[c] \in Nat /\ Len(writes[c]) \in Nat
    BY <1>1, WaitingIsNumber, WaitingStays DEF CountTypes
  <1>5. Pending(c) = 0 \/ Pending(c) =< 1
    <2>1. client[c] \in {"away", "connected", "gone", "closed"}
      BY DEF CountTypes
    <2>2. Pending(c) = 1 \/ Pending(c) =< 1 \/ Pending(c) = 0
      BY <2>1 DEF AllSettled, Settled
    <2> QED
      BY <2>2
  <1>6. front'[c] \in {"received", "page"} => front[c] = "received"
    BY DEF Send, CountTypes
  <1>7. ~ (running = c /\ front[c] \in {"received", "page"})
    BY <1>4, <1>5 DEF Pending, InHand
  <1>8. InHand(c) = InHand(c)' + 1 /\ InHand(c)' \in Nat
    BY <1>1, <1>3, <1>4, <1>6, <1>7, TasksAssumption DEF InHand
  <1>9. Pending(c)' = Pending(c)
    <2> DEFINE r == reads[c]  w == Len(writes[c])  h == InHand(c)  k == InHand(c)'
    <2>1. Pending(c) = r + w + h /\ Pending(c)' = r + Len(writes'[c]) + k
      BY <1>1 DEF Pending
    <2>2. Len(writes'[c]) = w + 1
      BY <1>1
    <2>3. r \in Nat /\ w \in Nat /\ k \in Nat /\ h = k + 1
      BY <1>4, <1>8
    <2> HIDE DEF r, w, h, k
    <2> QED
      BY <2>1, <2>2, <2>3
  <1> QED
    BY <1>1, <1>2, <1>9, SettledStays

\* Nobody holds the request that could not even be refused, nor its session.
LEMMA SettledReporting ==
    ASSUME CountTypes, GameTouchedByOne, AllSettled, process = "up", NEW c \in Conns,
           ReportingFails(c)
    PROVE  AllSettled'
  <1> USE DEF clientVars, ioVars, makeVars, processVars
  <1>1. /\ queue' = queue /\ reads' = reads /\ writes' = writes
        /\ client'[c] = IF client[c] = "connected" THEN "closed" ELSE client[c]
        /\ \A d \in Conns \ {c} : client'[d] = client[d] /\ front'[d] = front[d]
        /\ running = c => running' = Nobody
        /\ running # c => running' = running
    BY DEF ReportingFails, ByApi, Drop, CountTypes
  <1>2. \A d \in Conns \ {c} : Pending(d)' = Pending(d)
    BY <1>1, PendingStays, TasksAssumption
  <1>3. running = c \/ front[c] = "page"
    BY DEF GameTouchedByOne, ReportingFails
  <1>4. /\ Waiting(c) \in Nat /\ Waiting(c)' = Waiting(c) /\ reads[c] \in Nat /\ Len(writes[c]) \in Nat
        /\ client[c] \in {"away", "connected", "gone", "closed"}
    BY <1>1, WaitingIsNumber, WaitingStays DEF CountTypes
  <1>5. Pending(c) =< 1
    <2>1. Pending(c) = 1 \/ Pending(c) =< 1 \/ Pending(c) = 0
      BY <1>4 DEF AllSettled, Settled
    <2> QED
      BY <2>1
  <1>6. /\ front[c] = "page" => front'[c] = "none"
        /\ front'[c] \in {"received", "page"} => front[c] = "received"
    BY DEF ReportingFails, CountTypes
  <1>7. ~ (running = c /\ front[c] \in {"received", "page"})
    BY <1>4, <1>5 DEF Pending, InHand
  <1>8. InHand(c) = InHand(c)' + 1 /\ InHand(c)' \in Nat
    BY <1>1, <1>3, <1>4, <1>6, <1>7, TasksAssumption DEF InHand
  <1>9. Pending(c) = Pending(c)' + 1 /\ Pending(c)' \in Nat
    <2> DEFINE r == reads[c]  w == Len(writes[c])  h == InHand(c)  k == InHand(c)'
    <2>1. Pending(c) = r + w + h /\ Pending(c)' = r + w + k
      BY <1>1 DEF Pending
    <2>2. r \in Nat /\ w \in Nat /\ k \in Nat /\ h = k + 1
      BY <1>4, <1>8
    <2> HIDE DEF r, w, h, k
    <2> QED
      BY <2>1, <2>2
  <1>10. Settled(c)'
    BY <1>1, <1>4, <1>5, <1>9 DEF AllSettled, Settled
  <1> QED
    BY <1>1, <1>2, <1>10, SettledChanges

LEMMA SettledInit == Init => AllSettled
  <1> SUFFICES ASSUME Init, NEW c \in Conns PROVE Settled(c)
    BY DEF AllSettled
  <1>1. client[c] = "away" /\ reads[c] = 0 /\ writes[c] = <<>> /\ front[c] = "none"
    BY DEF Init
  <1>2. queue = <<>> /\ running # c
    BY TasksAssumption DEF Init
  <1>3. Waiting(c) = 0
    <2>1. {i \in DOMAIN queue : queue[i] = c} = {}
      BY <1>2
    <2> QED
      BY <2>1, FS_EmptySet DEF Waiting
  <1> QED
    BY <1>1, <1>2, <1>3 DEF Settled, Pending, InHand

LEMMA SettledNext == TypeInv /\ GameTouchedByOne /\ AllSettled /\ [Next]_vars => AllSettled'
  <1> SUFFICES ASSUME TypeInv, GameTouchedByOne, AllSettled, [Next]_vars PROVE AllSettled'
    OBVIOUS
  <1>0. CountTypes /\ CountTypes'
    <2>1. TypeInv'
      BY TypeInvNext
    <2> QED
      BY <2>1 DEF TypeInv, TypeOK, CountTypes
  <1>1. CASE process = "up" /\ ServerStep
    <2>1. CASE OnAcceptError \/ TickIsDue \/ RunNext \/ TickDone \/ Leave
      BY <1>0, <1>1, <2>1, SettledQuiet, SettledTurns
    <2>2. CASE \E c \in Conns : Ask(c) \/ HangUp(c) \/ Deadline(c)
      BY <1>0, <1>1, <2>2, SettledQuiet
    <2>3. CASE \E c \in Conns : OnAccept(c) \/ Complete(c)
      BY <1>0, <1>1, <2>3, SettledOperations DEF Complete
    <2>4. CASE \E c \in Conns : Proceed(c)
      BY <1>0, <1>1, <2>4, SettledQuiet, SettledRoutes, SettledDispatch, SettledSend,
         SettledReporting DEF Proceed
    <2> QED
      BY <1>1, <2>1, <2>2, <2>3, <2>4 DEF ServerStep
  <1>2. CASE UNCHANGED vars
    <2>1. \A c \in Conns : Pending(c)' = Pending(c)
      BY <1>2, PendingStays DEF vars, ioVars
    <2> QED
      BY <1>2, <2>1 DEF AllSettled, Settled, vars, clientVars, processVars
  <1> QED
    BY <1>1, <1>2 DEF Next, Ended

\* A session has one read, one request in hand or one write until it is dropped,
\* whatever the clients, the strand and the other sessions do
\* (http_server.h:47, http_server.cpp:33-38).
THEOREM OneThingIsPending == Spec => []OneThingAtATime
  BY SettledInit, SettledNext, ExclusionInit, ExclusionNext, TypeInvInit, TypeInvNext,
     OneThingIsSettled, PTL DEF Spec
-----------------------------------------------------------------------------
(* The exchange.  While a client is connected it has had an answer to      *)
(* every request that was read, but for the one in hand; and the write     *)
(* that is outstanding answers that one.                                   *)

Answered(c) ==
    /\ taken[c] =< asks[c]
    /\ client[c] = "away" => asks[c] = 0 /\ taken[c] = 0 /\ Len(answers[c]) = 0
    /\ client[c] = "connected" =>
         Len(answers[c]) = IF reads[c] = 0 THEN taken[c] - 1 ELSE taken[c]
    /\ writes[c] # <<>> => Head(writes[c]) = taken[c]

AllAnswered == process = "up" => \A c \in Conns : Answered(c)

\* The types that the exchange needs.
ExchangeTypes ==
    /\ CountTypes
    /\ asks \in [Conns -> Nat]
    /\ taken \in [Conns -> Nat]
    /\ answers \in [Conns -> Seq(1 .. MaxRequests)]

LEMMA ExchangeTypesHold == TypeInv => ExchangeTypes
  BY BoundsAssumption DEF TypeInv, TypeOK, CountTypes, ExchangeTypes

\* With one thing pending at most, what else is pending is nothing.
LEMMA NothingElsePending ==
    ASSUME CountTypes, AllSettled, process = "up", NEW c \in Conns
    PROVE  /\ reads[c] > 0 => reads[c] = 1 /\ writes[c] = <<>>
           /\ writes[c] # <<>> => reads[c] = 0 /\ Len(writes[c]) = 1 /\ Tail(writes[c]) = <<>>
           /\ running = c \/ front[c] \in {"received", "page"} => reads[c] = 0 /\ writes[c] = <<>>
           /\ client[c] \in {"away", "closed"} => reads[c] = 0 /\ writes[c] = <<>>
  <1>1. /\ reads[c] \in Nat /\ Len(writes[c]) \in Nat /\ Waiting(c) \in Nat
        /\ client[c] \in {"away", "connected", "gone", "closed"}
    BY WaitingIsNumber DEF CountTypes
  <1>2. InHand(c) \in Nat /\ (running = c \/ front[c] \in {"received", "page"} => InHand(c) > 0)
    BY <1>1 DEF InHand
  <1>3. Pending(c) = reads[c] + Len(writes[c]) + InHand(c)
    BY DEF Pending
  <1>4. Pending(c) =< 1 /\ (client[c] \in {"away", "closed"} => Pending(c) = 0)
    <2>1. Pending(c) \in Nat
      BY <1>1, <1>2, <1>3
    <2> QED
      BY <1>1, <2>1 DEF AllSettled, Settled
  <1>5. reads[c] + Len(writes[c]) + InHand(c) =< 1
    BY <1>3, <1>4
  <1>6. reads[c] > 0 => reads[c] = 1 /\ Len(writes[c]) = 0
    BY <1>1, <1>2, <1>5
  <1>7. Len(writes[c]) > 0 => reads[c] = 0 /\ Len(writes[c]) = 1
    <2>1. \A r, w, h \in Nat : r + w + h =< 1 /\ w > 0 => r = 0 /\ w = 1
      OBVIOUS
    <2> QED
      BY <1>1, <1>2, <1>5, <2>1
  <1>8. running = c \/ front[c] \in {"received", "page"} => reads[c] = 0 /\ Len(writes[c]) = 0
    <2>1. InHand(c) > 0 => reads[c] = 0 /\ Len(writes[c]) = 0
      BY <1>1, <1>2, <1>5
    <2> QED
      BY <1>2, <2>1
  <1>9. client[c] \in {"away", "closed"} => reads[c] = 0 /\ Len(writes[c]) = 0
    <2>1. reads[c] + Len(writes[c]) + InHand(c) = 0 => reads[c] = 0 /\ Len(writes[c]) = 0
      BY <1>1, <1>2
    <2> QED
      BY <1>3, <1>4, <2>1
  <1>10. /\ Len(writes[c]) = 0 <=> writes[c] = <<>>
         /\ Len(writes[c]) = 1 => Tail(writes[c]) = <<>>
    <2>1. writes[c] \in Seq(1 .. MaxRequests)
      BY DEF CountTypes
    <2>2. \A w \in Seq(1 .. MaxRequests) : Len(w) = 0 <=> w = <<>>
      OBVIOUS
    <2>3. \A w \in Seq(1 .. MaxRequests) : w # <<>> =>
             Tail(w) \in Seq(1 .. MaxRequests) /\ Len(Tail(w)) = Len(w) - 1
      OBVIOUS
    <2>4. Len(writes[c]) = 0 <=> writes[c] = <<>>
      BY <2>1, <2>2
    <2>5. ASSUME Len(writes[c]) = 1 PROVE Tail(writes[c]) = <<>>
      <3>1. Tail(writes[c]) \in Seq(1 .. MaxRequests) /\ Len(Tail(writes[c])) = 0
        <4>1. writes[c] # <<>>
          BY <2>4, <2>5
        <4>2. /\ Tail(writes[c]) \in Seq(1 .. MaxRequests)
              /\ Len(Tail(writes[c])) = Len(writes[c]) - 1
          BY <2>1, <2>3, <4>1
        <4> QED
          BY <2>5, <4>2
      <3> QED
        BY <2>2, <3>1
    <2> QED
      BY <2>4, <2>5
  <1> QED
    BY <1>1, <1>6, <1>7, <1>8, <1>9, <1>10

\* A step that leaves a connection its counters, its operations and its client.
LEMMA AnsweredStays ==
    ASSUME NEW c \in Conns, Answered(c), asks'[c] = asks[c], taken'[c] = taken[c],
           answers'[c] = answers[c], client'[c] = client[c],
           reads'[c] = reads[c], writes'[c] = writes[c]
    PROVE  Answered(c)'
  BY DEF Answered

\* The same for every connection but one.
LEMMA AnsweredChanges ==
    ASSUME AllAnswered, process = "up", NEW c \in Conns,
           \A d \in Conns \ {c} :
             /\ asks'[d] = asks[d] /\ taken'[d] = taken[d] /\ answers'[d] = answers[d]
             /\ client'[d] = client[d] /\ reads'[d] = reads[d] /\ writes'[d] = writes[d],
           process' = "up" => Answered(c)'
    PROVE  AllAnswered'
  BY AnsweredStays DEF AllAnswered

\* Requests, hang-ups, deadlines, and what happens to a request in hand before
\* its answer is written.
LEMMA AnsweredQuiet ==
    ASSUME ExchangeTypes, AllAnswered, process = "up",
           \/ OnAcceptError \/ TickIsDue \/ RunNext \/ TickDone \/ Leave
           \/ \E c \in Conns : \/ Ask(c) \/ HangUp(c) \/ Deadline(c)
                               \/ EndpointFails(c) \/ Favicon(c) \/ DispatchApi(c) \/ FileRequest(c)
                               \/ Make(c) \/ SetContentType(c) \/ SetStatus(c)
                               \/ SendFails(c) \/ ReportingFails(c) \/ Report(c)
    PROVE  AllAnswered'
  <1> USE DEF clientVars, ioVars, makeVars, processVars
  <1>1. reads' = reads /\ writes' = writes /\ taken' = taken /\ answers' = answers
    BY DEF OnAcceptError, TickIsDue, RunNext, TickDone, Leave, Ask, HangUp, Deadline, EndpointFails, Favicon,
           DispatchApi, FileRequest, Make, SetContentType, SetStatus, SendFails, ReportingFails, Report
  <1>2. CASE \E c \in Conns : Ask(c) \/ HangUp(c) \/ Favicon(c) \/ ReportingFails(c)
    <2>1. PICK c \in Conns : Ask(c) \/ HangUp(c) \/ Favicon(c) \/ ReportingFails(c)
      BY <1>2
    <2>2. \A d \in Conns \ {c} : asks'[d] = asks[d] /\ client'[d] = client[d]
      BY <2>1 DEF Ask, HangUp, Favicon, ReportingFails, Drop, ExchangeTypes, CountTypes
    <2>3. /\ asks'[c] >= asks[c] /\ asks'[c] \in Nat
          /\ client'[c] = "away" => client[c] = "away" /\ asks'[c] = asks[c]
          /\ client'[c] = "connected" => client[c] = "connected"
      BY <2>1 DEF Ask, HangUp, Favicon, ReportingFails, Drop, ExchangeTypes, CountTypes
    <2>4. Answered(c)'
      BY <1>1, <2>3 DEF AllAnswered, Answered, ExchangeTypes
    <2> QED
      BY <1>1, <2>2, <2>4, AnsweredChanges
  <1>3. CASE asks' = asks /\ client' = client
    BY <1>1, <1>3, AnsweredStays DEF AllAnswered
  <1> QED
    BY <1>2, <1>3 DEF OnAcceptError, TickIsDue, RunNext, TickDone, Leave, Deadline, EndpointFails,
           DispatchApi, FileRequest, Make, SetContentType, SetStatus, SendFails, Report

\* The completions: a request is read, or an answer has reached its client.
LEMMA AnsweredOperations ==
    ASSUME ExchangeTypes, AllSettled, AllAnswered, process = "up", NEW c \in Conns,
           OnAccept(c) \/ OnRead(c) \/ OnReadEnd(c) \/ OnWrite(c) \/ OnWriteError(c)
    PROVE  AllAnswered'
  <1> USE DEF clientVars, ioVars, makeVars, processVars
  <1>1. \A d \in Conns \ {c} :
             /\ asks'[d] = asks[d] /\ taken'[d] = taken[d] /\ answers'[d] = answers[d]
             /\ client'[d] = client[d] /\ reads'[d] = reads[d] /\ writes'[d] = writes[d]
    BY DEF OnAccept, OnRead, OnReadEnd, OnWrite, OnWriteError, Read, Drop, Close, Forget,
           ExchangeTypes, CountTypes
  <1>2. /\ reads[c] > 0 => reads[c] = 1 /\ writes[c] = <<>>
        /\ writes[c] # <<>> => reads[c] = 0 /\ Len(writes[c]) = 1 /\ Tail(writes[c]) = <<>>
        /\ client[c] \in {"away", "closed"} => reads[c] = 0 /\ writes[c] = <<>>
    BY NothingElsePending DEF ExchangeTypes
  <1>3. Answered(c)
    BY DEF AllAnswered
  <1>4. /\ reads[c] \in Nat /\ taken[c] \in Nat /\ asks[c] \in Nat /\ Len(answers[c]) \in Nat
        /\ client[c] \in {"away", "connected", "gone", "closed"}
    BY DEF ExchangeTypes, CountTypes
  <1>5. Answered(c)'
    <2>1. CASE OnAccept(c)
      <3>1. /\ client[c] = "away" /\ client'[c] = "connected" /\ reads'[c] = reads[c] + 1
            /\ asks' = asks /\ taken' = taken /\ answers' = answers /\ writes' = writes
        BY <2>1 DEF OnAccept, Read, ExchangeTypes, CountTypes
      <3> QED
        BY <1>2, <1>3, <1>4, <3>1 DEF Answered
    <2>2. CASE OnRead(c)
      <3>1. /\ reads[c] > 0 /\ reads'[c] = reads[c] - 1 /\ taken[c] < asks[c]
            /\ taken'[c] = taken[c] + 1
            /\ asks' = asks /\ client' = client /\ answers' = answers /\ writes' = writes
        BY <2>2 DEF OnRead, ExchangeTypes, CountTypes
      <3> QED
        BY <1>2, <1>3, <1>4, <3>1 DEF Answered
    <2>3. CASE OnReadEnd(c)
      <3>1. /\ reads[c] > 0 /\ writes' = writes
            /\ asks' = asks /\ taken' = taken /\ answers' = answers
            /\ client'[c] = IF client[c] = "connected" THEN "closed" ELSE client[c]
        BY <2>3 DEF OnReadEnd, Close, Drop, ExchangeTypes, CountTypes
      <3> QED
        BY <1>2, <1>3, <1>4, <3>1 DEF Answered
    <2>4. CASE OnWrite(c)
      <3>1. /\ writes[c] # <<>> /\ writes'[c] = Tail(writes[c])
            /\ asks' = asks /\ taken' = taken
            /\ client[c] = "connected" => Len(answers'[c]) = Len(answers[c]) + 1
            /\ client[c] # "connected" => answers' = answers
            /\ \/ reads'[c] = reads[c] + 1 /\ client' = client
               \/ /\ reads' = reads
                  /\ client'[c] = IF client[c] = "connected" THEN "closed" ELSE client[c]
        BY <2>4 DEF OnWrite, Close, Drop, Read, ExchangeTypes, CountTypes
      <3> QED
        BY <1>2, <1>3, <1>4, <3>1 DEF Answered
    <2>5. CASE OnWriteError(c)
      <3>1. /\ writes[c] # <<>> /\ writes'[c] = Tail(writes[c])
            /\ asks' = asks /\ taken' = taken /\ answers' = answers /\ reads' = reads
            /\ client'[c] = IF client[c] = "connected" THEN "closed" ELSE client[c]
        BY <2>5 DEF OnWriteError, Drop, ExchangeTypes, CountTypes
      <3> QED
        BY <1>2, <1>3, <1>4, <3>1 DEF Answered
    <2> QED
      BY <2>1, <2>2, <2>3, <2>4, <2>5
  <1> QED
    BY <1>1, <1>5, AnsweredChanges

\* The write answers the request in hand, the last one that was read.
LEMMA AnsweredSend ==
    ASSUME ExchangeTypes, GameTouchedByOne, AllSettled, AllAnswered, process = "up",
           NEW c \in Conns, Send(c)
    PROVE  AllAnswered'
  <1> USE DEF clientVars, ioVars, makeVars, processVars
  <1>1. running = c \/ front[c] = "page"
    BY DEF GameTouchedByOne, Send
  <1>2. writes[c] = <<>>
    BY <1>1, NothingElsePending DEF ExchangeTypes
  <1>3. writes'[c] = Append(writes[c], taken[c])
    BY DEF Send, ExchangeTypes, CountTypes
  <1>4. Head(writes'[c]) = taken[c]
    BY <1>2, <1>3 DEF ExchangeTypes
  <1>5. /\ asks' = asks /\ taken' = taken /\ answers' = answers /\ client' = client /\ reads' = reads
        /\ \A d \in Conns \ {c} : writes'[d] = writes[d]
    BY DEF Send, ExchangeTypes, CountTypes
  <1>6. Answered(c)'
    BY <1>4, <1>5 DEF AllAnswered, Answered
  <1> QED
    BY <1>5, <1>6, AnsweredChanges

LEMMA AnsweredInit == Init => AllAnswered
  BY DEF Init, AllAnswered, Answered

LEMMA AnsweredNext ==
    TypeInv /\ GameTouchedByOne /\ AllSettled /\ AllAnswered /\ [Next]_vars => AllAnswered'
  <1> SUFFICES ASSUME TypeInv, GameTouchedByOne, AllSettled, AllAnswered, [Next]_vars
               PROVE  AllAnswered'
    OBVIOUS
  <1>0. ExchangeTypes
    BY ExchangeTypesHold
  <1>1. CASE process = "up" /\ ServerStep
    <2>1. CASE OnAcceptError \/ TickIsDue \/ RunNext \/ TickDone \/ Leave
      BY <1>0, <1>1, <2>1, AnsweredQuiet
    <2>2. CASE \E c \in Conns : Ask(c) \/ HangUp(c) \/ Deadline(c)
      BY <1>0, <1>1, <2>2, AnsweredQuiet
    <2>3. CASE \E c \in Conns : OnAccept(c) \/ Complete(c)
      BY <1>0, <1>1, <2>3, AnsweredOperations DEF Complete
    <2>4. CASE \E c \in Conns : Proceed(c)
      BY <1>0, <1>1, <2>4, AnsweredQuiet, AnsweredSend DEF Proceed
    <2> QED
      BY <1>1, <2>1, <2>2, <2>3, <2>4 DEF ServerStep
  <1>2. CASE UNCHANGED vars
    BY <1>2 DEF AllAnswered, Answered, vars, clientVars, ioVars, processVars
  <1> QED
    BY <1>1, <1>2 DEF Next, Ended

\* The connections that an outsider sees open.
OpenNow == IF process = "up" THEN {c \in Conns : client[c] = "connected"} ELSE {}

LEMMA ExchangeInitial == Init => Promise!ExchangeInit
  BY DEF Init, Promise!ExchangeInit

\* Connections that end, for whatever reason, and nothing else.
LEMMA EndsOnly ==
    ASSUME asks' = asks, answers' = answers,
           process = "up",
           \A c \in Conns : client'[c] = "connected" => client[c] = "connected"
    PROVE  Promise!ExchangeNext
  <1>1. OpenNow' \subseteq OpenNow
    BY DEF OpenNow
  <1>2. OpenNow \ OpenNow' \in SUBSET OpenNow /\ OpenNow' = OpenNow \ (OpenNow \ OpenNow')
    BY <1>1
  <1>3. Promise!End
    BY <1>2 DEF Promise!End, OpenNow
  <1> QED
    BY <1>3 DEF Promise!ExchangeNext

\* An answer reaches a client that is connected.
LEMMA AnswerArrives ==
    ASSUME ExchangeTypes, AllSettled, AllAnswered, process = "up", NEW c \in Conns,
           OnWrite(c), client[c] = "connected"
    PROVE  Promise!ExchangeNext
  <1> USE DEF clientVars, ioVars, makeVars, processVars
  <1>1. writes[c] # <<>> /\ answers' = [answers EXCEPT ![c] = Append(@, Head(writes[c]))] /\ asks' = asks
    BY DEF OnWrite
  <1>2. Head(writes[c]) = taken[c] /\ reads[c] = 0
    BY <1>1, NothingElsePending DEF AllAnswered, Answered, ExchangeTypes
  <1>3. taken[c] = Len(answers[c]) + 1 /\ Len(answers[c]) < asks[c]
    BY <1>2 DEF AllAnswered, Answered, ExchangeTypes
  <1>4. answers' = [answers EXCEPT ![c] = Append(@, Len(@) + 1)]
    BY <1>1, <1>2, <1>3
  <1>5. process' = "up"
    BY DEF OnWrite, Close
  <1>6. client' = client \/ client' = [client EXCEPT ![c] = "closed"]
    BY DEF OnWrite, Close, Drop
  <1>7. c \in OpenNow /\ OpenNow' \in {OpenNow, OpenNow \ {c}}
    BY <1>5, <1>6 DEF OpenNow, ExchangeTypes, CountTypes
  <1>8. Promise!Answer(c)
    BY <1>1, <1>3, <1>4, <1>7 DEF Promise!Answer, OpenNow
  <1> QED
    BY <1>8 DEF Promise!ExchangeNext

\* A client connects: it was away, and has asked nothing.
LEMMA ClientComes ==
    ASSUME ExchangeTypes, AllAnswered, process = "up", process' = "up", NEW c \in Conns, OnAccept(c)
    PROVE  Promise!ExchangeNext
  <1>1. client[c] = "away" /\ client' = [client EXCEPT ![c] = "connected"] /\ asks' = asks /\ answers' = answers
    BY DEF OnAccept, clientVars
  <1>2. asks[c] = 0
    BY <1>1 DEF AllAnswered, Answered
  <1>3. c \notin OpenNow /\ OpenNow' = OpenNow \cup {c}
    BY <1>1 DEF OpenNow, ExchangeTypes, CountTypes
  <1>4. Promise!Begin(c)
    BY <1>1, <1>2, <1>3 DEF Promise!Begin, OpenNow
  <1> QED
    BY <1>4 DEF Promise!ExchangeNext

LEMMA ExchangeStep ==
    TypeInv /\ AllSettled /\ AllAnswered /\ [Next]_vars
        => [Promise!ExchangeNext]_<<OpenNow, asks, answers>>
  <1> SUFFICES ASSUME TypeInv, AllSettled, AllAnswered, [Next]_vars
               PROVE  [Promise!ExchangeNext]_<<OpenNow, asks, answers>>
    OBVIOUS
  <1>0. ExchangeTypes
    BY ExchangeTypesHold
  <1> USE DEF clientVars, ioVars, makeVars, processVars
  <1>1. CASE process = "up" /\ \E c \in Conns : OnAccept(c)
    BY <1>0, <1>1, ClientComes DEF OnAccept
  <1>2. CASE process = "up" /\ \E c \in Conns : OnWrite(c)
    <2>1. PICK c \in Conns : OnWrite(c)
      BY <1>2
    <2>2. CASE client[c] = "connected"
      BY <1>0, <1>2, <2>1, <2>2, AnswerArrives
    <2>3. CASE client[c] # "connected"
      <3>1. asks' = asks /\ answers' = answers
        BY <2>1, <2>3 DEF OnWrite
      <3>2. client' = client
        BY <1>0, <2>1, <2>3 DEF OnWrite, Close, Drop, ExchangeTypes, CountTypes
      <3> QED
        BY <1>2, <3>1, <3>2, EndsOnly
    <2> QED
      BY <2>2, <2>3
  <1>3. CASE process = "up" /\ \E c \in Conns : Ask(c)
    <2>1. PICK c \in Conns : Ask(c)
      BY <1>3
    <2>2. c \in OpenNow /\ OpenNow' = OpenNow
      BY <1>3, <2>1 DEF Ask, OpenNow
    <2>3. Promise!Ask(c)
      BY <2>1, <2>2 DEF Ask, Promise!Ask, OpenNow
    <2> QED
      BY <2>3 DEF Promise!ExchangeNext
  <1>4. CASE /\ process = "up"
             /\ \/ OnAcceptError \/ TickIsDue \/ RunNext \/ TickDone \/ Leave
                \/ \E c \in Conns : HangUp(c) \/ Deadline(c) \/ OnRead(c) \/ OnReadEnd(c)
                                    \/ OnWriteError(c) \/ Proceed(c)
    <2>1. asks' = asks /\ answers' = answers
      BY <1>4 DEF OnAcceptError, TickIsDue, RunNext, TickDone, Leave, HangUp, Deadline, OnRead, OnReadEnd,
                  OnWriteError, Proceed, EndpointFails, Favicon, DispatchApi, FileRequest, Make, SetContentType,
                  SetStatus, Send, SendFails, ReportingFails, Report
    <2>2. client' = client \/ \E c \in Conns : client' = [client EXCEPT ![c] = "gone"] \/ Drop(c)
      BY <1>4 DEF OnAcceptError, TickIsDue, RunNext, TickDone, Leave, HangUp, Deadline, OnRead, OnReadEnd,
                  OnWriteError, Proceed, EndpointFails, Favicon, DispatchApi, FileRequest, Make, SetContentType,
                  SetStatus, Send, SendFails, ReportingFails, Report, Close
    <2>3. \A c \in Conns : client'[c] = "connected" => client[c] = "connected"
      BY <1>0, <2>2 DEF Drop, ExchangeTypes, CountTypes
    <2> QED
      BY <1>4, <2>1, <2>3, EndsOnly
  <1>5. CASE UNCHANGED vars
    BY <1>5 DEF vars, OpenNow
  <1> QED
    BY <1>1, <1>2, <1>3, <1>4, <1>5 DEF Next, Ended, ServerStep, Complete

\* The server keeps the promise of an HTTP server, for any number of
\* connections, threads and requests: on each connection the answers come in
\* the order of the requests, each at most once (http_server.cpp:15-51).
THEOREM ExchangeIsKept == Spec => ExchangeSpec
  <1>1. Spec => Promise!ExchangeInit /\ [][Promise!ExchangeNext]_<<OpenNow, asks, answers>>
    BY ExchangeInitial, ExchangeStep, AnsweredInit, AnsweredNext, SettledInit, SettledNext,
       ExclusionInit, ExclusionNext, TypeInvInit, TypeInvNext, PTL DEF Spec
  <1> QED
    BY <1>1, PTL DEF ExchangeSpec, Promise!ExchangeSpec, OpenNow
=============================================================================
