----------------------------- MODULE HttpServer -----------------------------
(***************************************************************************)
(* The way of a request through the server: the listener, the sessions of  *)
(* the connections, the routing of requests to the strand of the API or to *)
(* the static files, and the log of the responses.                         *)
(*                                                                         *)
(* A step is what a thread does without anybody being able to notice that  *)
(* it took several statements: the handler of a completed operation, or    *)
(* one access of status_ or content_type_, which all threads share.  A     *)
(* session lives as long as an operation or a handler holds it; when the   *)
(* last one lets go of it, its socket is closed.                           *)
(*                                                                         *)
(* Abstracted: what requests ask and what answers say, but for the code    *)
(* and content type that are logged.  Time, but for the deadline of a      *)
(* connection, which may pass at any moment.  External: Boost.Asio and     *)
(* Boost.Beast, as the code uses them; the clients.                        *)
(***************************************************************************)
EXTENDS Naturals, Sequences, FiniteSets

CONSTANTS
    Conns,        \* connections, each accepted at most once
    Ticker,       \* the OnTick of the ticker, as a task of the strand
    Leaving,      \* the lambda of the API after its send, still a task of the strand
    Nobody,       \* no task runs in the strand
    Threads,      \* how many threads run io_context::run, the main one included
    ApiResponses, \* code and content type of what the handlers of the API answer
    FileResponses, \* code and content type of the answers to file requests
    ServerError,  \* code and content type of ReportServerError
    MaxRequests,  \* bound: requests sent on a connection
    Loads         \* bound: how many requests each client sends, at most

ASSUME ConnsAssumption == IsFiniteSet(Conns)
ASSUME TasksAssumption ==
    Ticker \notin Conns /\ Leaving \notin Conns \cup {Ticker}
                       /\ Nobody \notin Conns \cup {Ticker, Leaving}
ASSUME BoundsAssumption ==
    /\ Threads \in Nat \ {0} /\ MaxRequests \in Nat
    /\ Loads \subseteq [Conns -> 0 .. MaxRequests]

VARIABLES
    accepting,    \* an async_accept is outstanding
    client,       \* what the client of a connection sees of it
    asks,         \* how many requests the client sent
    taken,        \* how many of them were read
    answers,      \* the requests whose answers reached the client, in order
    expired,      \* the 30 s of the connection have passed
    reads,        \* outstanding async_reads
    writes,       \* outstanding async_writes: the requests they answer
    front,        \* where the handler of the read is, on the session's strand
    queue,        \* tasks that wait for api_strand_
    running,      \* the task that runs in api_strand_
    stage,        \* how far a thread is with making a response
    response,     \* the response to the last request of a connection
    status,       \* RequestHandler::status_
    contentType,  \* RequestHandler::content_type_
    logged,       \* what LogResponse wrote for the last request
    mainRuns,     \* the main thread runs io_context::run, too
    process       \* "up" or "down"

clientVars == <<client, asks, answers>>
ioVars == <<reads, writes, expired, taken>>
makeVars == <<stage, response, status, contentType>>
processVars == <<mainRuns, process>>
vars == <<accepting, clientVars, ioVars, front, queue, running, makeVars, logged, processVars>>

Responses == ApiResponses \cup FileResponses \cup {ServerError}

\* No response has been made, or no log written, for the request in hand.
Nothing == [code |-> 0, type |-> "none"]

\* The threads that are inside a handler.
InHandler == {c \in Conns : front[c] # "none"}
Inline ==
    \/ running \in Conns /\ front[running] = "inside"
    \/ running = Leaving /\ \E c \in Conns : front[c] = "leaving"
Busy == Cardinality(InHandler) + (IF running = Nobody \/ Inline THEN 0 ELSE 1)
ThreadFree == Busy < (IF mainRuns THEN Threads ELSE Threads - 1)

StrandFree == running = Nobody /\ queue = <<>>
-----------------------------------------------------------------------------
Init ==
    /\ accepting = TRUE
    /\ client = [c \in Conns |-> "away"]
    /\ asks = [c \in Conns |-> 0]
    /\ taken = [c \in Conns |-> 0]
    /\ answers = [c \in Conns |-> <<>>]
    /\ expired = [c \in Conns |-> FALSE]
    /\ reads = [c \in Conns |-> 0]
    /\ writes = [c \in Conns |-> <<>>]
    /\ front = [c \in Conns |-> "none"]
    /\ queue = <<>>
    /\ running = Nobody
    /\ stage = [c \in Conns |-> "none"]
    /\ response = [c \in Conns |-> Nothing]
    /\ status = 200
    /\ contentType = "json"
    /\ logged = [c \in Conns |-> Nothing]
    /\ mainRuns = TRUE
    /\ process = "up"
-----------------------------------------------------------------------------
(* Slips that the code could contain and does not.                         *)

\* A request for a file is handed to the strand, too: the branch of the API
\* does not return.
FileAfterApi(c) ==
    /\ front[c] = "received"
    /\ queue' = Append(queue, c)
    /\ front' = [front EXCEPT ![c] = "page"]
    /\ stage' = [stage EXCEPT ![c] = "making"]
    /\ UNCHANGED <<accepting, clientVars, ioVars, running, response, status, contentType, logged, processVars>>

\* The handler is called in place of being dispatched to the strand.
CallDirectly(c) ==
    /\ front[c] = "received"
    /\ running' = c
    /\ front' = [front EXCEPT ![c] = "inside"]
    /\ stage' = [stage EXCEPT ![c] = "making"]
    /\ UNCHANGED <<accepting, clientVars, ioVars, queue, response, status, contentType, logged, processVars>>

\* The next request is read while this one is dispatched.
ReceiveAndRead(c) ==
    /\ reads[c] > 0 /\ front[c] = "none" /\ ThreadFree
    /\ taken[c] < asks[c]
    /\ taken' = [taken EXCEPT ![c] = @ + 1]
    /\ front' = [front EXCEPT ![c] = "received"]
    /\ UNCHANGED <<accepting, clientVars, reads, writes, expired, queue, running, makeVars, logged, processVars>>

\* The deadline holds for the read only.
DeadlineOfReads(c) ==
    /\ reads[c] > 0
    /\ ~expired[c]
    /\ expired' = [expired EXCEPT ![c] = TRUE]
    /\ UNCHANGED <<accepting, clientVars, reads, writes, taken, front, queue, running, makeVars, logged, processVars>>

-----------------------------------------------------------------------------
(* The clients, and time.                                                  *)

\* A client may send its next request before it has the answer to the last.
Ask(c) ==
    /\ client[c] = "connected"
    /\ \E load \in Loads : asks[c] < load[c] /\ \A d \in Conns : asks[d] =< load[d]
    /\ asks' = [asks EXCEPT ![c] = @ + 1]
    /\ UNCHANGED <<accepting, client, answers, ioVars, front, queue, running, makeVars, logged, processVars>>

HangUp(c) ==
    /\ client[c] = "connected"
    /\ client' = [client EXCEPT ![c] = "gone"]
    /\ UNCHANGED <<accepting, asks, answers, ioVars, front, queue, running, makeVars, logged, processVars>>

\* The deadline was set when the read began, and holds for the write as well.
Deadline(c) ==
    /\ reads[c] > 0 \/ writes[c] # <<>>
    /\ ~expired[c]
    /\ expired' = [expired EXCEPT ![c] = TRUE]
    /\ UNCHANGED <<accepting, clientVars, reads, writes, taken, front, queue, running, makeVars, logged, processVars>>
-----------------------------------------------------------------------------
(* Sessions.                                                               *)

Read(c) ==
    /\ reads' = [reads EXCEPT ![c] = @ + 1]
    /\ expired' = [expired EXCEPT ![c] = FALSE]

\* Nobody holds the session any more.
Drop(c) == client' = [client EXCEPT ![c] = IF @ = "connected" THEN "closed" ELSE @]

\* An exception leaves a handler: a worker thread ends the process; the main
\* thread stops serving and waits for the workers, if there are any.
Throw ==
    \/ process' = "down" /\ UNCHANGED mainRuns
    \/ mainRuns /\ Threads > 1 /\ mainRuns' = FALSE /\ UNCHANGED process

\* The shutdown of a socket throws when the client has reset the connection.
Close(c) ==
    /\ Drop(c)
    /\ \/ UNCHANGED processVars
       \/ client[c] = "gone" /\ Throw

\* The response is destroyed with the write that held it.
Forget(c) ==
    /\ response' = [response EXCEPT ![c] = Nothing]
    /\ logged' = [logged EXCEPT ![c] = Nothing]

-----------------------------------------------------------------------------
(* The listener.                                                           *)

\* A session is made and begins to read; the listener accepts the next one.
OnAccept(c) ==
    /\ accepting /\ ThreadFree
    /\ client[c] = "away"
    /\ client' = [client EXCEPT ![c] = "connected"]
    /\ Read(c)
    /\ UNCHANGED <<accepting, asks, answers, writes, taken, front, queue, running, makeVars, logged, processVars>>

\* An error of one accept is the end of accepting.
OnAcceptError ==
    /\ accepting /\ ThreadFree
    /\ accepting' = FALSE
    /\ UNCHANGED <<clientVars, ioVars, front, queue, running, makeVars, logged, processVars>>

\* OnRead with a request, which the thread goes on to handle.
OnRead(c) ==
    /\ reads[c] > 0 /\ front[c] = "none" /\ ThreadFree
    /\ taken[c] < asks[c]
    /\ taken' = [taken EXCEPT ![c] = @ + 1]
    /\ reads' = [reads EXCEPT ![c] = @ - 1]
    /\ front' = [front EXCEPT ![c] = "received"]
    /\ UNCHANGED <<accepting, clientVars, writes, expired, queue, running, makeVars, logged, processVars>>

\* OnRead with the end of the stream, or with an error, which is reported.
OnReadEnd(c) ==
    /\ reads[c] > 0 /\ front[c] = "none" /\ ThreadFree
    /\ \/ client[c] = "gone" /\ Close(c)
       \/ /\ client[c] = "gone" \/ expired[c]
          /\ Drop(c)
          /\ UNCHANGED processVars
    /\ reads' = [reads EXCEPT ![c] = @ - 1]
    /\ UNCHANGED <<accepting, asks, answers, writes, expired, taken, front, queue, running, makeVars, logged>>

\* OnWrite of a response that was sent: the session reads on, or closes when
\* the response asks for it.
OnWrite(c) ==
    /\ writes[c] # <<>> /\ front[c] = "none" /\ ThreadFree
    /\ writes' = [writes EXCEPT ![c] = Tail(@)]
    /\ answers' = IF client[c] = "connected"
                  THEN [answers EXCEPT ![c] = Append(@, Head(writes[c]))] ELSE answers
    /\ \/ Read(c) /\ UNCHANGED <<client, processVars>>
       \/ Close(c) /\ UNCHANGED <<reads, expired>>
    /\ Forget(c)
    /\ UNCHANGED <<accepting, asks, taken, front, queue, running, stage, status, contentType>>

\* OnWrite with an error: the client is gone or the deadline has passed.
OnWriteError(c) ==
    /\ writes[c] # <<>> /\ front[c] = "none" /\ ThreadFree
    /\ client[c] = "gone" \/ expired[c]
    /\ writes' = [writes EXCEPT ![c] = Tail(@)]
    /\ Drop(c)
    /\ Forget(c)
    /\ UNCHANGED <<accepting, asks, answers, reads, expired, taken, front, queue, running, stage, status, contentType, processVars>>
-----------------------------------------------------------------------------
(* Routing.                                                                *)

\* HandleRequest asks for the local endpoint of the socket, which throws when
\* the system finds the client gone.
EndpointFails(c) ==
    /\ front[c] = "received" /\ client[c] = "gone"
    /\ front' = [front EXCEPT ![c] = "none"]
    /\ Throw
    /\ UNCHANGED <<accepting, clientVars, ioVars, queue, running, makeVars, logged>>

\* A request for the icon is not answered, and nobody holds its session.
Favicon(c) ==
    /\ front[c] = "received"
    /\ front' = [front EXCEPT ![c] = "none"]
    /\ Drop(c)
    /\ UNCHANGED <<accepting, asks, answers, ioVars, queue, running, makeVars, logged, processVars>>

\* net::dispatch: the handler runs at once if nothing else is in the strand,
\* and later, on any thread, otherwise.
DispatchApi(c) ==
    /\ front[c] = "received"
    /\ \/ /\ StrandFree
          /\ running' = c
          /\ front' = [front EXCEPT ![c] = "inside"]
          /\ stage' = [stage EXCEPT ![c] = "making"]
          /\ UNCHANGED queue
       \/ /\ ~StrandFree
          /\ queue' = Append(queue, c)
          /\ front' = [front EXCEPT ![c] = "reporting"]
          /\ UNCHANGED <<running, stage>>
    /\ UNCHANGED <<accepting, clientVars, ioVars, response, status, contentType, logged, processVars>>

\* A file request is handled on the thread that read it.
FileRequest(c) ==
    /\ front[c] = "received"
    /\ front' = [front EXCEPT ![c] = "page"]
    /\ stage' = [stage EXCEPT ![c] = "making"]
    /\ UNCHANGED <<accepting, clientVars, ioVars, queue, running, response, status, contentType, logged, processVars>>

\* The timer of the ticker brings OnTick to the strand, as net::dispatch does.
TickIsDue ==
    /\ running # Ticker /\ \A i \in DOMAIN queue : queue[i] # Ticker
    /\ ThreadFree
    /\ IF StrandFree THEN running' = Ticker /\ UNCHANGED queue
                     ELSE queue' = Append(queue, Ticker) /\ UNCHANGED running
    /\ UNCHANGED <<accepting, clientVars, ioVars, front, makeVars, logged, processVars>>

\* The strand runs its next task on some thread.
RunNext ==
    /\ running = Nobody /\ queue # <<>> /\ ThreadFree
    /\ running' = Head(queue)
    /\ queue' = Tail(queue)
    /\ stage' = IF Head(queue) = Ticker THEN stage
                ELSE [stage EXCEPT ![Head(queue)] = "making"]
    /\ UNCHANGED <<accepting, clientVars, ioVars, front, response, status, contentType, logged, processVars>>

TickDone ==
    /\ running = Ticker
    /\ running' = Nobody
    /\ UNCHANGED <<accepting, clientVars, ioVars, front, queue, makeVars, logged, processVars>>
-----------------------------------------------------------------------------
(* Making a response, in the strand or beside it.                          *)

ByApi(c) == running = c

\* HandleApiRequest or HandleFileRequest, or ReportServerError after they threw.
Make(c) ==
    /\ stage[c] = "making"
    /\ \E r \in (IF ByApi(c) THEN ApiResponses ELSE FileResponses) \cup {ServerError} :
         response' = [response EXCEPT ![c] = r]
    /\ stage' = [stage EXCEPT ![c] = "typing"]
    /\ UNCHANGED <<accepting, clientVars, ioVars, front, queue, running, status, contentType, logged, processVars>>

\* Another thread is assigning content_type_, a std::string: whoever touches it
\* meanwhile may find anything in it, or ruin the heap.
Race(c) == \E d \in Conns \ {c} : stage[d] = "typing"

SetContentType(c) ==
    /\ stage[c] = "typing"
    /\ \/ contentType' = response[c].type /\ UNCHANGED process
       \/ Race(c) /\ contentType' = "garbage" /\ UNCHANGED process
       \/ Race(c) /\ process' = "down" /\ UNCHANGED contentType
    /\ stage' = [stage EXCEPT ![c] = "coding"]
    /\ UNCHANGED <<accepting, clientVars, ioVars, front, queue, running, response, status, logged, mainRuns>>

SetStatus(c) ==
    /\ stage[c] = "coding"
    /\ status' = response[c].code
    /\ stage' = [stage EXCEPT ![c] = "sending"]
    /\ UNCHANGED <<accepting, clientVars, ioVars, front, queue, running, response, contentType, logged, processVars>>

\* send: the write begins, on whatever thread this is.  The lambda of the API
\* has its own GetLogInfo to go on with; after an exception it ends without the
\* value it promised, which is undefined.
Send(c) ==
    LET left == ByApi(c) /\ response[c] # ServerError IN
    /\ stage[c] = "sending"
    /\ writes' = [writes EXCEPT ![c] = Append(@, taken[c])]
    /\ stage' = [stage EXCEPT ![c] = "none"]
    /\ front' = [front EXCEPT ![c] = IF @ = "inside" /\ left THEN "leaving"
                                    ELSE IF @ \in {"inside", "page"} THEN "reporting" ELSE @]
    /\ running' = IF left THEN Leaving ELSE IF ByApi(c) THEN Nobody ELSE running
    /\ \/ UNCHANGED process
       \/ ByApi(c) /\ ~left /\ process' = "down"
    /\ UNCHANGED <<accepting, clientVars, reads, expired, taken, queue, response, status, contentType, logged, mainRuns>>

\* send throws, for lack of memory: ReportServerError is made and sent instead.
SendFails(c) ==
    /\ stage[c] = "sending" /\ response[c] # ServerError
    /\ response' = [response EXCEPT ![c] = ServerError]
    /\ stage' = [stage EXCEPT ![c] = "typing"]
    /\ UNCHANGED <<accepting, clientVars, ioVars, front, queue, running, status, contentType, logged, processVars>>

\* The send of ReportServerError throws, and nothing catches that.  A dispatch
\* that runs its handler at once returns before Asio lets the exception out.
ReportingFails(c) ==
    /\ stage[c] = "sending" /\ response[c] = ServerError
    /\ stage' = [stage EXCEPT ![c] = "none"]
    /\ front' = [front EXCEPT ![c] = CASE @ = "inside" -> "reporting"
                                      [] @ = "page" -> "none"
                                      [] OTHER -> @]
    /\ running' = IF ByApi(c) THEN Nobody ELSE running
    /\ Drop(c)
    /\ Throw
    /\ UNCHANGED <<accepting, asks, answers, ioVars, queue, response, status, contentType, logged>>

\* GetLogInfo of the lambda copies content_type_, for nobody to read.
Leave ==
    /\ running = Leaving
    /\ running' = Nobody
    /\ front' = [c \in Conns |-> IF front[c] = "leaving" THEN "reporting" ELSE front[c]]
    /\ \/ UNCHANGED process
       \/ (\E d \in Conns : stage[d] = "typing") /\ process' = "down"
    /\ UNCHANGED <<accepting, clientVars, ioVars, queue, makeVars, logged, mainRuns>>

\* GetLogInfo and LogResponse, on the thread that read the request.
Report(c) ==
    /\ front[c] = "reporting"
    /\ \/ /\ \E t \in {contentType} \cup (IF Race(c) THEN {"garbage"} ELSE {}) :
               logged' = [logged EXCEPT ![c] = [code |-> status, type |-> t]]
          /\ UNCHANGED process
       \/ Race(c) /\ process' = "down" /\ UNCHANGED logged
    /\ front' = [front EXCEPT ![c] = "none"]
    /\ UNCHANGED <<accepting, clientVars, ioVars, queue, running, makeVars, mainRuns>>
-----------------------------------------------------------------------------
\* What a thread does next in a handler it is in.
Proceed(c) ==
    \/ EndpointFails(c) \/ Favicon(c) \/ DispatchApi(c) \/ FileRequest(c)
    \/ Make(c) \/ SetContentType(c) \/ SetStatus(c)
    \/ Send(c) \/ SendFails(c) \/ ReportingFails(c) \/ Report(c)

\* The completion of an operation of a session.
Complete(c) == OnRead(c) \/ OnReadEnd(c) \/ OnWrite(c) \/ OnWriteError(c)

ServerStep ==
    \/ OnAcceptError \/ TickIsDue \/ RunNext \/ TickDone \/ Leave
    \/ \E c \in Conns :
         Ask(c) \/ HangUp(c) \/ Deadline(c) \/ OnAccept(c) \/ Complete(c) \/ Proceed(c)

\* The process has ended and stays so.
Ended == process = "down" /\ UNCHANGED vars

Next == (process = "up" /\ ServerStep) \/ Ended

Spec == Init /\ [][Next]_vars

Running(A) == process = "up" /\ A

\* A handler goes on; io_context runs what is ready in the order in which it
\* became ready, so that nothing that is ready again and again is passed over
\* for ever; time passes.  Nobody has to ask, to hang up or to take an answer.
Fairness ==
    /\ WF_vars(Running(TickDone \/ Leave))
    /\ SF_vars(Running(RunNext))
    /\ \A c \in Conns :
         /\ WF_vars(Running(Proceed(c)))
         /\ WF_vars(Running(Deadline(c)))
         /\ SF_vars(Running(OnReadEnd(c) \/ OnWriteError(c)))
FairSpec == Spec /\ Fairness
-----------------------------------------------------------------------------
\* Every variable has its type.
TypeOK ==
    /\ accepting \in BOOLEAN
    /\ client \in [Conns -> {"away", "connected", "gone", "closed"}]
    /\ asks \in [Conns -> 0 .. MaxRequests]
    /\ taken \in [Conns -> 0 .. MaxRequests]
    /\ answers \in [Conns -> Seq(1 .. MaxRequests)]
    /\ expired \in [Conns -> BOOLEAN]
    /\ reads \in [Conns -> Nat]
    /\ writes \in [Conns -> Seq(1 .. MaxRequests)]
    /\ front \in [Conns -> {"none", "received", "inside", "leaving", "page", "reporting"}]
    /\ queue \in Seq(Conns \cup {Ticker})
    /\ running \in Conns \cup {Ticker, Leaving, Nobody}
    /\ stage \in [Conns -> {"none", "making", "typing", "coding", "sending"}]
    /\ response \in [Conns -> Responses \cup {Nothing}]
    /\ mainRuns \in BOOLEAN /\ process \in {"up", "down"}

\* The request of a connection that was read and whose answer was not sent yet.
Waiting(c) == Cardinality({i \in DOMAIN queue : queue[i] = c})
InHand(c) ==
    Waiting(c) + (IF running = c THEN 1 ELSE 0)
               + (IF front[c] \in {"received", "page"} THEN 1 ELSE 0)

\* A session has exactly one thing to wait for: a read, a request in hand, or a
\* write.  With none, its client would wait for nobody; with two, two reads
\* would share request_, or two answers would mix on the stream, which may have
\* one write at a time (http_server.h:47, http_server.cpp:33-38).
OneThingAtATime ==
    process = "up" => \A c \in Conns :
        LET pending == reads[c] + Len(writes[c]) + InHand(c)
        IN  /\ client[c] = "connected" => pending = 1
            /\ client[c] = "gone" => pending =< 1
            /\ client[c] \in {"away", "closed"} => pending = 0

\* The handlers of the API, which touch the game without a lock, run one at a
\* time and never beside a tick (request_handler.h:125-126).
GameTouchedByOne ==
    \A c \in Conns : stage[c] # "none" /\ front[c] # "page" => running = c

\* What is logged as a response sent is the code and the type of the response
\* (log_response.h:60-68, 145-149).
LogTruthful ==
    process = "up" => \A c \in Conns :
        writes[c] # <<>> /\ front[c] = "none" => logged[c] = response[c]

\* Whatever a client has asked is answered, or the client sees the end of the
\* connection or of the process; it does not wait for ever, whatever the others
\* do (http_server.cpp:19-24, 33-56).
RequestIsSettled ==
    \A c \in Conns :
        asks[c] > Len(answers[c]) ~>
            asks[c] = Len(answers[c]) \/ client[c] \in {"gone", "closed"} \/ process = "down"
-----------------------------------------------------------------------------
Promise == INSTANCE Exchange WITH
    open <- IF process = "up" THEN {c \in Conns : client[c] = "connected"} ELSE {}

\* Requests are answered in order, and each at most once.
ExchangeSpec == Promise!ExchangeSpec
=============================================================================
