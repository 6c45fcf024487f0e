------------------------------ MODULE Exchange ------------------------------
(***************************************************************************)
(* What an HTTP server promises to its clients: on a connection, requests  *)
(* are answered one by one, in the order in which they were sent, and each *)
(* at most once.  Either side may end the connection at any time.          *)
(***************************************************************************)
EXTENDS Naturals, Sequences

CONSTANT Conns

VARIABLES
    open,    \* the connections that are established
    asks,    \* how many requests were sent on a connection
    answers  \* the requests that were answered, in the order of the answers

ExchangeInit ==
    /\ open = {}
    /\ asks = [c \in Conns |-> 0]
    /\ answers = [c \in Conns |-> <<>>]

Begin(c) == c \notin open /\ asks[c] = 0 /\ open' = open \cup {c} /\ UNCHANGED <<asks, answers>>

Ask(c) ==
    /\ c \in open
    /\ asks' = [asks EXCEPT ![c] = @ + 1]
    /\ UNCHANGED <<open, answers>>

\* The last answer may be the last thing that happens on the connection.
Answer(c) ==
    /\ c \in open
    /\ Len(answers[c]) < asks[c]
    /\ answers' = [answers EXCEPT ![c] = Append(@, Len(@) + 1)]
    /\ open' \in {open, open \ {c}}
    /\ UNCHANGED asks

\* The end of the process ends all connections.
End == \E gone \in SUBSET open : open' = open \ gone /\ UNCHANGED <<asks, answers>>

ExchangeNext == End \/ \E c \in Conns : Begin(c) \/ Ask(c) \/ Answer(c)

ExchangeSpec == ExchangeInit /\ [][ExchangeNext]_<<open, asks, answers>>
=============================================================================
