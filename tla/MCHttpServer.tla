---------------------------- MODULE MCHttpServer ----------------------------
(* Instances of HttpServer for model checking: the responses of the server *)
(* by their codes and content types, and the loads of two connections.     *)
EXTENDS HttpServer, TLC

CONSTANTS c1, c2

Ok == [code |-> 200, type |-> "json"]
Refused == [code |-> 401, type |-> "json"]
Page == [code |-> 200, type |-> "html"]
NoPage == [code |-> 404, type |-> "plain"]
Error500 == [code |-> 500, type |-> "spaced json"]

\* Where nobody looks at the log, the types need not be told apart.
AnyError == [code |-> 500, type |-> "json"]

OneApiResponse == {Ok}
OneFileResponse == {Page}
TwoApiResponses == {Ok, Refused}
TwoFileResponses == {Page, NoPage}

\* Two requests on one connection, while the other client only connects, or
\* one request on each.
Each == [c \in Conns |-> 1]
TwoInTurn == [c \in Conns |-> IF c = c1 THEN 2 ELSE 0]
OneEach == {Each}
OneEachOrTwo == {Each, TwoInTurn}
=============================================================================
