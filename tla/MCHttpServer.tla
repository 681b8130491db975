---------------------------- MODULE MCHttpServer ----------------------------
(***************************************************************************)
(* Three connections for two workers and at most three answers a connection: *)
(* a client that waits for its answers and asks for the end, one that        *)
(* pipelines and whose first line is not HTTP, and one that stays silent.    *)
(***************************************************************************)
EXTENDS HttpServer

CONSTANTS c1, c2, c3, w1, w2

Request(good, path, value, connection) ==
  [good |-> good, path |-> path, value |-> value, connection |-> connection]

MCConn == {c1, c2, c3}
MCWorker == {w1, w2}
MCPipelining == {c2}
MCRequests ==
  [c \in MCConn |->
     CASE c = c1 -> <<Request(TRUE, "/other", "", "keep-alive"),
                      Request(TRUE, "/scheuling-algorithm", "dsi", "close")>>
       [] c = c2 -> <<Request(FALSE, "/log-level", "DEBUG", "keep-alive"),
                      Request(TRUE, "/log-level", "DEBUG", "HTTP/1.0")>>
       [] c = c3 -> <<>>]
MCRoutes == {"/log-level", "/scheuling-algorithm"}
MCLevels == {"INFO", "DEBUG"}
MCAlgorithms == {"dcs", "dsi", "dfa", "auto"}
==============================================================================
