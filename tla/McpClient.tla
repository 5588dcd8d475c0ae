----------------------------- MODULE McpClient -----------------------------
(***************************************************************************)
(* An MCP client and the server at the other end of its pipes (mcp/): the  *)
(* handshake and the listing of the tools run in the event loop that made  *)
(* the connection, tool calls run in a worker thread, each in an event     *)
(* loop of its own, while the first loop waits for the thread.             *)
(***************************************************************************)
EXTENDS Naturals, Sequences

CONSTANT MaxIds  \* bound on the requests of a connection

ASSUME McpAssumption == MaxIds \in Nat

VARIABLES link,        \* the client
          server,      \* the process
          initialized, \* the server's _initialized
          lastId,      \* _request_counter
          inbox,       \* what the server has still to read
          replies,     \* what the server wrote and the client's loop has not read
          buffer,      \* what the loop has read and no request has taken
          listing,     \* the request of the handshake or of list_tools that waits, or 0
          answers      \* what a request got: the id of a response, or how it stands

mcpVars == <<link, server, initialized, lastId, inbox, replies, buffer, listing, answers>>

Ids == 1..MaxIds

MessageKinds == {"initialize", "initialized", "tools/list", "tools/call"}

Message  == [id : 0..MaxIds, kind : MessageKinds]
Response == [id : Ids, error : BOOLEAN]

Answer == [state : {"none", "waiting", "raised", "returned"}, to : 0..MaxIds]

Unanswered(state) == [state |-> state, to |-> 0]

McpTypeOK ==
    /\ link \in {"none", "initializing", "connected", "closed"}
    /\ server \in {"none", "running", "dead"}
    /\ initialized \in BOOLEAN
    /\ lastId \in 0..MaxIds
    /\ inbox \in Seq(Message)
    /\ replies \in Seq(Response)
    /\ buffer \in Seq(Response)
    /\ listing \in 0..MaxIds
    /\ answers \in [Ids -> Answer]

McpInit ==
    /\ link = "none"
    /\ server = "none"
    /\ initialized = FALSE
    /\ lastId = 0
    /\ inbox = <<>>
    /\ replies = <<>>
    /\ buffer = <<>>
    /\ listing = 0
    /\ answers = [i \in Ids |-> Unanswered("none")]

-----------------------------------------------------------------------------
\* _next_id and the message that carries it.
NextId == lastId' = lastId + 1

Request(kind) == [id |-> lastId + 1, kind |-> kind]

\* read_message takes the next message, whatever request it answers.
Taken(i) ==
    [answers EXCEPT ![i] = IF Head(buffer).error THEN Unanswered("raised")
                           ELSE [state |-> "returned", to |-> Head(buffer).id]]

\* _terminate: the process and the streams are dropped.
Terminate ==
    /\ link' = "closed"
    /\ server' = "none"
    /\ inbox' = <<>>
    /\ replies' = <<>>
    /\ buffer' = <<>>
    /\ listing' = 0

-----------------------------------------------------------------------------
\* connect: start the process and ask for initialize.
Connect ==
    /\ link = "none"
    /\ lastId < MaxIds
    /\ \/ /\ link' = "initializing"
          /\ server' = "running"
          /\ NextId
          /\ inbox' = <<Request("initialize")>>
          /\ listing' = lastId + 1
          /\ answers' = [answers EXCEPT ![lastId + 1] = Unanswered("waiting")]
       \/ /\ link' = "closed"      \* no such command
          /\ UNCHANGED <<server, lastId, inbox, listing, answers>>
    /\ UNCHANGED <<initialized, replies, buffer>>

\* The response of initialize arrives.
Handshake ==
    /\ link = "initializing"
    /\ buffer # <<>>
    /\ answers' = Taken(listing)
    /\ \/ /\ Head(buffer).error
          /\ Terminate
       \/ /\ ~Head(buffer).error
          /\ link' = "connected"
          /\ inbox' = Append(inbox, [id |-> 0, kind |-> "initialized"])
          /\ buffer' = Tail(buffer)
          /\ listing' = 0
          /\ UNCHANGED <<server, replies>>
    /\ UNCHANGED <<initialized, lastId>>

\* It does not come within the timeout, or the stream ends.
HandshakeFails ==
    /\ link = "initializing"
    /\ answers' = [answers EXCEPT ![listing] = Unanswered("raised")]
    /\ Terminate
    /\ UNCHANGED <<initialized, lastId>>

\* register_mcp_tools calls list_tools once, in the loop that made the connection.
ListTools ==
    /\ link = "connected"
    /\ lastId = 1
    /\ lastId < MaxIds
    /\ NextId
    /\ inbox' = Append(inbox, Request("tools/list"))
    /\ listing' = lastId + 1
    /\ answers' = [answers EXCEPT ![lastId + 1] = Unanswered("waiting")]
    /\ UNCHANGED <<link, server, initialized, replies, buffer>>

ToolsListed ==
    /\ link = "connected"
    /\ listing # 0
    /\ \/ /\ buffer # <<>>
          /\ answers' = Taken(listing)
          /\ buffer' = Tail(buffer)
       \/ /\ buffer = <<>> /\ replies = <<>> /\ server = "dead"
          /\ answers' = [answers EXCEPT ![listing] = Unanswered("raised")]
          /\ UNCHANGED buffer
    /\ listing' = 0
    /\ UNCHANGED <<link, server, initialized, lastId, inbox, replies>>

\* The handler of a tool runs call_tool in a loop of its own.  The request is
\* written; a response that is in the buffer already is taken, but to wait for one
\* is an error, for the reader belongs to the other loop.
CallTool ==
    /\ link = "connected"
    /\ lastId \in 2..(MaxIds - 1)
    /\ answers[2].state = "returned"
    /\ NextId
    /\ inbox' = IF server = "running" THEN Append(inbox, Request("tools/call")) ELSE inbox
    /\ \/ /\ buffer # <<>>
          /\ answers' = Taken(lastId + 1)
          /\ buffer' = Tail(buffer)
       \/ /\ buffer = <<>>
          /\ answers' = [answers EXCEPT ![lastId + 1] = Unanswered("raised")]
          /\ UNCHANGED buffer
    /\ UNCHANGED <<link, server, initialized, replies, listing>>

\* The loop gets a turn and reads what is in the pipe.
LoopReads ==
    /\ replies # <<>>
    /\ buffer' = buffer \o replies
    /\ replies' = <<>>
    /\ UNCHANGED <<link, server, initialized, lastId, inbox, listing, answers>>

CloseClient ==
    /\ link = "connected"
    /\ Terminate
    /\ answers' = [i \in Ids |-> IF answers[i].state = "waiting"
                              THEN Unanswered("raised") ELSE answers[i]]
    /\ UNCHANGED <<initialized, lastId>>

\* _handle_message: one message after the other.
ServerHandles ==
    /\ server = "running"
    /\ inbox # <<>>
    /\ inbox' = Tail(inbox)
    /\ initialized' = (initialized \/ Head(inbox).kind = "initialize")
    /\ \/ /\ Head(inbox).kind = "initialized"
          /\ UNCHANGED replies
       \/ /\ Head(inbox).kind # "initialized"
          /\ \E e \in BOOLEAN :
                /\ ~initialized' => e
                /\ Head(inbox).kind = "initialize" => ~e
                /\ replies' = Append(replies, [id |-> Head(inbox).id, error |-> e])
    /\ UNCHANGED <<link, server, lastId, buffer, listing, answers>>

ServerDies ==
    /\ server = "running"
    /\ server' = "dead"
    /\ inbox' = <<>>
    /\ UNCHANGED <<link, initialized, lastId, replies, buffer, listing, answers>>

McpNext ==
    \/ Connect
    \/ Handshake
    \/ HandshakeFails
    \/ ListTools
    \/ ToolsListed
    \/ CallTool
    \/ LoopReads
    \/ CloseClient
    \/ ServerHandles
    \/ ServerDies

McpSpec == McpInit /\ [][McpNext]_mcpVars

-----------------------------------------------------------------------------
\* "Call an MCP tool and return its text content" (mcp/client.py:127): what a call
\* returns is the answer to that call.
AnswersOwnCall ==
    \A i \in Ids : answers[i].state = "returned" => answers[i].to = i

=============================================================================
