------------------------------ MODULE Streams ------------------------------
(***************************************************************************)
(* Streamed answers (src/src/http/aiStream.ts; the loop of the RAG route,  *)
(* src/src/http/routes/ragChat.ts, is the same): the handler pulls chunks  *)
(* from the provider's generator and writes them to a client that reads    *)
(* slowly or leaves.                                                       *)
(*                                                                         *)
(* The provider's timer runs from the request until the generator's        *)
(* finally block, whether or not the generator is at work.                 *)
(***************************************************************************)
CONSTANT Chats  \* streaming requests, each made once

Phases == {"new", "open", "pull", "drain", "finish", "drainLast", "ended"}
Drains == {"drain", "drainLast"}

VARIABLES
    handler,  \* handler[s]: where the handler of request s is
    client,   \* client[s]: "slow", "reading", or "gone"
    upstream  \* upstream[s]: the connection to the provider

streamVars == <<handler, client, upstream>>

Init ==
    /\ handler = [s \in Chats |-> "new"]
    /\ client = [s \in Chats |-> "reading"]
    /\ upstream = [s \in Chats |-> "none"]

Goto(s, phase) == handler' = [handler EXCEPT ![s] = phase]
CloseUpstream(s) == upstream' = [upstream EXCEPT ![s] = "closed"]

\* writeSse: a full buffer is waited for, and only 'drain' ends the wait.
Write(s, drain, phase) ==
    \/ client[s] = "reading" /\ Goto(s, phase) /\ UNCHANGED client
    \/ client[s] = "reading" /\ Goto(s, drain) /\ client' = [client EXCEPT ![s] = "slow"]

\* The provider is resolved, the socket taken over, and the generator started.
BeginChat(s) ==
    /\ handler[s] = "new"
    /\ Goto(s, "open")
    /\ upstream' = [upstream EXCEPT ![s] = "requested"]
    /\ UNCHANGED client

\* chatStream: the provider answers with a body to read.
Connect(s) ==
    /\ handler[s] = "open" /\ upstream[s] = "requested"
    /\ Goto(s, "pull")
    /\ upstream' = [upstream EXCEPT ![s] = "streaming"]
    /\ UNCHANGED client

\* One event yields a chunk: it is written, unless the client has gone, which ends
\* the loop and with it the generator.
Chunk(s) ==
    /\ handler[s] = "pull" /\ upstream[s] = "streaming"
    /\ IF client[s] = "gone"
         THEN Goto(s, "finish") /\ CloseUpstream(s) /\ UNCHANGED client
         ELSE Write(s, "drain", "pull") /\ UNCHANGED upstream

\* The last chunk: the generator is left after the write.
LastChunk(s) ==
    /\ handler[s] = "pull" /\ upstream[s] = "streaming" /\ client[s] # "gone"
    /\ Write(s, "drain", "finish")
    /\ CloseUpstream(s)

\* HTTP error, no body, or a connection that breaks: the generator throws, the
\* handler writes an error without waiting and ends.
UpstreamFails(s) ==
    /\ handler[s] \in {"open", "pull"}
    /\ Goto(s, "ended") /\ CloseUpstream(s)
    /\ UNCHANGED client

\* The 'drain' event: back to the loop, which finds the generator as it is by then.
Drained(s) ==
    /\ handler[s] \in Drains /\ client[s] = "slow"
    /\ client' = [client EXCEPT ![s] = "reading"]
    /\ Goto(s, IF handler[s] = "drainLast" THEN "ended"
               ELSE IF upstream[s] = "streaming" THEN "pull" ELSE "finish")
    /\ UNCHANGED upstream

\* The done event for a client that is there, and the end of the response.
Finish(s) ==
    /\ handler[s] = "finish"
    /\ IF client[s] = "gone" THEN Goto(s, "ended") /\ UNCHANGED client
       ELSE Write(s, "drainLast", "ended")
    /\ UNCHANGED upstream

\* Mutant: the timer is forgotten while the handler waits for the client.
TimeoutWhilePulling(s) ==
    /\ upstream[s] \in {"requested", "streaming"} /\ handler[s] \in {"open", "pull"}
    /\ CloseUpstream(s)
    /\ Goto(s, "ended")
    /\ UNCHANGED client

\* The provider's timer aborts the request: a pending read throws, a handler that
\* waits for its client goes on waiting.
Timeout(s) ==
    /\ upstream[s] \in {"requested", "streaming"}
    /\ CloseUpstream(s)
    /\ IF handler[s] \in {"open", "pull"} THEN Goto(s, "ended") ELSE UNCHANGED handler
    /\ UNCHANGED client

ClientLeaves(s) ==
    /\ client[s] # "gone" /\ handler[s] # "new"
    /\ client' = [client EXCEPT ![s] = "gone"]
    /\ UNCHANGED <<handler, upstream>>

Next == \E s \in Chats :
    \/ BeginChat(s) \/ Connect(s) \/ Chunk(s) \/ LastChunk(s) \/ UpstreamFails(s)
    \/ Drained(s) \/ Finish(s) \/ Timeout(s) \/ ClientLeaves(s)

\* Timers fire, the event loop goes on, and a client that keeps the handler waiting
\* reads on or is given up by TCP.  Chunks need not ever come.
Fairness == \A s \in Chats :
    /\ WF_streamVars(Timeout(s))
    /\ WF_streamVars(Finish(s))
    /\ WF_streamVars(handler[s] \in Drains /\ (Drained(s) \/ ClientLeaves(s)))

Spec == Init /\ [][Next]_streamVars /\ Fairness
-----------------------------------------------------------------------------
\* Every variable keeps its type.
TypeOK ==
    /\ handler \in [Chats -> Phases]
    /\ client \in [Chats -> {"slow", "reading", "gone"}]
    /\ upstream \in [Chats -> {"none", "requested", "streaming", "closed"}]

\* Whatever the client does, the connection to the provider is given up, and the
\* handler ends, unless its client left while it waited for 'drain', which never
\* comes then (aiStream.ts:10-12, 33-39).
StreamsEnd ==
    \A s \in Chats :
        handler[s] = "open" ~>
            /\ upstream[s] = "closed"
            /\ handler[s] = "ended" \/ (handler[s] \in Drains /\ client[s] = "gone")
=============================================================================
