------------------------------- MODULE LlmCall -------------------------------
(***************************************************************************)
(* One request of the HTTP client of dsh-lite-cpp (llm_client.cpp): what   *)
(* is refused before it is sent, how a streamed answer is received, and    *)
(* how a call that fails is classified: as a stall only if the receiver    *)
(* got no byte for (nearly) the stall interval. The receiver gets the body *)
(* of the answer, not its headers. Time passes in ticks.                   *)
(***************************************************************************)
EXTENDS Integers

CONSTANTS
  Endpoint,    \* bound: the endpoints tried, of EndpointKinds
  StallCap,    \* stallNoBytesMs, in ticks
  Timeout,     \* timeout, in ticks: connecting, and reading when no stall is armed
  MaxChunks,   \* bound: the chunks of a stream
  MaxLlmPosts  \* bound: the posts of one client

EndpointKinds == {"no scheme", "no host", "loopback", "remote"}

ASSUME LlmConstants ==
  /\ Endpoint \subseteq EndpointKinds
  /\ StallCap \in Nat \ {0} /\ Timeout \in Nat \ {0}
  /\ MaxChunks \in Nat /\ MaxLlmPosts \in Nat

VARIABLES
  llm,     \* the call in progress: its request and what the receiver knows
  posts,   \* calls begun
  total,   \* total_ and requests_: tokens and answers
  headers, \* header bytes of the answer came before its body
  quiet    \* history: ticks since the wire last carried a byte, or the call began

llmVars == <<llm, posts, total, headers, quiet>>

(***************************************************************************)
(* What a call must have before it is sent. A constrained one renders its  *)
(* response format first, which may refuse it.                             *)
(***************************************************************************)
SplitUrl(endpoint) == endpoint \notin {"no scheme", "no host"}
IsLoopback(endpoint) == endpoint = "loopback"
Sendable(req) ==
  /\ req.constrained => req.wire
  /\ SplitUrl(req.endpoint)
  /\ IsLoopback(req.endpoint) \/ req.key
  /\ req.model

StallArmed(req) == req.stream /\ req.stall
ReadTimeout(req) == IF StallArmed(req) THEN StallCap ELSE Timeout

Request ==
  [endpoint : Endpoint, key : BOOLEAN, model : BOOLEAN, stream : BOOLEAN,
   stall : BOOLEAN, constrained : BOOLEAN, wire : BOOLEAN]

NoCall == [pc |-> "idle"]

LlmInit ==
  /\ llm = NoCall /\ posts = 0 /\ total = [tokens |-> 0, requests |-> 0]
  /\ headers = FALSE /\ quiet = 0

\* The receiver's state at the start: no byte seen, no token, nothing kept.
Sse == [clock |-> 0, saw |-> FALSE, last |-> 0, maxIdle |-> -1, ttft |-> -1, chunks |-> 0,
        content |-> 0, reasoning |-> 0, usage |-> -1, partial |-> FALSE]

PostCall(req) ==
  /\ llm.pc # "open" /\ posts < MaxLlmPosts
  /\ posts' = posts + 1
  /\ llm' = [pc |-> IF Sendable(req) THEN "open" ELSE "over", req |-> req, sse |-> Sse,
             reply |-> "none", outcome |-> IF Sendable(req) THEN "none" ELSE "refused"]
  /\ headers' = FALSE /\ quiet' = 0
  /\ UNCHANGED total

\* The read timeout is armed again by every receive, and only by that.
LlmTick ==
  /\ llm.pc = "open" /\ quiet < ReadTimeout(llm.req)
  /\ llm' = [llm EXCEPT !.sse.clock = @ + 1]
  /\ quiet' = quiet + 1
  /\ UNCHANGED <<posts, total, headers>>

\* The headers of a stream may come well before its first chunk. The library
\* takes them, and the receiver is not called.
HeadersCome ==
  /\ llm.pc = "open" /\ llm.req.stream /\ ~llm.sse.saw /\ ~headers
  /\ headers' = TRUE /\ quiet' = 0
  /\ UNCHANGED <<llm, posts, total>>

(***************************************************************************)
(* A chunk of the stream. Any bytes stamp the receiver; only a non-empty   *)
(* piece of content counts as a token and ends the wait for the first one. *)
(***************************************************************************)
Stamped(sse) ==
  [sse EXCEPT
     !.maxIdle = IF ~sse.saw THEN 0
                 ELSE IF sse.clock - sse.last > @ THEN sse.clock - sse.last ELSE @,
     !.saw = TRUE, !.last = sse.clock, !.chunks = @ + 1]

Delta(sse, kind) ==
  CASE kind = "content"   -> [sse EXCEPT !.content = @ + 1,
                                         !.ttft = IF @ < 0 THEN sse.clock ELSE @]
    [] kind = "reasoning" -> [sse EXCEPT !.reasoning = @ + 1]
    [] kind = "usage"     -> [sse EXCEPT !.usage = sse.content + 1]
    [] OTHER              -> sse   \* keepalive, malformed frame, [DONE]

Receiving == llm.pc = "open" /\ llm.req.stream /\ llm.sse.chunks < MaxChunks

Chunk(kind) ==
  /\ Receiving
  /\ llm' = [llm EXCEPT !.sse = Delta(Stamped(@), kind)]
  /\ quiet' = 0
  /\ UNCHANGED <<posts, total, headers>>

\* A line the stream has not ended is kept, and looked at when it is over.
PartialContent ==
  /\ Receiving /\ ~llm.sse.partial
  /\ llm' = [llm EXCEPT !.sse = [Stamped(@) EXCEPT !.partial = TRUE]]
  /\ quiet' = 0
  /\ UNCHANGED <<posts, total, headers>>

(***************************************************************************)
(* The end of the call. A read error is reported both for silence and for  *)
(* a connection that closed early: the time of the last byte decides.      *)
(***************************************************************************)
EndCall(reply, outcome) ==
  /\ llm.pc = "open"
  /\ llm' = [llm EXCEPT !.pc = "over", !.reply = reply, !.outcome = outcome]
  /\ UNCHANGED <<posts, headers, quiet>>

SilentFor_sinceStart(sse) == sse.clock

SilentFor(sse) == sse.clock - (IF sse.saw THEN sse.last ELSE 0)
IsStall(c) == StallArmed(c.req) /\ 10 * SilentFor(c.sse) >= 9 * StallCap

ReadFails ==
  /\ llm.pc = "open"
  /\ EndCall("read error", IF IsStall(llm) THEN "stall" ELSE "transport")
  /\ UNCHANGED total

SendFails ==
  /\ llm.pc = "open" /\ ~llm.sse.saw /\ ~headers
  /\ EndCall("unreachable", "transport")
  /\ UNCHANGED total

\* A status other than 200. The body of a streamed one went through the
\* receiver, which keeps what follows the last line end: that of a body that
\* ends with one is gone.
StatusFails(status, lineEnd) ==
  /\ llm.pc = "open" /\ ~llm.sse.saw
  /\ EndCall(status, IF status = "refusal" /\ llm.req.constrained /\ ~(llm.req.stream /\ lineEnd)
                      THEN "grammar-unsupported" ELSE "http")
  /\ UNCHANGED total

\* The tokens of an answer: the usage the engine reports, or what a stream
\* showed of content. A whole answer (not streamed) that does not parse throws.
Tokens(sse) == IF sse.usage >= 0 THEN sse.usage ELSE sse.content + (IF sse.partial THEN 1 ELSE 0)

AnswerComes(parses, usage) ==
  /\ llm.pc = "open"
  /\ EndCall("answer", IF llm.req.stream \/ parses THEN "answered" ELSE "malformed")
  /\ total' = IF ~llm.req.stream /\ ~parses THEN total
              ELSE [tokens |-> total.tokens + (IF llm.req.stream THEN Tokens(llm.sse) ELSE usage),
                    requests |-> total.requests + 1]

LlmNext ==
  \/ \E req \in Request : PostCall(req)
  \/ LlmTick
  \/ HeadersCome
  \/ \E kind \in {"content", "reasoning", "usage", "other"} : Chunk(kind)
  \/ PartialContent
  \/ ReadFails \/ SendFails
  \/ \E status \in {"refusal", "http"}, lineEnd \in BOOLEAN : StatusFails(status, lineEnd)
  \/ \E parses \in BOOLEAN, usage \in {0, 1} : AnswerComes(parses, usage)

LlmSpec == LlmInit /\ [][LlmNext]_llmVars

(***************************************************************************)
(* Properties.                                                             *)
(***************************************************************************)

\* A call ends as a stall only if the wire was silent for nine tenths of the
\* stall interval, or only headers had come: an engine that answers slowly, with
\* content, reasoning or empty keepalives, is never taken for one that stands
\* still (llm_client.cpp:287-303). Headers renew nothing: late ones that an end
\* of stream follows may count as a stall.
AliveIsNotStalled ==
  llm.pc = "over" /\ llm.outcome = "stall" =>
    10 * quiet >= 9 * StallCap \/ (headers /\ ~llm.sse.saw)

=============================================================================
