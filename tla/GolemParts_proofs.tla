-------------------------- MODULE GolemParts_proofs ---------------------------
(*****************************************************************************)
(* Proofs about the parts of dsh-lite-cpp that stand on their own: the two   *)
(* engine clients (LlmCall over HTTP, AbiCall native), the Router, the       *)
(* JudgeGate and the BrainHistory. For every stall interval, timeout,        *)
(* prompt, context size, pool, worker and threshold.                         *)
(*****************************************************************************)
EXTENDS LlmCall, AbiCall, Router, JudgeGate, BrainHistory, InductionLemmas,
        FiniteSetTheorems, SequenceTheorems, TLAPS

-----------------------------------------------------------------------------
(* The HTTP client: what the receiver knows of the wire.                   *)

SseStates ==
  [clock : Nat, saw : BOOLEAN, last : Nat, maxIdle : Int, ttft : Int, chunks : Nat,
   content : Nat, reasoning : Nat, usage : Int, partial : BOOLEAN]

Replies == {"none", "read error", "unreachable", "refusal", "http", "answer"}
Outcomes == {"none", "refused", "stall", "transport", "http", "grammar-unsupported",
             "answered", "malformed"}
Calls ==
  [pc : {"open", "over"}, req : Request, sse : SseStates, reply : Replies, outcome : Outcomes]

\* While a call is open, the receiver's silence is the wire's silence: the
\* time since the last byte, or since the call began, unless only headers came.
OnlyHeaders == headers /\ ~llm.sse.saw
SilenceIsKnown == llm.pc = "open" => quiet = SilentFor(llm.sse) \/ OnlyHeaders

Listening ==
  /\ quiet \in Nat
  /\ llm = NoCall \/ llm \in Calls
  /\ SilenceIsKnown
  /\ AliveIsNotStalled

LEMMA OpenIsCall == ASSUME Listening, llm.pc = "open" PROVE llm \in Calls
BY DEF Listening, NoCall

\* A stamped receiver is one, and its silence is over.
LEMMA StampedIs ==
  ASSUME NEW sse \in SseStates
  PROVE  Stamped(sse) \in SseStates /\ SilentFor(Stamped(sse)) = 0
<1> DEFINE idle == IF ~sse.saw THEN 0
                   ELSE IF sse.clock - sse.last > sse.maxIdle THEN sse.clock - sse.last
                   ELSE sse.maxIdle
           stamped(saw) == [sse EXCEPT !.maxIdle = idle, !.saw = saw,
                                       !.last = sse.clock, !.chunks = @ + 1]
<1>1. idle \in Int /\ sse.clock \in Nat /\ sse.chunks + 1 \in Nat
  BY DEF SseStates
<1> HIDE DEF idle
<1>2. ASSUME NEW saw \in BOOLEAN
      PROVE  /\ stamped(saw) \in SseStates /\ stamped(saw).saw = saw
             /\ stamped(saw).last = sse.clock /\ stamped(saw).clock = sse.clock
  <2> DEFINE a == [sse EXCEPT !.maxIdle = idle]
             b == [a EXCEPT !.saw = saw]
             c == [b EXCEPT !.last = sse.clock]
             d == [c EXCEPT !.chunks = @ + 1]
  <2>1. a \in SseStates
    BY <1>1 DEF SseStates
  <2>2. b \in SseStates
    <3> HIDE DEF a
    <3> QED BY <1>2, <2>1 DEF SseStates
  <2>3. c \in SseStates
    <3> HIDE DEF b
    <3> QED BY <1>1, <2>2 DEF SseStates
  <2>4. d \in SseStates
    <3> HIDE DEF c
    <3> QED BY <2>3 DEF SseStates
  <2>5. d = stamped(saw)
    BY DEF SseStates
  <2>6. stamped(saw).saw = saw
    BY DEF SseStates
  <2>7. stamped(saw).last = sse.clock /\ stamped(saw).clock = sse.clock
    BY DEF SseStates
  <2> HIDE DEF d, stamped
  <2> QED BY <2>4, <2>5, <2>6, <2>7
<1>3. Stamped(sse) = stamped(TRUE)
  BY DEF Stamped, idle
<1>4. TRUE \in BOOLEAN
  OBVIOUS
<1> HIDE DEF stamped
<1>5. /\ Stamped(sse) \in SseStates /\ Stamped(sse).saw = TRUE
      /\ Stamped(sse).last = sse.clock /\ Stamped(sse).clock = sse.clock
  BY <1>2, <1>3, <1>4, Zenon
<1> QED BY <1>1, <1>5 DEF SilentFor

\* A piece of the answer does not touch the receiver's clock.
LEMMA DeltaIs ==
  ASSUME NEW sse \in SseStates, NEW kind
  PROVE  Delta(sse, kind) \in SseStates /\ SilentFor(Delta(sse, kind)) = SilentFor(sse)
<1>1. CASE Delta(sse, kind) = sse
  BY <1>1
<1>2. CASE Delta(sse, kind) = [sse EXCEPT !.reasoning = @ + 1]
  BY <1>2 DEF SseStates, SilentFor
<1>3. CASE Delta(sse, kind) = [sse EXCEPT !.usage = sse.content + 1]
  BY <1>3 DEF SseStates, SilentFor
<1>4. CASE Delta(sse, kind) = [sse EXCEPT !.content = @ + 1,
                                          !.ttft = IF @ < 0 THEN sse.clock ELSE @]
  <2> DEFINE a == [sse EXCEPT !.content = @ + 1]
  <2>1. a \in SseStates /\ SilentFor(a) = SilentFor(sse) /\ a.ttft = sse.ttft
    BY DEF SseStates, SilentFor
  <2>2. Delta(sse, kind) = [a EXCEPT !.ttft = IF @ < 0 THEN sse.clock ELSE @]
    BY <1>4 DEF SseStates
  <2> HIDE DEF a
  <2> QED BY <2>1, <2>2 DEF SseStates, SilentFor
<1> QED BY <1>1, <1>2, <1>3, <1>4 DEF Delta

LEMMA ListeningInit == LlmInit => Listening
BY DEF LlmInit, Listening, SilenceIsKnown, AliveIsNotStalled, NoCall

LEMMA PostKeepsListening ==
  ASSUME Listening, NEW req \in Request, PostCall(req)
  PROVE  Listening'
<1>1. /\ quiet' = 0
      /\ llm' = [pc |-> IF Sendable(req) THEN "open" ELSE "over", req |-> req, sse |-> Sse,
                 reply |-> "none", outcome |-> IF Sendable(req) THEN "none" ELSE "refused"]
  BY DEF PostCall
<1>2. Sse \in SseStates /\ SilentFor(Sse) = 0
  BY DEF Sse, SseStates, SilentFor
<1>3. llm' \in Calls
  <2>1. PICK pc \in {"open", "over"}, outcome \in Outcomes :
          llm' = [pc |-> pc, req |-> req, sse |-> Sse, reply |-> "none", outcome |-> outcome]
    BY <1>1 DEF Outcomes
  <2>2. "none" \in Replies
    BY DEF Replies
  <2> QED BY <1>2, <2>1, <2>2 DEF Calls
<1>4. llm'.sse = Sse /\ llm'.outcome # "stall"
  BY <1>1
<1> QED BY <1>1, <1>2, <1>3, <1>4 DEF Listening, SilenceIsKnown, AliveIsNotStalled

\* A step that leaves the call open, with a receiver that knows the silence.
LEMMA ReceivingKeepsListening ==
  ASSUME Listening, llm.pc = "open", NEW sse \in SseStates, quiet' \in Nat,
         llm' = [llm EXCEPT !.sse = sse],
         quiet' = SilentFor(sse) \/ (headers' /\ ~sse.saw)
  PROVE  Listening'
<1>1. llm \in Calls
  BY OpenIsCall
<1>2. llm' \in Calls /\ llm'.pc = "open" /\ llm'.sse = sse
  BY <1>1 DEF Calls
<1> QED BY <1>2 DEF Listening, SilenceIsKnown, OnlyHeaders, AliveIsNotStalled

LEMMA TickKeepsListening == ASSUME Listening, LlmTick PROVE Listening'
<1> DEFINE sse == [llm.sse EXCEPT !.clock = @ + 1]
<1>1. llm.pc = "open" /\ llm \in Calls
  BY OpenIsCall DEF LlmTick
<1>2. /\ llm.sse \in SseStates /\ quiet \in Nat
      /\ quiet = SilentFor(llm.sse) \/ (headers /\ ~llm.sse.saw)
  BY <1>1 DEF Calls, Listening, SilenceIsKnown, OnlyHeaders
<1>3. /\ sse \in SseStates /\ sse.saw = llm.sse.saw
      /\ SilentFor(sse) = SilentFor(llm.sse) + 1
  BY <1>2 DEF SseStates, SilentFor
<1>4. llm' = [llm EXCEPT !.sse = sse] /\ quiet' = quiet + 1 /\ headers' = headers
  BY DEF LlmTick
<1> HIDE DEF sse
<1> QED BY <1>1, <1>2, <1>3, <1>4, ReceivingKeepsListening

LEMMA HeadersKeepListening == ASSUME Listening, HeadersCome PROVE Listening'
BY DEF HeadersCome, Listening, SilenceIsKnown, OnlyHeaders, AliveIsNotStalled

LEMMA ChunkKeepsListening == ASSUME Listening, NEW kind, Chunk(kind) PROVE Listening'
<1> DEFINE sse == Delta(Stamped(llm.sse), kind)
<1>1. llm.pc = "open" /\ llm \in Calls
  BY OpenIsCall DEF Chunk, Receiving
<1>2. llm.sse \in SseStates
  BY <1>1 DEF Calls
<1>3. sse \in SseStates /\ SilentFor(sse) = 0
  BY <1>2, StampedIs, DeltaIs
<1>4. llm' = [llm EXCEPT !.sse = sse] /\ quiet' = 0
  BY DEF Chunk
<1> HIDE DEF sse
<1> QED BY <1>1, <1>3, <1>4, ReceivingKeepsListening

LEMMA PartialKeepsListening == ASSUME Listening, PartialContent PROVE Listening'
<1> DEFINE sse(partial) == [Stamped(llm.sse) EXCEPT !.partial = partial]
<1>1. llm.pc = "open" /\ llm \in Calls
  BY OpenIsCall DEF PartialContent, Receiving
<1>2. llm.sse \in SseStates
  BY <1>1 DEF Calls
<1>3. Stamped(llm.sse) \in SseStates /\ SilentFor(Stamped(llm.sse)) = 0
  BY <1>2, StampedIs
<1>4. ASSUME NEW partial \in BOOLEAN
      PROVE  sse(partial) \in SseStates /\ SilentFor(sse(partial)) = 0
  BY <1>3 DEF SseStates, SilentFor
<1>5. llm' = [llm EXCEPT !.sse = sse(TRUE)] /\ quiet' = 0
  BY DEF PartialContent
<1>6. TRUE \in BOOLEAN
  OBVIOUS
<1> HIDE DEF sse
<1>7. sse(TRUE) \in SseStates /\ SilentFor(sse(TRUE)) = 0
  BY <1>4, <1>6
<1> QED BY <1>1, <1>5, <1>7, ReceivingKeepsListening

\* A call that ends as a stall was silent for nine tenths of the interval, or
\* got nothing but headers.
LEMMA EndKeepsListening ==
  ASSUME Listening, NEW reply \in Replies, NEW outcome \in Outcomes, EndCall(reply, outcome),
         outcome = "stall" => IsStall(llm)
  PROVE  Listening'
<1>1. llm.pc = "open" /\ llm \in Calls /\ quiet' = quiet /\ headers' = headers
  BY OpenIsCall DEF EndCall
<1>2. llm' = [llm EXCEPT !.pc = "over", !.reply = reply, !.outcome = outcome]
  BY DEF EndCall
<1>3. llm' \in Calls /\ llm'.pc = "over" /\ llm'.outcome = outcome /\ llm'.sse = llm.sse
  BY <1>1, <1>2 DEF Calls
<1>4. outcome = "stall" => 10 * quiet >= 9 * StallCap \/ OnlyHeaders
  BY <1>1 DEF IsStall, Listening, SilenceIsKnown
<1> QED BY <1>1, <1>3, <1>4 DEF Listening, SilenceIsKnown, OnlyHeaders, AliveIsNotStalled

LEMMA ListeningInductive ==
  ASSUME Listening, [LlmNext]_llmVars PROVE Listening'
<1>1. CASE UNCHANGED llmVars
  BY <1>1 DEF llmVars, Listening, SilenceIsKnown, OnlyHeaders, AliveIsNotStalled
<1>2. ASSUME NEW req \in Request, PostCall(req) PROVE Listening'
  BY <1>2, PostKeepsListening
<1>3. CASE LlmTick
  BY <1>3, TickKeepsListening
<1>4. ASSUME NEW kind, Chunk(kind) PROVE Listening'
  BY <1>4, ChunkKeepsListening
<1>5. CASE PartialContent
  BY <1>5, PartialKeepsListening
<1>6. CASE ReadFails
  <2> DEFINE outcome == IF IsStall(llm) THEN "stall" ELSE "transport"
  <2>1. EndCall("read error", outcome) /\ outcome \in Outcomes /\ "read error" \in Replies
    BY <1>6 DEF ReadFails, Outcomes, Replies
  <2>2. outcome = "stall" => IsStall(llm)
    OBVIOUS
  <2> HIDE DEF outcome
  <2> QED BY <2>1, <2>2, EndKeepsListening
<1>7. CASE SendFails
  <2>1. EndCall("unreachable", "transport")
    BY <1>7 DEF SendFails
  <2>2. "unreachable" \in Replies /\ "transport" \in Outcomes
    BY DEF Replies, Outcomes
  <2> QED BY <2>1, <2>2, EndKeepsListening
<1>8. ASSUME NEW kind \in {"refusal", "http"}, NEW lineEnd \in BOOLEAN,
             StatusFails(kind, lineEnd)
      PROVE  Listening'
  <2>1. PICK outcome \in {"grammar-unsupported", "http"} : EndCall(kind, outcome)
    BY <1>8 DEF StatusFails
  <2>2. kind \in Replies /\ outcome \in Outcomes /\ outcome # "stall"
    BY DEF Replies, Outcomes
  <2> QED BY <2>1, <2>2, EndKeepsListening
<1>9. ASSUME NEW parses \in BOOLEAN, NEW usage \in {0, 1}, AnswerComes(parses, usage)
      PROVE  Listening'
  <2>1. PICK outcome \in {"answered", "malformed"} : EndCall("answer", outcome)
    BY <1>9 DEF AnswerComes
  <2>2. "answer" \in Replies /\ outcome \in Outcomes /\ outcome # "stall"
    BY DEF Replies, Outcomes
  <2> QED BY <2>1, <2>2, EndKeepsListening
<1>10. CASE HeadersCome
  BY <1>10, HeadersKeepListening
<1> QED BY <1>1, <1>2, <1>3, <1>4, <1>5, <1>6, <1>7, <1>8, <1>9, <1>10 DEF LlmNext

\* A slow engine is not taken for one that stands still (llm_client.cpp) unless
\* only its headers came: for any stall interval and timeout, and streams of
\* any length.
THEOREM StallsAreSilent == LlmSpec => []AliveIsNotStalled
<1>1. LlmInit => Listening
  BY ListeningInit
<1>2. Listening /\ [LlmNext]_llmVars => Listening'
  BY ListeningInductive
<1>3. Listening => AliveIsNotStalled
  BY DEF Listening
<1> QED BY <1>1, <1>2, <1>3, PTL DEF LlmSpec

-----------------------------------------------------------------------------
(* The native client: which positions of the session are filled.           *)

PostStates ==
  [pc : {"prefill", "select", "decode"}, posts : Nat, prompt : Nat, base : Nat, step : Nat,
   generated : Nat, eos : BOOLEAN, late : BOOLEAN, tripped : BOOLEAN]

\* Where the next position is, in each phase of a post.
PositionIsNext ==
  CASE abi.pc = "prefill" -> abi.base <= abi.prompt /\ abi.step = 1 /\ fed.next = abi.base
    [] abi.pc = "select"  -> abi.step = 1 /\ fed.next = abi.prompt
    [] abi.pc = "decode"  -> abi.step \in 1 .. MaxTokens /\ fed.next = abi.prompt + abi.step - 1

Filling ==
  /\ abi.posts \in Nat
  /\ fed.next \in Nat
  /\ fed.gap = FALSE
  /\ Busy => /\ abi \in PostStates
             /\ session = Needed(abi.prompt) /\ session <= Context
             /\ PositionIsNext
  /\ ~Busy => session = NoSession

LEMMA FillingInit == AbiInit => Filling
BY DEF AbiInit, Filling, Busy

\* The room for the prompt and the longest answer holds every position.
LEMMA FillingFits == Filling => PositionsFit
<1> SUFFICES ASSUME Filling, session # NoSession
             PROVE  fed.next <= session /\ session <= Context
  BY DEF Filling, PositionsFit
<1>1. /\ Busy /\ abi \in PostStates /\ PositionIsNext
      /\ session = abi.prompt + MaxTokens + 2 /\ session <= Context
  BY DEF Filling, Needed
<1>2. abi.prompt \in Nat /\ abi.base \in Nat /\ MaxTokens \in Nat
  BY <1>1, AbiConstants DEF PostStates
<1>3. CASE abi.pc = "prefill"
  BY <1>1, <1>2, <1>3 DEF PositionIsNext
<1>4. CASE abi.pc = "select"
  BY <1>1, <1>2, <1>4 DEF PositionIsNext
<1>5. CASE abi.pc = "decode"
  BY <1>1, <1>2, <1>5 DEF PositionIsNext
<1> QED BY <1>1, <1>3, <1>4, <1>5 DEF Busy

\* A post that is over has no session.
LEMMA OverKeepsFilling ==
  ASSUME Filling, abi'.pc = "over", abi'.posts \in Nat, session' = NoSession, fed' = fed
  PROVE  Filling'
BY DEF Filling, Busy

\* A step that only notes that time has passed.
LEMMA NotingKeepsFilling ==
  ASSUME Filling, Busy, NEW post \in PostStates, abi' = post, UNCHANGED <<session, fed>>,
         post.pc = abi.pc, post.prompt = abi.prompt, post.base = abi.base, post.step = abi.step
  PROVE  Filling'
<1>1. PositionIsNext' <=> PositionIsNext
  BY DEF PositionIsNext
<1>2. abi'.posts \in Nat
  BY DEF PostStates
<1> QED BY <1>1, <1>2 DEF Filling, Busy

LEMMA PostKeepsFilling ==
  ASSUME Filling, NEW prompt \in Nat, NEW fails, AbiPost(prompt, fails)
  PROVE  Filling'
<1>1. ~Busy /\ session = NoSession /\ abi.posts \in Nat
  BY DEF AbiPost, Filling, Busy
<1>2. ASSUME NEW outcome, RefusePost(outcome) PROVE Filling'
  <2>1. abi'.pc = "over" /\ abi'.posts \in Nat /\ session' = NoSession /\ fed' = fed
    BY <1>1, <1>2 DEF RefusePost, Over
  <2> QED BY <2>1, OverKeepsFilling
<1>3. ASSUME ~(Needed(prompt) > Context),
             abi' = [pc |-> "prefill", posts |-> abi.posts + 1, prompt |-> prompt, base |-> 0,
                     step |-> 1, generated |-> 0, eos |-> FALSE, late |-> FALSE,
                     tripped |-> FALSE],
             session' = Needed(prompt), fed' = [next |-> 0, gap |-> FALSE]
      PROVE  Filling'
  <2>1. Needed(prompt) <= Context
    BY <1>3, AbiConstants DEF Needed
  <2>2. /\ abi'.pc = "prefill" /\ abi'.prompt = prompt /\ abi'.base = 0 /\ abi'.step = 1
        /\ fed'.next = 0 /\ fed'.gap = FALSE
    BY <1>3
  <2>3. abi' \in PostStates
    <3>1. PICK eos, late, tripped \in BOOLEAN :
            abi' = [pc |-> "prefill", posts |-> abi.posts + 1, prompt |-> prompt, base |-> 0,
                    step |-> 1, generated |-> 0, eos |-> eos, late |-> late,
                    tripped |-> tripped]
      BY <1>3
    <3>2. abi.posts + 1 \in Nat
      BY <1>1
    <3> QED BY <3>1, <3>2 DEF PostStates
  <2>4. PositionIsNext'
    BY <2>2 DEF PositionIsNext
  <2> QED BY <1>3, <2>1, <2>2, <2>3, <2>4 DEF Filling, Busy
<1> QED BY <1>2, <1>3 DEF AbiPost


LEMMA PrefillKeepsFilling == ASSUME Filling, Prefill PROVE Filling'
<1>1. /\ abi.pc = "prefill" /\ abi \in PostStates /\ session = Needed(abi.prompt)
      /\ session <= Context /\ abi.base <= abi.prompt /\ abi.step = 1
      /\ fed.next = abi.base /\ fed.gap = FALSE
  BY DEF Filling, Prefill, Busy, PositionIsNext
<1>2. /\ abi.prompt \in Nat /\ abi.base \in Nat
      /\ Rows \in Nat /\ abi.base + Rows <= abi.prompt
  BY <1>1, AbiConstants DEF PostStates, Rows
<1> DEFINE place == IF abi.base + Rows = abi.prompt THEN "select" ELSE "prefill"
           counted == [abi EXCEPT !.base = @ + Rows]
<1>3. fed' = [next |-> abi.base + Rows, gap |-> fed.gap \/ abi.base # fed.next]
  BY DEF Prefill, Feed
<1>4. fed'.next = abi.base + Rows /\ fed'.gap = FALSE
  BY <1>1, <1>3
<1>5. counted \in PostStates /\ counted.base = abi.base + Rows
  BY <1>1, <1>2 DEF PostStates
<1>6. abi' = [counted EXCEPT !.pc = place] /\ session' = session
  BY <1>1 DEF Prefill, PostStates
<1>7. /\ counted.prompt = abi.prompt /\ counted.step = 1
  BY <1>1 DEF PostStates
<1>8. place \in {"select", "prefill"}
  OBVIOUS
<1> HIDE DEF counted
<1>9. /\ abi' \in PostStates /\ abi'.pc = place /\ abi'.prompt = abi.prompt
      /\ abi'.base = abi.base + Rows /\ abi'.step = 1
  <2> HIDE DEF place
  <2> QED BY <1>5, <1>6, <1>7, <1>8 DEF PostStates
<1>10. PositionIsNext'
  BY <1>2, <1>4, <1>9 DEF PositionIsNext
<1>11. Busy' /\ abi'.posts \in Nat /\ fed'.next \in Nat
  BY <1>2, <1>4, <1>9 DEF Busy, PostStates
<1> QED BY <1>1, <1>4, <1>6, <1>9, <1>10, <1>11 DEF Filling, Needed

LEMMA SelectKeepsFilling ==
  ASSUME Filling, NEW eos \in BOOLEAN, Select(eos)
  PROVE  Filling'
<1>1. /\ abi.pc = "select" /\ abi \in PostStates /\ session = Needed(abi.prompt)
      /\ session <= Context /\ abi.step = 1 /\ fed.next = abi.prompt /\ fed.gap = FALSE
  BY DEF Filling, Select, Busy, PositionIsNext
<1> DEFINE counted == [abi EXCEPT !.generated = @ + 1]
           placed  == [counted EXCEPT !.pc = "decode"]
<1>2. /\ counted \in PostStates /\ counted.prompt = abi.prompt /\ counted.step = 1
  BY <1>1 DEF PostStates
<1>3. /\ placed \in PostStates /\ placed.prompt = abi.prompt /\ placed.step = 1
      /\ placed.pc = "decode"
  <2> HIDE DEF counted
  <2> QED BY <1>2 DEF PostStates
<1>4. abi' = [placed EXCEPT !.eos = eos] /\ UNCHANGED <<session, fed>>
  BY <1>1 DEF Select, PostStates
<1> HIDE DEF placed
<1>5. /\ abi' \in PostStates /\ abi'.pc = "decode" /\ abi'.prompt = abi.prompt
      /\ abi'.step = 1
  BY <1>3, <1>4 DEF PostStates
<1>6. abi.prompt \in Nat /\ MaxTokens \in Nat \ {0} /\ fed'.next = abi.prompt /\ fed'.gap = FALSE
  BY <1>1, <1>4, AbiConstants DEF PostStates
<1>7. PositionIsNext'
  BY <1>5, <1>6 DEF PositionIsNext
<1>8. Busy' /\ abi'.posts \in Nat /\ fed'.next \in Nat
  BY <1>5, <1>6 DEF Busy, PostStates
<1> QED BY <1>1, <1>4, <1>5, <1>6, <1>7, <1>8 DEF Filling, Needed

LEMMA DecodeKeepsFilling ==
  ASSUME Filling, NEW eos \in BOOLEAN, DecodeStep(eos)
  PROVE  Filling'
<1>1. /\ abi.pc = "decode" /\ abi \in PostStates /\ session = Needed(abi.prompt)
      /\ session <= Context /\ abi.step \in 1 .. MaxTokens
      /\ fed.next = abi.prompt + abi.step - 1 /\ fed.gap = FALSE
  BY DEF Filling, DecodeStep, Busy, PositionIsNext
<1>2. abi.prompt \in Nat /\ MaxTokens \in Nat \ {0} /\ abi.step + 1 \in 1 .. MaxTokens
  BY <1>1, AbiConstants DEF PostStates, DecodeStep, DecodeOver
<1>3. CASE abi.tripped
  <2>1. EndPost("cancelled")
    BY <1>3 DEF DecodeStep
  <2>2. abi'.pc = "over" /\ abi'.posts = abi.posts /\ session' = NoSession /\ fed' = fed
    BY <2>1 DEF EndPost, Over
  <2> QED BY <1>1, <2>2, OverKeepsFilling DEF PostStates
<1>4. CASE ~abi.tripped
  <2> DEFINE stepped == [abi EXCEPT !.step = @ + 1]
             counted == [stepped EXCEPT !.generated = @ + 1]
  <2>1. stepped \in PostStates /\ stepped.prompt = abi.prompt
        /\ stepped.step = abi.step + 1 /\ stepped.pc = "decode"
    BY <1>1, <1>2 DEF PostStates
  <2>2. counted \in PostStates /\ counted.prompt = abi.prompt
        /\ counted.step = abi.step + 1 /\ counted.pc = "decode"
    <3> HIDE DEF stepped
    <3> QED BY <2>1 DEF PostStates
  <2>3. abi' = [counted EXCEPT !.eos = eos] /\ session' = session
    BY <1>1, <1>4 DEF DecodeStep, PostStates
  <2>4. fed' = [next |-> abi.prompt + abi.step - 1 + 1,
                gap  |-> fed.gap \/ abi.prompt + abi.step - 1 # fed.next]
    BY <1>4 DEF DecodeStep, Feed
  <2>5. fed'.next = abi.prompt + (abi.step + 1) - 1 /\ fed'.gap = FALSE
    <3>1. abi.prompt + abi.step - 1 + 1 = abi.prompt + (abi.step + 1) - 1
      BY <1>1, <1>2
    <3>2. fed'.next = abi.prompt + abi.step - 1 + 1
      BY <2>4
    <3>3. fed'.gap = (fed.gap \/ abi.prompt + abi.step - 1 # fed.next)
      BY <2>4
    <3> QED BY <1>1, <3>1, <3>2, <3>3
  <2> HIDE DEF counted
  <2>6. /\ abi' \in PostStates /\ abi'.pc = "decode" /\ abi'.prompt = abi.prompt
        /\ abi'.step = abi.step + 1
    BY <2>2, <2>3 DEF PostStates
  <2>7. PositionIsNext'
    BY <1>2, <2>5, <2>6 DEF PositionIsNext
  <2>8. Busy' /\ abi'.posts \in Nat /\ fed'.next \in Nat
    BY <1>2, <2>5, <2>6 DEF Busy, PostStates
  <2> QED BY <1>1, <2>3, <2>5, <2>6, <2>7, <2>8 DEF Filling, Needed
<1> QED BY <1>3, <1>4

LEMMA EndKeepsFilling ==
  ASSUME Filling, Busy, NEW outcome, EndPost(outcome)
  PROVE  Filling'
<1>1. abi'.pc = "over" /\ abi'.posts = abi.posts /\ session' = NoSession /\ fed' = fed
  BY DEF EndPost, Over
<1> QED BY <1>1, OverKeepsFilling DEF Filling

LEMMA FillingInductive == ASSUME Filling, [AbiNext]_abiVars PROVE Filling'
<1>1. CASE UNCHANGED abiVars
  BY <1>1 DEF abiVars, Filling, Busy, PositionIsNext
<1>2. ASSUME NEW fails, OpenEngine(fails) PROVE Filling'
  BY <1>2 DEF OpenEngine, Filling, Busy, PositionIsNext
<1>3. CASE CloseEngine
  BY <1>3 DEF CloseEngine, Filling, Busy, PositionIsNext
<1>4. CASE AbiPostConstrained
  <2>1. /\ abi.pc \in {"idle", "over"} /\ abi' = [Over("grammar-unsupported") EXCEPT !.posts = @ + 1]
        /\ UNCHANGED <<session, fed>>
    BY <1>4 DEF AbiPostConstrained, RefusePost
  <2>2. abi'.pc = "over" /\ abi'.posts \in Nat /\ session' = NoSession /\ fed' = fed
    BY <2>1 DEF Filling, Busy, Over
  <2> QED BY <2>2, OverKeepsFilling
<1>5. ASSUME NEW prompt \in 0 .. MaxPrompt, NEW fails, AbiPost(prompt, fails) PROVE Filling'
  <2>1. prompt \in Nat
    BY AbiConstants
  <2> QED BY <1>5, <2>1, PostKeepsFilling
<1>6. CASE DeadlinePasses \/ Polls
  <2> DEFINE late(b)    == [abi EXCEPT !.late = b]
             tripped(b) == [abi EXCEPT !.tripped = b]
  <2>1. Busy /\ abi \in PostStates /\ UNCHANGED <<session, fed>>
    BY <1>6 DEF DeadlinePasses, Polls, Filling
  <2>2. ASSUME NEW b \in BOOLEAN, NEW post, post = late(b) \/ post = tripped(b)
        PROVE  /\ post \in PostStates /\ post.pc = abi.pc /\ post.prompt = abi.prompt
               /\ post.base = abi.base /\ post.step = abi.step
    BY <2>1, <2>2 DEF PostStates
  <2>3. abi' = late(TRUE) \/ abi' = tripped(TRUE)
    BY <1>6 DEF DeadlinePasses, Polls
  <2>4. TRUE \in BOOLEAN
    OBVIOUS
  <2> HIDE DEF late, tripped
  <2> QED BY <2>1, <2>2, <2>3, <2>4, NotingKeepsFilling
<1>7. CASE EngineFails
  BY <1>7, EndKeepsFilling DEF EngineFails
<1>8. CASE Prefill
  BY <1>8, PrefillKeepsFilling
<1>9. ASSUME NEW eos \in BOOLEAN, Select(eos) \/ DecodeStep(eos) PROVE Filling'
  BY <1>9, SelectKeepsFilling, DecodeKeepsFilling
<1>10. ASSUME NEW fails \in BOOLEAN, Detokenize(fails) PROVE Filling'
  BY <1>10, EndKeepsFilling DEF Detokenize, Busy
<1> QED BY <1>1, <1>2, <1>3, <1>4, <1>5, <1>6, <1>7, <1>8, <1>9, <1>10 DEF AbiNext

\* The room reserved for a post (abi_client.cpp) is never exceeded: for any
\* prompt, batch size, length of the answer and place where the decoding stops.
THEOREM PositionsAlwaysFit == AbiSpec => []PositionsFit
<1>1. AbiInit => Filling
  BY FillingInit
<1>2. Filling /\ [AbiNext]_abiVars => Filling'
  BY FillingInductive
<1>3. Filling => PositionsFit
  BY FillingFits
<1> QED BY <1>1, <1>2, <1>3, PTL DEF AbiSpec

-----------------------------------------------------------------------------
(* The router                                                              *)

AttemptOutcomes == Failure \cup {"ok", "velocity-floor"}
PostResults == {"none", "served", "GrammarUnsupportedError", "exhausted"}
RoutedPosts ==
  [role : Role, constrained : BOOLEAN, at : Nat, sent : BOOLEAN, seen : Nat,
   attempts : Seq(AttemptOutcomes), refusals : Nat, result : PostResults]

RouterTypes ==
  /\ config \in RouterConfig
  /\ built = "ready" => \A r \in Role : config[r] # <<>>
  /\ entryTurns = [r \in Role |-> [i \in DOMAIN config[r] |-> entryTurns[r][i]]]
  /\ call \in [RouterCall -> RoutedPosts \cup {Idle}]

\* The posts that have tried an entry.
On(role, i) == {c \in Posts : call[c].role = role /\ i \in Tried(c)}

TurnsAreCounted ==
  \A role \in Role : \A i \in DOMAIN config[role] :
    entryTurns[role][i] = Cardinality(On(role, i))

DropsWereSpared ==
  \A role \in Role : \A i \in DOMAIN config[role] : \A c \in On(role, i) :
    call[c].attempts[i] = "velocity-floor" =>
      Cardinality(On(role, i) \ {c}) >= config[role][i].warmup

\* A post that goes on tries the entry after those it has tried; a request was
\* sent with a counter that has not gone back since.
PostsGoOn ==
  \A c \in RouterCall : Going(c) =>
    /\ call[c].at = Len(call[c].attempts) + 1
    /\ call[c].at \in DOMAIN config[call[c].role]
    /\ call[c].sent => call[c].seen <= entryTurns[call[c].role][call[c].at]

Routing == RouterTypes /\ TurnsAreCounted /\ DropsWereSpared /\ PostsGoOn

LEMMA PoolIs ==
  ASSUME RouterTypes, NEW role \in Role
  PROVE  /\ Len(config[role]) \in Nat /\ DOMAIN config[role] = 1 .. Len(config[role])
         /\ config[role] # <<>> => Len(config[role]) >= 1
         /\ \A i \in DOMAIN config[role] : config[role][i].warmup \in Nat
<1>1. PICK E : config[role] \in Seq(E)
  BY RouterConstants DEF RouterTypes
<1>2. \A i \in DOMAIN config[role] : config[role][i].warmup \in Nat
  BY RouterConstants DEF RouterTypes
<1> QED BY <1>1, <1>2, LenProperties, EmptySeq

LEMMA PostIs ==
  ASSUME RouterTypes, NEW c \in RouterCall
  PROVE  /\ c \in Posts <=> call[c] # Idle
         /\ call[c] # Idle => call[c] \in RoutedPosts
         /\ call[c] \in RoutedPosts => call[c] # Idle
<1>1. Idle \notin RoutedPosts
  BY DEF Idle, RoutedPosts, Role
<1> QED BY <1>1 DEF RouterTypes, Posts

LEMMA OnIsFinite ==
  ASSUME NEW role, NEW i
  PROVE  IsFiniteSet(On(role, i)) /\ Cardinality(On(role, i)) \in Nat
<1>1. On(role, i) \subseteq RouterCall
  BY DEF On, Posts
<1> QED BY <1>1, RouterConstants, FS_Subset, FS_CardinalityType

LEMMA RoutingInit == RouterInit => Routing
<1> SUFFICES ASSUME RouterInit
             PROVE  Routing
  OBVIOUS
<1>1. RouterTypes
  BY DEF RouterInit, RouterTypes
<1>2. \A c \in RouterCall : call[c] = Idle
  BY DEF RouterInit
<1>3. \A role, i : On(role, i) = {}
  BY <1>2 DEF On, Posts
<1>4. TurnsAreCounted /\ DropsWereSpared
  BY <1>3, FS_EmptySet DEF TurnsAreCounted, DropsWereSpared, RouterInit
<1>5. PostsGoOn
  BY <1>2 DEF PostsGoOn, Going
<1> QED BY <1>1, <1>4, <1>5 DEF Routing

\* A step of one post that tries no entry to its end.
LEMMA PostKeepsRouting ==
  ASSUME Routing, NEW c \in RouterCall, NEW post \in RoutedPosts,
         call' = [call EXCEPT ![c] = post], UNCHANGED <<config, built, entryTurns>>,
         call[c] # Idle => post.role = call[c].role /\ post.attempts = call[c].attempts,
         call[c] = Idle => post.attempts = <<>>,
         post.result = "none" =>
           /\ post.at = Len(post.attempts) + 1
           /\ post.at \in DOMAIN config[post.role]
           /\ post.sent => post.seen <= entryTurns[post.role][post.at]
  PROVE  Routing'
<1> USE DEF Routing
<1>1. RouterTypes'
  BY DEF RouterTypes
<1>2. call'[c] = post /\ \A d \in RouterCall \ {c} : call'[d] = call[d]
  BY DEF RouterTypes
<1>3. post # Idle
  BY <1>1, <1>2, PostIs DEF Idle, RoutedPosts, Role
<1>4. ASSUME NEW role, NEW i
      PROVE  On(role, i)' = On(role, i)
  <2>1. call[c] = Idle => ~(i \in 1 .. Len(post.attempts))
    BY EmptySeq
  <2>2. \A d \in RouterCall \ {c} : d \in On(role, i)' <=> d \in On(role, i)
    BY <1>2 DEF On, Posts, Tried
  <2>3. c \in On(role, i)' <=> c \in On(role, i)
    BY <1>2, <1>3, <2>1 DEF On, Posts, Tried
  <2> QED BY <2>2, <2>3 DEF On, Posts
<1>5. TurnsAreCounted'
  BY <1>4 DEF TurnsAreCounted
<1>6. DropsWereSpared'
  <2> SUFFICES ASSUME NEW role \in Role, NEW i \in DOMAIN config[role], NEW d \in On(role, i),
                      call'[d].attempts[i] = "velocity-floor"
               PROVE  Cardinality(On(role, i) \ {d}) >= config[role][i].warmup
    BY <1>4 DEF DropsWereSpared
  <2>1. d \in RouterCall /\ call[d] # Idle
    BY DEF On, Posts
  <2>2. call'[d].attempts = call[d].attempts
    BY <1>2, <2>1
  <2> QED BY <2>2 DEF DropsWereSpared
<1>7. PostsGoOn'
  BY <1>2 DEF PostsGoOn, Going
<1> QED BY <1>1, <1>5, <1>6, <1>7

LEMMA EndAttemptKeepsRouting ==
  ASSUME Routing, NEW c \in RouterCall, NEW answer \in Answers, EndAttempt(c, answer)
  PROVE  Routing'
<1> USE DEF Routing
<1>0. PICK post, role, n, outcome :
        /\ post = call[c] /\ role = post.role /\ n = post.at
        /\ outcome = OutcomeOf(config[role][n], answer, post.seen)
  OBVIOUS
<1>1. post \in RoutedPosts /\ post # Idle /\ post.result = "none" /\ post.sent
  BY <1>0, PostIs DEF EndAttempt, Going
<1>2. /\ role \in Role /\ n = Len(post.attempts) + 1 /\ n \in DOMAIN config[role]
      /\ post.seen <= entryTurns[role][n]
  BY <1>0, <1>1 DEF PostsGoOn, Going, RoutedPosts
<1>3. outcome \in AttemptOutcomes
  <2>1. answer.outcome \in Failure \cup {"ok"}
    BY DEF Answers
  <2> QED BY <1>0, <2>1 DEF OutcomeOf, AttemptOutcomes
<1>4. outcome = "velocity-floor" => post.seen >= config[role][n].warmup
  <2>1. "velocity-floor" \notin Failure
    BY RouterConstants DEF Failures
  <2>2. answer.outcome # "velocity-floor"
    BY <2>1 DEF Answers
  <2> QED BY <1>0, <2>2 DEF OutcomeOf, VelocityAborts
<1>5. PICK refusals, ends :
        /\ refusals \in Nat /\ ends \in PostResults
        /\ ends = "none" => n # Len(config[role])
        /\ call' = [call EXCEPT ![c] =
             [post EXCEPT !.attempts = Append(@, outcome), !.refusals = refusals,
                          !.result = ends, !.sent = FALSE,
                          !.at = IF ends = "none" THEN @ + 1 ELSE @]]
  <2> DEFINE refused == post.refusals + (IF outcome = "grammar-unsupported" THEN 1 ELSE 0)
             ended   == IF outcome = "ok" THEN "served"
                        ELSE IF n # Len(config[role]) THEN "none"
                        ELSE IF refused = Len(config[role]) THEN "GrammarUnsupportedError"
                        ELSE "exhausted"
  <2>1. refused \in Nat
    BY <1>1 DEF RoutedPosts
  <2>2. ended \in PostResults /\ (ended = "none" => n # Len(config[role]))
    BY DEF PostResults
  <2>3. call' = [call EXCEPT ![c] =
          [post EXCEPT !.attempts = Append(@, outcome), !.refusals = refused,
                       !.result = ended, !.sent = FALSE,
                       !.at = IF ended = "none" THEN @ + 1 ELSE @]]
    BY <1>0 DEF EndAttempt
  <2> HIDE DEF refused, ended
  <2> QED BY <2>1, <2>2, <2>3
<1>6. entryTurns' = [entryTurns EXCEPT ![role][n] = @ + 1] /\ UNCHANGED <<config, built>>
  BY <1>0 DEF EndAttempt, Counted
<1> DEFINE tried == Append(post.attempts, outcome)
           next  == call'[c]
<1>7. /\ tried \in Seq(AttemptOutcomes) /\ Len(tried) = n /\ tried[n] = outcome
      /\ \A i \in 1 .. (n - 1) : tried[i] = post.attempts[i]
  BY <1>1, <1>2, <1>3, AppendProperties DEF RoutedPosts
<1>8. n \in Nat /\ n >= 1 /\ Len(post.attempts) = n - 1
  BY <1>1, <1>2, LenProperties DEF RoutedPosts
<1>9. /\ next \in RoutedPosts /\ next.role = role /\ next.attempts = tried
      /\ next.result = "none" => n # Len(config[role]) /\ next.at = n + 1
      /\ ~next.sent
  <2>1. PICK at \in Nat : at = IF ends = "none" THEN n + 1 ELSE n
    BY <1>8
  <2>2. next = [post EXCEPT !.attempts = tried, !.refusals = refusals, !.result = ends,
                            !.sent = FALSE, !.at = at]
    BY <1>0, <1>5, <2>1 DEF RouterTypes
  <2> HIDE DEF tried
  <2>3. /\ next \in RoutedPosts /\ next.role = post.role /\ next.attempts = tried
        /\ next.result = ends /\ next.at = at /\ ~next.sent
    <3> HIDE DEF next
    <3>1. post \in RoutedPosts /\ refusals \in Nat /\ ends \in PostResults
      BY <1>1, <1>5
    <3>2. tried \in Seq(AttemptOutcomes)
      BY <1>7
    <3> QED BY <2>2, <3>1, <3>2 DEF RoutedPosts
  <2> HIDE DEF next
  <2> QED BY <1>0, <1>5, <2>1, <2>3
<1>10. \A d \in RouterCall \ {c} : call'[d] = call[d]
  BY <1>5 DEF RouterTypes
<1>11. RouterTypes'
  <2>1. call' \in [RouterCall -> RoutedPosts \cup {Idle}]
    BY <1>5, <1>9 DEF RouterTypes
  <2>2. entryTurns' = [r \in Role |-> [i \in DOMAIN config[r] |-> entryTurns'[r][i]]]
    BY <1>2, <1>6 DEF RouterTypes
  <2> QED BY <1>6, <2>1, <2>2 DEF RouterTypes
<1> HIDE DEF tried, next
<1>12. /\ c \notin On(role, n) /\ On(role, n)' = On(role, n) \cup {c}
       /\ \A r, i : r # role \/ i # n => On(r, i)' = On(r, i)
  <2>1. c \in Posts /\ c \in Posts'
    BY <1>0, <1>1, <1>9, <1>11, PostIs DEF next, RoutedPosts, Role, Idle, Posts
  <2>2. Tried(c) = 1 .. (n - 1) /\ Tried(c)' = 1 .. n
    BY <1>0, <1>7, <1>8, <1>9 DEF Tried, next
  <2>3. \A r, i : /\ c \in On(r, i) <=> r = role /\ i \in 1 .. (n - 1)
                  /\ c \in On(r, i)' <=> r = role /\ i \in 1 .. n
    BY <1>0, <1>9, <2>1, <2>2 DEF On, next
  <2>4. \A r, i : \A d \in RouterCall \ {c} : d \in On(r, i)' <=> d \in On(r, i)
    BY <1>10 DEF On, Posts, Tried
  <2>5. \A r, i : On(r, i) \subseteq RouterCall /\ On(r, i)' \subseteq RouterCall
    BY DEF On, Posts
  <2>6. \A i : i # n => (i \in 1 .. (n - 1) <=> i \in 1 .. n)
    BY <1>8
  <2>7. n \notin 1 .. (n - 1) /\ n \in 1 .. n
    BY <1>8
  <2>8. c \notin On(role, n) /\ c \in On(role, n)'
    BY <2>3, <2>7
  <2>9. On(role, n)' = On(role, n) \cup {c}
    BY <2>4, <2>5, <2>8
  <2>10. ASSUME NEW r, NEW i, r # role \/ i # n
         PROVE  On(r, i)' = On(r, i)
    <3>1. c \in On(r, i)' <=> c \in On(r, i)
      BY <2>3, <2>6, <2>10
    <3> QED BY <2>4, <2>5, <3>1
  <2> QED BY <2>8, <2>9, <2>10
<1>13. Cardinality(On(role, n) \cup {c}) = Cardinality(On(role, n)) + 1
  BY <1>12, OnIsFinite, FS_AddElement
<1>14. TurnsAreCounted'
  <2> SUFFICES ASSUME NEW r \in Role, NEW i \in DOMAIN config[r]
               PROVE  entryTurns'[r][i] = Cardinality(On(r, i)')
    BY <1>6 DEF TurnsAreCounted
  <2>1. CASE r = role /\ i = n
    <3>1. entryTurns'[role][n] = entryTurns[role][n] + 1
      BY <1>2, <1>6 DEF RouterTypes
    <3> QED BY <1>2, <1>12, <1>13, <2>1, <3>1 DEF TurnsAreCounted
  <2>2. CASE r # role \/ i # n
    <3>1. entryTurns'[r][i] = entryTurns[r][i]
      BY <1>2, <1>6, <2>2 DEF RouterTypes
    <3> QED BY <1>12, <2>2, <3>1 DEF TurnsAreCounted
  <2> QED BY <2>1, <2>2
<1>15. DropsWereSpared'
  <2> SUFFICES ASSUME NEW r \in Role, NEW i \in DOMAIN config[r], NEW d \in On(r, i)',
                      call'[d].attempts[i] = "velocity-floor"
               PROVE  Cardinality(On(r, i)' \ {d}) >= config[r][i].warmup
    BY <1>6 DEF DropsWereSpared
  <2>1. config[r][i].warmup \in Nat
    BY PoolIs
  <2>2. CASE d = c /\ r = role /\ i = n
    <3>1. outcome = "velocity-floor"
      BY <1>7, <1>9, <2>2 DEF next
    <3>2. On(role, n)' \ {c} = On(role, n)
      BY <1>12
    <3>3. Cardinality(On(role, n)) >= config[role][n].warmup
      <4>1. entryTurns[role][n] = Cardinality(On(role, n)) /\ Cardinality(On(role, n)) \in Nat
        BY <1>2, OnIsFinite DEF TurnsAreCounted
      <4>2. post.seen \in Nat
        BY <1>1 DEF RoutedPosts
      <4> QED BY <1>2, <1>4, <2>1, <2>2, <3>1, <4>1, <4>2
    <3> QED BY <2>2, <3>2, <3>3
  <2>3. CASE ~(d = c /\ r = role /\ i = n)
    <3>1. d \in On(r, i) /\ call[d].attempts[i] = "velocity-floor"
      <4>1. CASE d # c
        <5>1. d \in On(r, i) \/ d = c
          BY <1>12
        <5>2. d \in RouterCall
          BY <4>1, <5>1 DEF On, Posts
        <5> QED BY <1>10, <4>1, <5>1, <5>2
      <4>2. CASE d = c
        <5>1. r = role
          BY <1>9, <4>2 DEF On, next
        <5>2. i # n
          BY <2>3, <4>2, <5>1
        <5>3. c \in On(r, i)
          BY <1>12, <4>2, <5>2
        <5>4. i \in 1 .. (n - 1)
          BY <1>0, <1>8, <5>3 DEF On, Tried
        <5> QED BY <1>0, <1>7, <1>9, <4>2, <5>3, <5>4 DEF next
      <4> QED BY <4>1, <4>2
    <3>2. Cardinality(On(r, i) \ {d}) >= config[r][i].warmup
      BY <3>1 DEF DropsWereSpared
    <3>3. On(r, i) \ {d} \subseteq On(r, i)' \ {d}
      BY <1>12
    <3>4. IsFiniteSet(On(r, i)' \ {d})
      <4>1. IsFiniteSet(On(r, i)')
        BY <1>12, OnIsFinite, FS_AddElement
      <4> QED BY <4>1, FS_Subset
    <3>5. /\ Cardinality(On(r, i) \ {d}) <= Cardinality(On(r, i)' \ {d})
          /\ Cardinality(On(r, i) \ {d}) \in Nat /\ Cardinality(On(r, i)' \ {d}) \in Nat
      BY <3>3, <3>4, FS_Subset, FS_CardinalityType
    <3> QED BY <2>1, <3>2, <3>5
  <2> QED BY <2>2, <2>3
<1>16. PostsGoOn'
  <2> SUFFICES ASSUME NEW d \in RouterCall, Going(d)'
               PROVE  /\ call'[d].at = Len(call'[d].attempts) + 1
                      /\ call'[d].at \in DOMAIN config[call'[d].role]
                      /\ call'[d].sent =>
                           call'[d].seen <= entryTurns'[call'[d].role][call'[d].at]
    BY <1>6 DEF PostsGoOn
  <2>1. CASE d = c
    <3>1. next.at = n + 1 /\ n # Len(config[role])
      BY <1>9, <2>1 DEF Going, next
    <3>2. n + 1 \in DOMAIN config[role]
      BY <1>2, <1>8, <3>1, PoolIs
    <3> QED BY <1>7, <1>9, <2>1, <3>1, <3>2 DEF next
  <2>2. CASE d # c
    <3>1. call'[d] = call[d] /\ Going(d)
      BY <1>10, <2>2 DEF Going
    <3>2. /\ call[d].at = Len(call[d].attempts) + 1
          /\ call[d].at \in DOMAIN config[call[d].role]
          /\ call[d].sent => call[d].seen <= entryTurns[call[d].role][call[d].at]
      BY <3>1 DEF PostsGoOn
    <3>3. call[d].role \in Role /\ call[d].seen \in Nat
      BY <3>1, PostIs DEF Going, RoutedPosts
    <3>4. entryTurns[call[d].role][call[d].at] \in Nat
      BY <3>2, <3>3, OnIsFinite DEF TurnsAreCounted
    <3>5. \/ entryTurns'[call[d].role][call[d].at] = entryTurns[call[d].role][call[d].at]
          \/ entryTurns'[call[d].role][call[d].at] = entryTurns[call[d].role][call[d].at] + 1
      BY <1>2, <1>6, <3>2, <3>3 DEF RouterTypes
    <3> QED BY <3>1, <3>2, <3>3, <3>4, <3>5
  <2> QED BY <2>1, <2>2
<1> QED BY <1>11, <1>14, <1>15, <1>16

LEMMA RoutingInductive ==
  ASSUME Routing, [RouterNext]_routerVars
  PROVE  Routing'
<1> USE DEF Routing
<1>1. CASE UNCHANGED <<config, entryTurns, call>>
           /\ (built' = "ready" => \A r \in Role : config[r] # <<>>)
  <2>1. RouterTypes'
    BY <1>1 DEF RouterTypes
  <2>2. \A role, i : On(role, i)' = On(role, i)
    BY <1>1 DEF On, Posts, Tried
  <2>3. TurnsAreCounted' /\ DropsWereSpared'
    BY <1>1, <2>2 DEF TurnsAreCounted, DropsWereSpared
  <2>4. PostsGoOn'
    BY <1>1 DEF PostsGoOn, Going
  <2> QED BY <2>1, <2>3, <2>4
<1>2. CASE BuildRouter
  <2>1. built' = "ready" => Acceptable(config)
    BY <1>2 DEF BuildRouter
  <2> QED BY <1>1, <1>2, <2>1 DEF BuildRouter, Acceptable
<1>3. ASSUME NEW c \in RouterCall, NEW role \in Role, NEW constrained \in BOOLEAN,
             BeginPost(c, role, constrained)
      PROVE  Routing'
  <2> DEFINE post == [role |-> role, constrained |-> constrained, at |-> 1, sent |-> FALSE,
                      seen |-> 0, attempts |-> <<>>, refusals |-> 0, result |-> "none"]
  <2>1. <<>> \in Seq(AttemptOutcomes) /\ Len(<<>>) = 0
    BY EmptySeq
  <2>2. post \in RoutedPosts
    BY <2>1 DEF RoutedPosts, PostResults
  <2>3. 1 \in DOMAIN config[role]
    BY <1>3, PoolIs DEF BeginPost, RouterTypes
  <2>4. /\ call[c] = Idle /\ call' = [call EXCEPT ![c] = post]
        /\ UNCHANGED <<config, built, entryTurns>>
    BY <1>3 DEF BeginPost
  <2>5. post.at = Len(post.attempts) + 1 /\ post.at = 1 /\ ~post.sent /\ post.role = role
    BY <2>1
  <2>6. post.attempts = <<>>
    OBVIOUS
  <2> HIDE DEF post
  <2> QED BY <2>2, <2>3, <2>4, <2>5, <2>6, PostKeepsRouting
<1>4. ASSUME NEW c \in RouterCall, SendRequest(c)
      PROVE  Routing'
  <2> DEFINE turns == entryTurns[call[c].role][call[c].at]
             post  == [call[c] EXCEPT !.sent = TRUE, !.seen = turns]
  <2>1. call[c] \in RoutedPosts /\ call[c] # Idle /\ call[c].result = "none"
    BY <1>4, PostIs DEF SendRequest, Going
  <2>2. call[c].at = Len(call[c].attempts) + 1 /\ call[c].at \in DOMAIN config[call[c].role]
    BY <1>4 DEF SendRequest, PostsGoOn
  <2>3. turns \in Nat
    BY <2>1, <2>2, OnIsFinite DEF TurnsAreCounted, RoutedPosts
  <2> HIDE DEF turns
  <2>4. /\ post \in RoutedPosts /\ post.role = call[c].role /\ post.attempts = call[c].attempts
        /\ post.at = call[c].at /\ post.seen = turns
    BY <2>1, <2>3 DEF RoutedPosts
  <2>5. call' = [call EXCEPT ![c] = post] /\ UNCHANGED <<config, built, entryTurns>>
    BY <1>4 DEF SendRequest, turns
  <2> HIDE DEF post
  <2>6. post.seen <= entryTurns[post.role][post.at]
    BY <2>3, <2>4 DEF turns
  <2> QED BY <2>1, <2>2, <2>4, <2>5, <2>6, PostKeepsRouting
<1>5. ASSUME NEW c \in RouterCall, NEW answer \in Answers, EndAttempt(c, answer)
      PROVE  Routing'
  BY <1>5, EndAttemptKeepsRouting
<1>6. CASE UNCHANGED routerVars
  BY <1>1, <1>6 DEF routerVars, RouterTypes
<1> QED BY <1>2, <1>3, <1>4, <1>5, <1>6 DEF RouterNext

(***************************************************************************)
(* router.cpp:272-322: for any pools and any number of posts at the same   *)
(* time, every attempt counts its entry once, and one that is dropped for  *)
(* its speed was preceded by the turns of the warm-up.                     *)
(***************************************************************************)
THEOREM WarmUpsAreSpared == RouterSpec => []WarmUpIsSpared
<1>1. Routing => WarmUpIsSpared
  BY DEF Routing, TurnsAreCounted, DropsWereSpared, WarmUpIsSpared, On
<1> QED BY <1>1, RoutingInit, RoutingInductive, PTL DEF RouterSpec

-----------------------------------------------------------------------------
(* The judge gate                                                          *)

\* A worker that has returned is no process any more; one that returned 0
\* before its deadline exited with 0.
ReturnedIsReaped ==
  /\ result.done => proc \in {"none", "reaped"}
  /\ result.done /\ ~result.timedOut /\ result.code = 0 => proc = "reaped" /\ status = 0

LEMMA WorkerStepKeeps ==
  ASSUME ReturnedIsReaped, WorkerStep
  PROVE  ReturnedIsReaped'
<1>1. ASSUME NEW text, ChildWrites(text)
      PROVE  ReturnedIsReaped'
  BY <1>1 DEF ChildWrites, ReturnedIsReaped
<1>2. ASSUME NEW code, ChildExits(code)
      PROVE  ReturnedIsReaped'
  BY <1>2 DEF ChildExits, ReturnedIsReaped
<1>3. CASE ChildForks \/ HolderEnds \/ SpawnTick
  BY <1>3 DEF ChildForks, HolderEnds, SpawnTick, ReturnedIsReaped
<1>4. CASE WatchTimedOut
  BY <1>4 DEF WatchTimedOut, ReturnedIsReaped
<1>5. CASE WatchReaps
  BY <1>5 DEF WatchReaps, ReturnedIsReaped
<1>6. CASE Drain
  BY <1>6 DEF Drain, Returned, ReturnedIsReaped
<1> QED BY <1>1, <1>2, <1>3, <1>4, <1>5, <1>6 DEF WorkerStep

LEMMA BeginSpawnKeeps ==
  ASSUME NEW fails, BeginSpawn(fails)
  PROVE  ReturnedIsReaped'
BY DEF BeginSpawn, NotReturned, Returned, ReturnedIsReaped

LEMMA ReturnedIsReapedInductive ==
  ASSUME ReturnedIsReaped, [JudgeNext]_judgeVars
  PROVE  ReturnedIsReaped'
<1>1. CASE UNCHANGED workerVars
  BY <1>1 DEF workerVars, ReturnedIsReaped
<1>2. ASSUME NEW v, HostHook(v)
      PROVE  ReturnedIsReaped'
  BY <1>1, <1>2 DEF HostHook
<1>3. CASE HookThrows
  BY <1>1, <1>3 DEF HookThrows
<1>4. ASSUME NEW empty \in BOOLEAN, NEW fails, NodeHook(empty, fails)
      PROVE  ReturnedIsReaped'
  BY <1>1, <1>4, BeginSpawnKeeps DEF NodeHook
<1>5. CASE WorkerStep
  BY <1>5, WorkerStepKeeps
<1>6. CASE NodeAnswers
  BY <1>6 DEF NodeAnswers, ReturnedIsReaped
<1>7. CASE UNCHANGED judgeVars
  BY <1>1, <1>7 DEF judgeVars
<1> QED BY <1>2, <1>3, <1>4, <1>5, <1>6, <1>7 DEF JudgeNext

(***************************************************************************)
(* brain.cpp: for any deadline and any output, a delegation goes through   *)
(* only on the word of a judge that exited with 0 in time, and its worker  *)
(* and workspace are gone by then.                                         *)
(***************************************************************************)
THEOREM DelegationsAreJudged == JudgeSpec => DelegationWasJudged
<1>1. JudgeInit => ReturnedIsReaped
  BY DEF JudgeInit, SpawnerInit, NotReturned, ReturnedIsReaped
<1>2. ASSUME ReturnedIsReaped, [JudgeNext]_judgeVars
      PROVE  [gate = "judging" /\ gate' = "idle" =>
               /\ verdict'.action # "escalate" =>
                    /\ proc = "reaped" /\ status = 0 /\ ~result.timedOut
                    /\ wrote.action = verdict'.action
               /\ proc' \in {"none", "reaped"} /\ workdir' = "none"]_judgeVars
  <2> SUFFICES ASSUME gate = "judging", gate' = "idle"
               PROVE  /\ verdict'.action # "escalate" =>
                           /\ proc = "reaped" /\ status = 0 /\ ~result.timedOut
                           /\ wrote.action = verdict'.action
                      /\ proc' \in {"none", "reaped"} /\ workdir' = "none"
    OBVIOUS
  <2>1. NodeAnswers
    BY <1>2
    DEF JudgeNext, judgeVars, gateVars, HostHook, HookThrows, NodeHook, EnterGate
  <2>2. proc' \in {"none", "reaped"} /\ workdir' = "none"
    BY <1>2, <2>1 DEF NodeAnswers, Cleanup, ReturnedIsReaped
  <2>3. ASSUME verdict'.action # "escalate"
        PROVE  ~result.timedOut /\ result.code = 0 /\ wrote.action = verdict'.action
    BY <2>1, <2>3 DEF NodeAnswers, Gated, Parse, Fallback
  <2> QED BY <1>2, <2>1, <2>2, <2>3 DEF NodeAnswers, ReturnedIsReaped
<1> QED BY <1>1, <1>2, ReturnedIsReapedInductive, PTL DEF JudgeSpec, DelegationWasJudged

-----------------------------------------------------------------------------
(* The history: sizes                                                      *)

Messages == [role : {"system", "user", "assistant"}, size : Nat, stands : Nat]
Histories == Seq(Messages)

LEMMA MessagesAre ==
  /\ \A size \in Nat : \A role \in {"system", "user", "assistant"} : Message(role, size) \in Messages
  /\ \A dropped \in Nat : Marker(dropped) \in Messages
BY HistoryConstants DEF Message, Marker, Messages

\* The running totals that serializedChars goes through.
LEMMA TotalsAre ==
  ASSUME NEW h \in Histories
  PROVE  \E sum \in [0 .. Len(h) -> Nat] :
           /\ sum[0] = 0
           /\ \A n \in 1 .. Len(h) : sum[n] = sum[n - 1] + h[n].size + Frame
           /\ SerializedChars(h) = sum[Len(h)]
<1> DEFINE last == Len(h)
           sum == CHOOSE sum : sum = [n \in 0 .. Len(h) |-> IF n = 0 THEN 0 ELSE sum[n - 1] + h[n].size + Frame]
           step == [n \in 1 .. last |-> [v \in Nat |-> v + h[n].size + Frame]]
<1>1. last \in Nat /\ \A n \in 1 .. last : h[n].size \in Nat
  <2>1. last \in Nat
    BY LenProperties DEF Histories
  <2>2. ASSUME NEW n \in 1 .. last
        PROVE  h[n] \in Messages
    BY ElementOfSeq DEF Histories
  <2> QED BY <2>1, <2>2 DEF Messages
<1>2. Frame \in Nat
  BY HistoryConstants
<1>3. step \in [1 .. last -> [Nat -> Nat]]
  BY <1>1, <1>2
<1>4. PICK f \in [0 .. last -> Nat] : Recursion(f, last, 0, step)
  <2> HIDE DEF step, last
  <2>1. 0 \in Nat
    OBVIOUS
  <2> QED BY <1>1, <1>3, <2>1, RecursionExists
<1>5. f = [n \in 0 .. last |-> IF n = 0 THEN 0 ELSE f[n - 1] + h[n].size + Frame]
  <2> HIDE DEF last
  <2>1. \A n \in 0 .. last : n # 0 => n \in 1 .. last /\ n - 1 \in 0 .. last
    BY <1>1
  <2>2. \A n \in 1 .. last : \A v \in Nat : step[n][v] = v + h[n].size + Frame
    OBVIOUS
  <2> HIDE DEF step
  <2>3. \A n \in 0 .. last : f[n] = IF n = 0 THEN 0 ELSE f[n - 1] + h[n].size + Frame
    BY <1>4, <2>1, <2>2 DEF Recursion
  <2> QED BY <2>3
<1>6. sum = [n \in 0 .. Len(h) |-> IF n = 0 THEN 0 ELSE sum[n - 1] + h[n].size + Frame]
  <2> HIDE DEF step
  <2> QED BY <1>5
<1>7. SerializedChars(h) = sum[Len(h)]
  BY DEF SerializedChars
<1> HIDE DEF sum, step, last
<1>8. \A n \in 0 .. last : n # 0 => n - 1 \in 0 .. last
  BY <1>1
<1> DEFINE S == {n \in 0 .. last : sum[n] \in Nat}
<1>9. 0 \in S
  BY <1>1, <1>6 DEF last
<1>10. ASSUME NEW n \in 1 .. last, n - 1 \in S
       PROVE  n \in S
  <2>1. n \in 0 .. last /\ n # 0
    BY <1>1
  <2>2. sum[n] = sum[n - 1] + h[n].size + Frame
    BY <1>6, <2>1 DEF last
  <2>3. sum[n - 1] \in Nat /\ h[n].size \in Nat
    BY <1>1, <1>10
  <2> QED BY <1>2, <2>1, <2>2, <2>3
<1> HIDE DEF S
<1>11. \A n \in 0 .. last : n \in S
  BY <1>1, <1>9, <1>10, IntervalInduction
<1>12. sum \in [0 .. last -> Nat]
  BY <1>6, <1>11 DEF S, last
<1>13. sum[0] = 0 /\ \A n \in 1 .. last : sum[n] = sum[n - 1] + h[n].size + Frame
  BY <1>1, <1>6 DEF last
<1> QED BY <1>7, <1>12, <1>13 DEF last

LEMMA CharsType ==
  ASSUME NEW h \in Histories
  PROVE  SerializedChars(h) \in Nat
<1>1. PICK sum \in [0 .. Len(h) -> Nat] : SerializedChars(h) = sum[Len(h)]
  BY TotalsAre
<1>2. Len(h) \in 0 .. Len(h)
  BY LenProperties DEF Histories
<1> QED BY <1>1, <1>2

LEMMA CharsOfNone == SerializedChars(<<>>) = 0
<1>1. <<>> \in Histories /\ Len(<<>>) = 0
  BY EmptySeq DEF Histories
<1> QED BY <1>1, TotalsAre

\* One more message adds its size and its frame.
LEMMA CharsOfOneMore ==
  ASSUME NEW h \in Histories, NEW m \in Messages
  PROVE  /\ h \o <<m>> \in Histories
         /\ SerializedChars(h \o <<m>>) = SerializedChars(h) + m.size + Frame
<1> DEFINE g == h \o <<m>>
           n == Len(h)
<1>1. n \in Nat
  BY LenProperties DEF Histories
<1>2. /\ g \in Histories /\ Len(g) = n + 1
      /\ \A i \in 1 .. n : g[i] = h[i]
      /\ g[n + 1] = m
  <2>1. <<m>> \in Histories /\ Len(<<m>>) = 1 /\ <<m>>[1] = m
    BY DEF Histories
  <2>2. /\ g \in Histories /\ Len(g) = n + 1
        /\ \A i \in 1 .. (n + 1) : g[i] = IF i <= n THEN h[i] ELSE <<m>>[i - n]
    BY <2>1, ConcatProperties DEF Histories
  <2> HIDE DEF g, n
  <2>3. \A i \in 1 .. n : i \in 1 .. (n + 1) /\ i <= n
    BY <1>1
  <2>4. n + 1 \in 1 .. (n + 1) /\ ~(n + 1 <= n) /\ (n + 1) - n = 1
    BY <1>1
  <2> QED BY <2>1, <2>2, <2>3, <2>4
<1> HIDE DEF g
<1>3. PICK s \in [0 .. n -> Nat] :
        /\ s[0] = 0
        /\ \A i \in 1 .. n : s[i] = s[i - 1] + h[i].size + Frame
        /\ SerializedChars(h) = s[n]
  BY TotalsAre
<1>4. PICK t \in [0 .. (n + 1) -> Nat] :
        /\ t[0] = 0
        /\ \A i \in 1 .. (n + 1) : t[i] = t[i - 1] + g[i].size + Frame
        /\ SerializedChars(g) = t[n + 1]
  BY <1>2, TotalsAre
<1> HIDE DEF n
<1> DEFINE S == {i \in 0 .. n : t[i] = s[i]}
<1>5. 0 \in S
  BY <1>1, <1>3, <1>4
<1>6. ASSUME NEW i \in 1 .. n, i - 1 \in S
      PROVE  i \in S
  <2>1. i \in 1 .. (n + 1) /\ i \in 0 .. n
    BY <1>1
  <2> QED BY <1>2, <1>3, <1>4, <1>6, <2>1
<1> HIDE DEF S
<1>7. \A i \in 0 .. n : i \in S
  BY <1>1, <1>5, <1>6, IntervalInduction
<1>8. t[n] = s[n]
  BY <1>1, <1>7 DEF S
<1>9. t[n + 1] = t[n] + m.size + Frame
  <2>1. n + 1 \in 1 .. (n + 1) /\ (n + 1) - 1 = n
    BY <1>1
  <2> QED BY <1>2, <1>4, <2>1
<1> QED BY <1>2, <1>3, <1>4, <1>8, <1>9 DEF g

-----------------------------------------------------------------------------
(* The history: what is left of it                                         *)

\* What one message becomes: itself, the mark, or nothing.
Piece(h, gone, mark, n) ==
  IF n \notin gone THEN <<h[n]>> ELSE IF n = Min(gone) THEN mark ELSE <<>>

LEMMA PieceType ==
  ASSUME NEW h \in Histories, NEW gone, NEW mark \in Histories, NEW n \in 1 .. Len(h)
  PROVE  Piece(h, gone, mark, n) \in Histories
<1>1. h[n] \in Messages
  BY ElementOfSeq DEF Histories
<1>2. <<h[n]>> \in Histories /\ <<>> \in Histories
  BY <1>1 DEF Histories
<1> QED BY <1>2 DEF Piece

\* What is kept of the first messages.
Keeps(kept, h, gone, mark) ==
  /\ kept \in [0 .. Len(h) -> Histories]
  /\ kept[0] = <<>>
  /\ \A n \in 1 .. Len(h) : kept[n] = kept[n - 1] \o Piece(h, gone, mark, n)
  /\ Replaced(h, gone, mark) = kept[Len(h)]

LEMMA ReplacedIs ==
  ASSUME NEW h \in Histories, NEW gone, NEW mark \in Histories
  PROVE  \E kept : Keeps(kept, h, gone, mark)
<1> DEFINE last == Len(h)
           kept == CHOOSE kept : kept =
             [n \in 0 .. Len(h) |->
                IF n = 0 THEN <<>>
                ELSE kept[n - 1] \o (IF n \notin gone THEN <<h[n]>>
                                     ELSE IF n = Min(gone) THEN mark ELSE <<>>)]
           step == [n \in 1 .. last |-> [v \in Histories |-> v \o Piece(h, gone, mark, n)]]
<1>1. last \in Nat
  BY LenProperties DEF Histories
<1>2. step \in [1 .. last -> [Histories -> Histories]]
  <2> SUFFICES ASSUME NEW n \in 1 .. last, NEW v \in Histories
               PROVE  v \o Piece(h, gone, mark, n) \in Histories
    OBVIOUS
  <2>1. Piece(h, gone, mark, n) \in Histories
    BY PieceType
  <2> QED BY <2>1, ConcatProperties DEF Histories
<1>3. <<>> \in Histories
  BY EmptySeq DEF Histories
<1>4. PICK f \in [0 .. last -> Histories] : Recursion(f, last, <<>>, step)
  <2> HIDE DEF step, last
  <2> QED BY <1>1, <1>2, <1>3, RecursionExists
<1>5. \A n \in 0 .. last : n # 0 => n \in 1 .. last /\ n - 1 \in 0 .. last
  <2> HIDE DEF last
  <2> QED BY <1>1
<1>6. f = [n \in 0 .. last |-> IF n = 0 THEN <<>> ELSE f[n - 1] \o Piece(h, gone, mark, n)]
  <2> HIDE DEF last
  <2>1. \A n \in 1 .. last : \A v \in Histories : step[n][v] = v \o Piece(h, gone, mark, n)
    OBVIOUS
  <2> HIDE DEF step
  <2>2. \A n \in 0 .. last : f[n] = IF n = 0 THEN <<>> ELSE f[n - 1] \o Piece(h, gone, mark, n)
    BY <1>4, <1>5, <2>1 DEF Recursion
  <2> QED BY <2>2
<1>7. kept = [n \in 0 .. Len(h) |-> IF n = 0 THEN <<>> ELSE kept[n - 1] \o Piece(h, gone, mark, n)]
  <2> HIDE DEF step
  <2> QED BY <1>6 DEF Piece
<1>8. Replaced(h, gone, mark) = kept[Len(h)]
  BY DEF Replaced
<1> HIDE DEF kept, step, last
<1>9. /\ kept[0] = <<>>
      /\ \A n \in 1 .. last : kept[n] = kept[n - 1] \o Piece(h, gone, mark, n)
  <2>1. 0 \in 0 .. last /\ \A n \in 1 .. last : n \in 0 .. last /\ n # 0
    BY <1>1
  <2> QED BY <1>7, <2>1 DEF last
<1> DEFINE S == {n \in 0 .. last : kept[n] \in Histories}
<1>10. 0 \in S
  BY <1>1, <1>3, <1>9
<1>11. ASSUME NEW n \in 1 .. last, n - 1 \in S
       PROVE  n \in S
  <2>1. Piece(h, gone, mark, n) \in Histories
    BY PieceType DEF last
  <2>2. kept[n - 1] \o Piece(h, gone, mark, n) \in Histories
    BY <1>11, <2>1, ConcatProperties DEF Histories
  <2>3. n \in 0 .. last
    BY <1>1
  <2> QED BY <1>9, <2>2, <2>3
<1> HIDE DEF S
<1>12. \A n \in 0 .. last : n \in S
  BY <1>1, <1>10, <1>11, IntervalInduction
<1>13. kept \in [0 .. last -> Histories]
  BY <1>7, <1>12 DEF S, last
<1> QED BY <1>8, <1>9, <1>13 DEF last, Keeps

\* A least element of the places that are dropped.
LEMMA MinIs ==
  ASSUME NEW T, T \subseteq Nat, T # {}
  PROVE  Min(T) \in T /\ \A n \in T : Min(T) <= n
<1>1. PICK m \in T : \A n \in T : ~(n < m)
  BY LeastElement
<1>2. \A n \in T : m <= n
  BY <1>1
<1> QED BY <1>1, <1>2 DEF Min

\* A mark adds its own size to what is left without one.
LEMMA CharsOfMark ==
  ASSUME NEW h \in Histories, NEW gone, gone \subseteq 1 .. Len(h), gone # {},
         NEW m \in Messages
  PROVE  /\ Replaced(h, gone, <<m>>) \in Histories
         /\ Replaced(h, gone, <<>>) \in Histories
         /\ SerializedChars(Replaced(h, gone, <<m>>)) =
              SerializedChars(Replaced(h, gone, <<>>)) + m.size + Frame
<1> DEFINE last == Len(h)
<1>1. last \in Nat
  BY LenProperties DEF Histories
<1>2. PICK first : first = Min(gone)
  OBVIOUS
<1>3. first \in 1 .. last /\ first \in gone /\ \A n \in gone : first <= n
  <2>1. gone \subseteq Nat
    BY <1>1
  <2> QED BY <1>2, <2>1, MinIs
<1>4. <<m>> \in Histories /\ <<>> \in Histories
  BY DEF Histories
<1>5. PICK mark \in Histories, none \in Histories : mark = <<m>> /\ none = <<>>
  BY <1>4
<1>6. PICK with, without : Keeps(with, h, gone, mark) /\ Keeps(without, h, gone, none)
  BY ReplacedIs
<1>7. /\ with \in [0 .. last -> Histories] /\ without \in [0 .. last -> Histories]
      /\ with[0] = <<>> /\ without[0] = <<>>
      /\ \A n \in 1 .. last : with[n] = with[n - 1] \o Piece(h, gone, mark, n)
      /\ \A n \in 1 .. last : without[n] = without[n - 1] \o Piece(h, gone, none, n)
      /\ Replaced(h, gone, mark) = with[last]
      /\ Replaced(h, gone, none) = without[last]
  BY <1>6 DEF Keeps
<1>8. \A n \in 1 .. last : h[n] \in Messages
  BY ElementOfSeq DEF Histories
<1> HIDE DEF last
<1> DEFINE extra(n) == IF n >= first THEN m.size + Frame ELSE 0
           S == {n \in 0 .. last : SerializedChars(with[n]) = SerializedChars(without[n]) + extra(n)}
<1>9. 0 \in S
  BY <1>1, <1>3, <1>7, CharsOfNone
<1>10. m.size \in Nat /\ Frame \in Nat
  BY HistoryConstants DEF Messages
<1>11. ASSUME NEW n \in 1 .. last, n - 1 \in S
       PROVE  n \in S
  <2>1. n \in 0 .. last /\ n - 1 \in 0 .. last
    BY <1>1
  <2>2. PICK p, q : p = with[n - 1] /\ q = without[n - 1]
    OBVIOUS
  <2>3. p \in Histories /\ q \in Histories
    BY <1>7, <2>1, <2>2
  <2>4. SerializedChars(p) = SerializedChars(q) + extra(n - 1)
    BY <1>11, <2>2
  <2>5. SerializedChars(p) \in Nat /\ SerializedChars(q) \in Nat
    BY <2>3, CharsType
  <2>6. with[n] = p \o Piece(h, gone, mark, n) /\ without[n] = q \o Piece(h, gone, none, n)
    BY <1>7, <2>2
  <2>7. CASE n \notin gone
    <3>1. with[n] = p \o <<h[n]>> /\ without[n] = q \o <<h[n]>>
      BY <2>6, <2>7 DEF Piece
    <3>2. /\ SerializedChars(with[n]) = SerializedChars(p) + h[n].size + Frame
          /\ SerializedChars(without[n]) = SerializedChars(q) + h[n].size + Frame
      BY <1>8, <2>3, <3>1, CharsOfOneMore
    <3>3. extra(n) = extra(n - 1)
      BY <1>1, <1>3, <2>7
    <3>4. h[n].size \in Nat /\ extra(n) \in Nat
      BY <1>8, <1>10 DEF Messages
    <3> HIDE DEF extra
    <3>5. SerializedChars(with[n]) = SerializedChars(without[n]) + extra(n)
      BY <1>10, <2>4, <2>5, <3>2, <3>3, <3>4
    <3> QED BY <2>1, <3>5
  <2>8. CASE n \in gone /\ n = first
    <3>1. with[n] = p \o <<m>> /\ without[n] = q \o <<>>
      BY <1>2, <1>5, <2>6, <2>8 DEF Piece
    <3>2. /\ SerializedChars(with[n]) = SerializedChars(p) + m.size + Frame
          /\ without[n] = q
      BY <2>3, <3>1, CharsOfOneMore, ConcatEmptySeq DEF Histories
    <3>3. extra(n - 1) = 0 /\ extra(n) = m.size + Frame
      BY <1>1, <1>3, <2>8
    <3> QED BY <1>10, <2>1, <2>4, <2>5, <3>2, <3>3
  <2>9. CASE n \in gone /\ n # first
    <3>1. with[n] = p \o <<>> /\ without[n] = q \o <<>>
      BY <1>2, <2>6, <2>9 DEF Piece
    <3>2. with[n] = p /\ without[n] = q
      BY <2>3, <3>1, ConcatEmptySeq DEF Histories
    <3>3. extra(n) = extra(n - 1)
      BY <1>1, <1>3, <2>9
    <3> QED BY <2>1, <2>4, <3>2, <3>3
  <2> QED BY <2>7, <2>8, <2>9
<1> HIDE DEF S
<1>12. \A n \in 0 .. last : n \in S
  BY <1>1, <1>9, <1>11, IntervalInduction
<1>13. last \in 0 .. last /\ last >= first
  BY <1>1, <1>3
<1>14. with[last] \in Histories /\ without[last] \in Histories
  BY <1>7, <1>13
<1>15. SerializedChars(with[last]) = SerializedChars(without[last]) + (m.size + Frame)
  BY <1>12, <1>13 DEF S
<1>16. SerializedChars(without[last]) \in Nat
  BY <1>14, CharsType
<1> QED BY <1>5, <1>7, <1>10, <1>14, <1>15, <1>16

-----------------------------------------------------------------------------
(* The history: a compaction                                               *)

\* A history that ends with what the user said.
EndsWithInput(h) ==
  /\ h \in Histories /\ h # <<>>
  /\ h[Len(h)].role = "user" /\ h[Len(h)].stands = 0

LEMMA ProtectedIs ==
  ASSUME NEW h, EndsWithInput(h)
  PROVE  /\ Len(h) \in Nat /\ Len(h) >= 1 /\ DOMAIN h = 1 .. Len(h)
         /\ Len(h) \in Protected(h)
         /\ \A i \in DOMAIN h : i \in Protected(h) /\ i # Len(h) => i = 1 /\ h[1].role = "system"
         /\ h[1].role = "system" => 1 \in Protected(h)
         /\ Prunable(h) \subseteq 1 .. (Len(h) - 1)
<1>1. Len(h) \in Nat /\ Len(h) >= 1 /\ DOMAIN h = 1 .. Len(h)
  BY LenProperties, EmptySeq DEF EndsWithInput, Histories
<1>2. \A i \in LastUser(h) : i = Len(h)
  <2> SUFFICES ASSUME NEW i \in LastUser(h), i # Len(h)
               PROVE  FALSE
    OBVIOUS
  <2>1. i \in 1 .. Len(h) /\ \A j \in (i + 1) .. Len(h) : h[j].role # "user"
    BY <1>1 DEF LastUser
  <2>2. Len(h) \in (i + 1) .. Len(h)
    BY <1>1, <2>1
  <2> QED BY <2>1, <2>2 DEF EndsWithInput
<1>3. /\ Len(h) \in Protected(h)
      /\ \A i \in DOMAIN h : i \in Protected(h) /\ i # Len(h) => i = 1 /\ h[1].role = "system"
      /\ h[1].role = "system" => 1 \in Protected(h)
  BY <1>1, <1>2 DEF Protected
<1>4. Prunable(h) \subseteq 1 .. (Len(h) - 1)
  BY <1>1, <1>3 DEF Prunable
<1> QED BY <1>1, <1>3, <1>4

LEMMA TruncatedIs ==
  ASSUME NEW h, EndsWithInput(h)
  PROVE  EndsWithInput(Truncated(h))
<1> DEFINE g == Truncated(h)
<1>1. /\ Len(h) \in Nat /\ Len(h) >= 1 /\ DOMAIN h = 1 .. Len(h)
      /\ Len(h) \in Protected(h)
  BY ProtectedIs
<1>2. \A size \in Nat : CutTo(Sanitized(size)) \in Nat
  BY HistoryConstants DEF CutTo, Sanitized
<1>3. ASSUME NEW i \in 1 .. Len(h)
      PROVE  g[i] \in Messages
  <2>1. h[i] \in Messages
    BY <1>3, ElementOfSeq DEF EndsWithInput, Histories
  <2>2. [h[i] EXCEPT !.size = CutTo(Sanitized(@))] \in Messages
    <3>1. CutTo(Sanitized(h[i].size)) \in Nat
      BY <1>2, <2>1 DEF Messages
    <3> QED BY <2>1, <3>1 DEF Messages
  <2> QED BY <1>1, <2>1, <2>2 DEF Truncated
<1>4. g[Len(h)] = h[Len(h)]
  BY <1>1 DEF Truncated
<1>5. g \in [1 .. Len(h) -> Messages]
  BY <1>1, <1>3 DEF Truncated
<1> HIDE DEF g
<1>6. g \in Histories /\ Len(g) = Len(h)
  BY <1>1, <1>5, SeqDef DEF Histories
<1>7. g # <<>>
  BY <1>1, <1>6, EmptySeq
<1> QED BY <1>4, <1>6, <1>7 DEF EndsWithInput, g

\* What is kept last is the input, and what comes before it is made of the
\* messages before it.
LEMMA InputIsKept ==
  ASSUME NEW h, EndsWithInput(h), NEW gone, Len(h) \notin gone, NEW mark \in Histories,
         NEW kept, Keeps(kept, h, gone, mark)
  PROVE  /\ EndsWithInput(Replaced(h, gone, mark))
         /\ Replaced(h, gone, mark) = kept[Len(h) - 1] \o <<h[Len(h)]>>
         /\ kept[Len(h) - 1] \in Histories
<1>1. Len(h) \in Nat /\ Len(h) >= 1
  BY ProtectedIs
<1>2. Len(h) \in 1 .. Len(h) /\ Len(h) - 1 \in 0 .. Len(h)
  BY <1>1
<1>3. h[Len(h)] \in Messages
  BY <1>2, ElementOfSeq DEF EndsWithInput, Histories
<1>4. PICK s \in Histories, m \in Messages : s = kept[Len(h) - 1] /\ m = h[Len(h)]
  BY <1>2, <1>3 DEF Keeps
<1>5. Replaced(h, gone, mark) = s \o <<m>>
  BY <1>2, <1>4 DEF Keeps, Piece
<1>6. Len(s) \in Nat /\ <<m>> \in Histories /\ Len(<<m>>) = 1 /\ <<m>>[1] = m
  BY <1>4, LenProperties DEF Histories
<1>7. /\ s \o <<m>> \in Histories /\ Len(s \o <<m>>) = Len(s) + 1
      /\ (s \o <<m>>)[Len(s) + 1] = m
  <2>1. /\ s \o <<m>> \in Histories /\ Len(s \o <<m>>) = Len(s) + 1
        /\ \A i \in 1 .. Len(s) + 1 : (s \o <<m>>)[i] = IF i <= Len(s) THEN s[i] ELSE <<m>>[i - Len(s)]
    BY <1>4, <1>6, ConcatProperties DEF Histories
  <2>2. Len(s) + 1 \in 1 .. Len(s) + 1 /\ ~(Len(s) + 1 <= Len(s)) /\ (Len(s) + 1) - Len(s) = 1
    BY <1>6
  <2> QED BY <1>6, <2>1, <2>2
<1>8. EndsWithInput(s \o <<m>>)
  <2>1. s \o <<m>> # <<>>
    BY <1>6, <1>7, EmptySeq
  <2> QED BY <1>4, <1>7, <2>1 DEF EndsWithInput
<1> QED BY <1>4, <1>5, <1>8

\* When all that may be dropped is, only a mark is left of it.
LEMMA OnlyMarksAreLeft ==
  ASSUME NEW h, EndsWithInput(h), NEW m \in Messages, m.stands > 0 \/ Prunable(h) = {},
         NEW mark \in Histories, mark = <<m>>,
         NEW left, left = Replaced(h, Prunable(h), mark)
  PROVE  \A i \in DOMAIN left \ Protected(left) : left[i].stands > 0
<1> DEFINE gone == Prunable(h)
           last == Len(h)
           Mark(s) == \A i \in 1 .. Len(s) :
                        s[i].stands > 0 \/ (i = 1 /\ s[1].role = "system")
<1>1. /\ last \in Nat /\ last >= 1 /\ DOMAIN h = 1 .. last
      /\ last \in Protected(h)
      /\ \A n \in DOMAIN h : n \in Protected(h) /\ n # last => n = 1 /\ h[1].role = "system"
  BY ProtectedIs
<1>2. mark \in Histories /\ mark = <<m>>
  OBVIOUS
<1>3. h \in Histories
  BY DEF EndsWithInput
<1>4. PICK kept : Keeps(kept, h, gone, mark)
  BY <1>3, ReplacedIs
<1>5. last \notin gone
  BY <1>1 DEF Prunable
<1>6. \A n \in 1 .. (last - 1) : n \notin gone => n = 1 /\ h[1].role = "system"
  BY <1>1 DEF Prunable
<1>7. gone # {} => m.stands > 0
  OBVIOUS
<1>8. \A n \in 1 .. last : h[n] \in Messages
  BY <1>3, ElementOfSeq DEF Histories
<1>9. EndsWithInput(left) /\ left = kept[last - 1] \o <<h[last]>>
  <2> HIDE DEF gone
  <2> QED BY <1>2, <1>4, <1>5, InputIsKept DEF gone
<1>10. /\ kept \in [0 .. last -> Histories] /\ kept[0] = <<>>
      /\ \A n \in 1 .. last : kept[n] = kept[n - 1] \o Piece(h, gone, mark, n)
  BY <1>4 DEF Keeps
<1> HIDE DEF gone, last
<1> DEFINE S == {n \in 0 .. (last - 1) : Mark(kept[n])}
<1>11. 0 \in S
  BY <1>1, <1>10, EmptySeq
<1>12. ASSUME NEW n \in 1 .. (last - 1), n - 1 \in S
       PROVE  n \in S
  <2>1. n \in 1 .. last /\ n \in 0 .. (last - 1) /\ n - 1 \in 0 .. last
    BY <1>1
  <2>2. PICK s \in Histories : s = kept[n - 1]
    BY <1>10, <2>1
  <2>3. Mark(s)
    BY <1>12, <2>2
  <2>4. kept[n] = s \o Piece(h, gone, mark, n)
    BY <1>10, <2>1, <2>2
  <2>5. Len(s) \in Nat
    BY <2>2, LenProperties DEF Histories
  <2>6. ASSUME NEW x \in Messages, x.stands > 0 \/ (s = <<>> /\ x.role = "system")
        PROVE  Mark(s \o <<x>>)
    <3>1. <<x>> \in Histories /\ Len(<<x>>) = 1 /\ <<x>>[1] = x
      BY DEF Histories
    <3>2. /\ Len(s \o <<x>>) = Len(s) + 1
          /\ \A i \in 1 .. Len(s) + 1 :
               (s \o <<x>>)[i] = IF i <= Len(s) THEN s[i] ELSE <<x>>[i - Len(s)]
      BY <2>2, <3>1, ConcatProperties DEF Histories
    <3> SUFFICES ASSUME NEW i \in 1 .. Len(s) + 1
                 PROVE  \/ (s \o <<x>>)[i].stands > 0
                        \/ i = 1 /\ (s \o <<x>>)[1].role = "system"
      BY <3>2
    <3>3. CASE i <= Len(s)
      <4>1. i \in 1 .. Len(s) /\ (s \o <<x>>)[i] = s[i]
        BY <2>5, <3>2, <3>3
      <4> QED BY <2>3, <4>1
    <3>4. CASE i > Len(s)
      <4>1. i = Len(s) + 1 /\ i - Len(s) = 1 /\ ~(i <= Len(s))
        BY <2>5, <3>4
      <4>2. (s \o <<x>>)[i] = x
        BY <3>1, <3>2, <4>1
      <4>3. s = <<>> => i = 1
        BY <4>1, EmptySeq
      <4> QED BY <2>6, <4>2, <4>3
    <3> QED BY <2>5, <3>3, <3>4
  <2>7. CASE n \notin gone
    <3>1. n = 1 /\ h[1].role = "system"
      BY <1>6, <2>7
    <3>2. s = <<>> /\ kept[n] = s \o <<h[1]>>
      BY <1>10, <2>2, <2>4, <2>7, <3>1 DEF Piece
    <3>3. Mark(s \o <<h[1]>>)
      BY <1>8, <2>1, <2>6, <3>1, <3>2
    <3> QED BY <2>1, <3>2, <3>3
  <2>8. CASE n \in gone
    <3>1. m.stands > 0
      BY <1>7, <2>8
    <3>2. Mark(s \o <<m>>) /\ s \o <<>> = s
      BY <2>6, <3>1, ConcatEmptySeq DEF Histories
    <3>3. kept[n] = s \o <<m>> \/ kept[n] = s
      BY <1>2, <2>4, <2>8, <3>2 DEF Piece
    <3> QED BY <2>1, <2>3, <3>2, <3>3
  <2> QED BY <2>7, <2>8
<1> HIDE DEF S
<1>13. last - 1 \in Nat /\ last - 1 \in 0 .. (last - 1)
  BY <1>1
<1>14. \A n \in 0 .. (last - 1) : n \in S
  BY <1>11, <1>12, <1>13, IntervalInduction
<1>15. PICK s \in Histories : s = kept[last - 1]
  <2>1. last - 1 \in 0 .. last
    BY <1>1
  <2> QED BY <1>10, <2>1
<1>16. Mark(s)
  BY <1>13, <1>14, <1>15 DEF S
<1> SUFFICES ASSUME NEW i \in DOMAIN left, i \notin Protected(left)
             PROVE  left[i].stands > 0
  OBVIOUS
<1>17. /\ DOMAIN left = 1 .. Len(left) /\ Len(left) \in Protected(left)
       /\ left[1].role = "system" => 1 \in Protected(left)
  BY <1>9, ProtectedIs
<1>18. PICK x \in Messages : x = h[last]
  <2>1. last \in 1 .. last
    BY <1>1
  <2> QED BY <1>8, <2>1
<1>19. /\ Len(left) = Len(s) + 1 /\ Len(s) \in Nat
       /\ \A j \in 1 .. Len(s) : left[j] = s[j]
  <2>1. <<x>> \in Histories /\ Len(<<x>>) = 1
    BY <1>18 DEF Histories
  <2>2. Len(s) \in Nat
    BY <1>15, LenProperties DEF Histories
  <2>3. left = s \o <<x>>
    BY <1>9, <1>15, <1>18
  <2>4. /\ Len(left) = Len(s) + 1
        /\ \A j \in 1 .. Len(s) + 1 : left[j] = IF j <= Len(s) THEN s[j] ELSE <<x>>[j - Len(s)]
    BY <1>15, <2>1, <2>3, ConcatProperties DEF Histories
  <2>5. \A j \in 1 .. Len(s) : j \in 1 .. Len(s) + 1 /\ j <= Len(s)
    BY <2>2
  <2> QED BY <2>2, <2>4, <2>5
<1>20. i \in 1 .. Len(s)
  BY <1>17, <1>19
<1>21. s[i].stands > 0 \/ (i = 1 /\ s[1].role = "system")
  BY <1>16, <1>20
<1>22. left[i] = s[i]
  BY <1>19, <1>20
<1> QED BY <1>17, <1>21, <1>22

\* The places that are dropped, and what is left has their mark.
LEMMA PrunedIs ==
  ASSUME NEW h, EndsWithInput(h), MarkerReserve <= Threshold \div 2
  PROVE  /\ EndsWithInput(Pruned(h))
         /\ \/ ~TooLong(Pruned(h))
            \/ \A i \in DOMAIN Pruned(h) \ Protected(Pruned(h)) : Pruned(h)[i].stands > 0
<1>1. /\ Len(h) \in Nat /\ Len(h) >= 1 /\ DOMAIN h = 1 .. Len(h)
      /\ Prunable(h) \subseteq 1 .. (Len(h) - 1) /\ h \in Histories
  BY ProtectedIs DEF EndsWithInput
<1>2. PICK gone : gone = Dropped(h)
  OBVIOUS
<1>3. gone \subseteq Prunable(h)
  BY <1>2 DEF Dropped, UpTo
<1>4. gone \subseteq 1 .. Len(h) /\ Len(h) \notin gone
  BY <1>1, <1>3
<1>5. IsFiniteSet(gone) /\ Cardinality(gone) \in Nat
  <2>1. IsFiniteSet(1 .. Len(h))
    BY <1>1, FS_Interval
  <2> QED BY <1>4, <2>1, FS_Subset, FS_CardinalityType
<1>6. PICK m \in Messages : m = Marker(Cardinality(gone))
  BY <1>5, MessagesAre
<1>7. m.stands > 0 \/ gone = {}
  <2>1. m.stands = Cardinality(gone)
    BY <1>6 DEF Marker
  <2>2. Cardinality(gone) = 0 => gone = {}
    BY <1>5, FS_EmptySet
  <2> QED BY <1>5, <2>1, <2>2
<1>8. PICK mark \in Histories : mark = <<m>>
  <2>1. <<m>> \in Histories
    BY DEF Histories
  <2> QED BY <2>1
<1>9. PICK left : left = Replaced(h, gone, mark)
  OBVIOUS
<1>10. Pruned(h) = left
  BY <1>2, <1>6, <1>8, <1>9 DEF Pruned
<1>11. EndsWithInput(left)
  <2>1. PICK kept : Keeps(kept, h, gone, mark)
    BY <1>1, ReplacedIs
  <2> QED BY <1>4, <1>9, <2>1, InputIsKept
<1> DEFINE enough == {k \in Prunable(h) :
                        SerializedChars(Replaced(h, UpTo(h, k), <<>>)) <= Target}
<1>12. CASE enough = {}
  <2>1. gone = Prunable(h)
    BY <1>1, <1>2, <1>12 DEF Dropped, UpTo
  <2>2. \A i \in DOMAIN left \ Protected(left) : left[i].stands > 0
    BY <1>7, <1>8, <1>9, <2>1, OnlyMarksAreLeft
  <2> QED BY <1>10, <1>11, <2>2
<1>13. CASE enough # {}
  <2>1. PICK k \in enough : k = Min(enough)
    <3>1. enough \subseteq Nat
      BY <1>1
    <3> HIDE DEF enough
    <3> QED BY <1>13, <3>1, MinIs
  <2>2. gone = UpTo(h, k) /\ k \in gone
    <3>1. gone = UpTo(h, k)
      BY <1>2, <1>13, <2>1 DEF Dropped
    <3>2. k \in Prunable(h) /\ k <= k
      BY <1>1, <2>1
    <3> QED BY <3>1, <3>2 DEF UpTo
  <2>3. SerializedChars(Replaced(h, gone, <<>>)) <= Target
    BY <2>1, <2>2
  <2>4. /\ Replaced(h, gone, <<>>) \in Histories
        /\ SerializedChars(left) = SerializedChars(Replaced(h, gone, <<>>)) + m.size + Frame
    BY <1>1, <1>4, <1>8, <1>9, <2>2, CharsOfMark
  <2>5. SerializedChars(Replaced(h, gone, <<>>)) \in Nat
    BY <2>4, CharsType
  <2>6. m.size = MarkerSize /\ MarkerSize + Frame <= MarkerReserve
    BY <1>6, HistoryConstants DEF Marker
  <2>7. Target <= Threshold - MarkerReserve /\ Target \in Int
    BY HistoryConstants DEF Target
  <2>8. ~TooLong(left)
    BY <2>3, <2>4, <2>5, <2>6, <2>7, HistoryConstants DEF TooLong
  <2> QED BY <1>10, <1>11, <2>8
<1> QED BY <1>12, <1>13

\* What a turn posts, whatever the history was.
LEMMA CompactedIs ==
  ASSUME NEW h, EndsWithInput(h), MarkerReserve <= Threshold \div 2
  PROVE  LET g == CompactHistory(h)
         IN  /\ EndsWithInput(g)
             /\ TooLong(g) => \A i \in DOMAIN g \ Protected(g) : g[i].stands > 0
BY TruncatedIs, PrunedIs DEF CompactHistory

\* The inductive invariant: a history is a list of messages.
Remembered == history \in Histories /\ PostedFits

(***************************************************************************)
(* compaction.cpp:97-137: for any sizes and any budget that leaves room    *)
(* for a marker in one of its halves, whatever is posted ends with the     *)
(* user's input, and fits or has nothing left to drop.                     *)
(***************************************************************************)
THEOREM PostsFit ==
  ASSUME MarkerReserve <= Threshold \div 2
  PROVE  HistorySpec => []PostedFits
<1>1. HistoryInit => Remembered
  BY EmptySeq DEF HistoryInit, Remembered, Histories, PostedFits
<1>2. Remembered /\ [HistoryNext]_historyVars => Remembered'
  <2> SUFFICES ASSUME Remembered, [HistoryNext]_historyVars
               PROVE  Remembered'
    OBVIOUS
  <2>1. ASSUME NEW size \in Size, SetSystemPrompt(size)
        PROVE  Remembered'
    <3>1. turn' = "idle" /\ size \in Nat
      BY <2>1, HistoryConstants DEF SetSystemPrompt
    <3> DEFINE old == {i \in DOMAIN history : history[i].role = "system"}
    <3>2. CASE old = {}
      <4>1. history' = <<Message("system", size)>> \o history
        BY <2>1, <3>2 DEF SetSystemPrompt
      <4>2. <<Message("system", size)>> \in Histories
        BY <3>1, MessagesAre DEF Histories
      <4> QED BY <3>1, <4>1, <4>2, ConcatProperties DEF Remembered, Histories, PostedFits
    <3>3. CASE old # {}
      <4>1. PICK k : history' = [history EXCEPT ![k].size = size]
        BY <2>1, <3>3 DEF SetSystemPrompt
      <4>2. Len(history) \in Nat /\ history \in [1 .. Len(history) -> Messages]
        BY LenProperties DEF Remembered, Histories
      <4>3. history' \in [1 .. Len(history) -> Messages]
        BY <3>1, <4>1, <4>2 DEF Messages
      <4>4. history' \in Histories
        BY <4>2, <4>3, SeqDef DEF Histories
      <4> QED BY <3>1, <4>4 DEF Remembered, PostedFits
    <3> QED BY <3>2, <3>3
  <2>2. ASSUME NEW size \in Size, BeginTurn(size)
        PROVE  Remembered'
    <3>1. PICK m \in Messages : m = Message("user", size)
      BY HistoryConstants, MessagesAre
    <3>2. PICK h : h = Append(history, m)
      OBVIOUS
    <3>3. EndsWithInput(h)
      <4>1. history \in Histories /\ Len(history) \in Nat
        BY LenProperties DEF Remembered, Histories
      <4>2. /\ h \in Histories /\ Len(h) = Len(history) + 1
            /\ h[Len(history) + 1] = m
        BY <3>2, <4>1, AppendProperties DEF Histories
      <4>3. h # <<>>
        BY <4>1, <4>2, EmptySeq
      <4>4. m.role = "user" /\ m.stands = 0
        BY <3>1 DEF Message
      <4> QED BY <4>2, <4>3, <4>4 DEF EndsWithInput
    <3>4. history' = CompactHistory(h)
      BY <2>2, <3>1, <3>2 DEF BeginTurn
    <3>5. /\ EndsWithInput(history')
          /\ TooLong(history') =>
               \A i \in DOMAIN history' \ Protected(history') : history'[i].stands > 0
      BY <3>3, <3>4, CompactedIs
    <3> QED BY <3>5 DEF Remembered, EndsWithInput, PostedFits, TooLong, Protected
  <2>3. ASSUME NEW size \in Size, EndTurn(size)
        PROVE  Remembered'
    <3>1. Message("assistant", size) \in Messages
      BY HistoryConstants, MessagesAre
    <3> QED BY <2>3, <3>1, AppendProperties DEF EndTurn, Remembered, Histories, PostedFits
  <2>4. CASE TurnThrows
    BY <2>4 DEF TurnThrows, Remembered, PostedFits
  <2>5. CASE UNCHANGED historyVars
    BY <2>5 DEF historyVars, Remembered, PostedFits, TooLong, Protected
  <2> QED BY <2>1, <2>2, <2>3, <2>4, <2>5 DEF HistoryNext
<1>3. Remembered => PostedFits
  BY DEF Remembered
<1> QED BY <1>1, <1>2, <1>3, PTL DEF HistorySpec
===============================================================================
