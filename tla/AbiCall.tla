------------------------------- MODULE AbiCall -------------------------------
(***************************************************************************)
(* The native engine client of dsh-lite-cpp (abi_client.cpp): two engines  *)
(* that live as long as the client, and for every post a session of its    *)
(* own that is filled with the prompt in batches and then with one token   *)
(* after the other. A wall-clock firewall, polled inside the engine's      *)
(* calls, may abort any of them. The engine library is external.           *)
(***************************************************************************)
EXTENDS Naturals

CONSTANTS
  MaxPrompt,   \* bound: tokens of a prompt
  MaxTokens,   \* maxTokens of the configuration
  BatchRows,   \* max_batch_rows of the adapter; 0: no limit
  Context,     \* max_context_tokens of the adapter
  HasEos,      \* stopOnEos, and the adapter has an end token
  MaxAbiPosts  \* bound: posts

ASSUME AbiConstants ==
  /\ MaxPrompt \in Nat /\ MaxTokens \in Nat \ {0} /\ BatchRows \in Nat
  /\ Context \in Nat /\ HasEos \in BOOLEAN /\ MaxAbiPosts \in Nat

VARIABLES
  engine,   \* "new", "open", "refused", "closed"; and which engines are open
  abi,      \* the post under way
  session,  \* tokens the session may hold; none when there is no session
  fed,      \* history: the positions the session was fed, in order
  abiTotal  \* total_ and requests_

abiVars == <<engine, abi, session, fed, abiTotal>>

NoSession == 0

AbiInit ==
  /\ engine = [life |-> "new", edge |-> FALSE, segment |-> FALSE]
  /\ abi = [pc |-> "idle", posts |-> 0]
  /\ session = NoSession
  /\ fed = [next |-> 0, gap |-> FALSE]
  /\ abiTotal = [tokens |-> 0, requests |-> 0]

\* The constructor. Whatever fails after the edge engine is open closes it.
OpenEngine(fails) ==
  /\ engine.life = "new"
  /\ engine' = IF fails \in {"adapters", "edge open", "capabilities", "no greedy", "segment open"}
               THEN [life |-> "refused", edge |-> FALSE, segment |-> FALSE]
               ELSE [life |-> "open", edge |-> TRUE, segment |-> TRUE]
  /\ UNCHANGED <<abi, session, fed, abiTotal>>

CloseEngine ==
  /\ engine.life = "open" /\ abi.pc \in {"idle", "over"}
  /\ engine' = [life |-> "closed", edge |-> FALSE, segment |-> FALSE]
  /\ UNCHANGED <<abi, session, fed, abiTotal>>

(***************************************************************************)
(* post: the prompt is tokenized, and must leave room for the answer before*)
(* a session is created. The session dies with the post, however it ends.  *)
(***************************************************************************)
Over(outcome) == [pc |-> "over", posts |-> abi.posts, outcome |-> outcome]

EndPost(outcome) ==
  /\ abi' = Over(outcome)
  /\ session' = NoSession
  /\ UNCHANGED <<engine, fed>>

Needed_promptOnly(prompt) == prompt

Needed(prompt) == prompt + MaxTokens + 2

RefusePost(outcome) ==
  /\ abi' = [Over(outcome) EXCEPT !.posts = @ + 1]
  /\ UNCHANGED <<engine, session, fed, abiTotal>>

\* The native lane has no way to constrain an answer.
AbiPostConstrained ==
  /\ engine.life = "open" /\ abi.pc \in {"idle", "over"} /\ abi.posts < MaxAbiPosts
  /\ RefusePost("grammar-unsupported")

AbiPost(prompt, fails) ==
  /\ engine.life = "open" /\ abi.pc \in {"idle", "over"} /\ abi.posts < MaxAbiPosts
  /\ IF prompt = 0 \/ fails = "tokenize" THEN RefusePost("error")
     ELSE IF Needed(prompt) > Context THEN RefusePost("context overflow")
     ELSE IF fails = "session" THEN RefusePost("error")
     ELSE /\ abi' = [pc |-> "prefill", posts |-> abi.posts + 1, prompt |-> prompt, base |-> 0,
                     step |-> 1, generated |-> 0, eos |-> FALSE, late |-> FALSE, tripped |-> FALSE]
          /\ session' = Needed(prompt)
          /\ fed' = [next |-> 0, gap |-> FALSE]
          /\ UNCHANGED <<engine, abiTotal>>

Busy == abi.pc \in {"prefill", "select", "decode"}

DeadlinePasses ==
  /\ Busy /\ ~abi.late
  /\ abi' = [abi EXCEPT !.late = TRUE]
  /\ UNCHANGED <<engine, session, fed, abiTotal>>

\* The engine asks whether to go on. A call that was told to stop fails, but
\* one may also end before it notices: the loop looks at the flag itself.
Polls ==
  /\ Busy /\ abi.late /\ ~abi.tripped
  /\ abi' = [abi EXCEPT !.tripped = TRUE]
  /\ UNCHANGED <<engine, session, fed, abiTotal>>

EngineFails ==
  /\ Busy
  /\ EndPost(IF abi.tripped THEN "cancelled" ELSE "error")
  /\ UNCHANGED abiTotal

\* A segment run writes "rows" positions from "position" on.
Feed(position, rows) ==
  fed' = [next |-> position + rows, gap |-> fed.gap \/ position # fed.next]

Rows == IF BatchRows = 0 \/ abi.prompt - abi.base < BatchRows
        THEN abi.prompt - abi.base ELSE BatchRows

Prefill ==
  /\ abi.pc = "prefill"
  /\ Feed(abi.base, Rows)
  /\ abi' = [abi EXCEPT !.base = @ + Rows,
                        !.pc = IF abi.base + Rows = abi.prompt THEN "select" ELSE "prefill"]
  /\ UNCHANGED <<engine, session, abiTotal>>

Select(eos) ==
  /\ abi.pc = "select"
  /\ abi' = [abi EXCEPT !.pc = "decode", !.generated = @ + 1, !.eos = eos]
  /\ UNCHANGED <<engine, session, fed, abiTotal>>

DecodeOver == abi.step >= MaxTokens \/ (HasEos /\ abi.eos)

DecodeStep(eos) ==
  /\ abi.pc = "decode" /\ ~DecodeOver
  /\ IF abi.tripped
     THEN EndPost("cancelled")
     ELSE /\ Feed(abi.prompt + abi.step - 1, 1)
          /\ abi' = [abi EXCEPT !.step = @ + 1, !.generated = @ + 1, !.eos = eos]
          /\ UNCHANGED <<engine, session>>
  /\ UNCHANGED abiTotal

\* No text is an answer too. The tokens counted are the client's own.
Detokenize(fails) ==
  /\ abi.pc = "decode" /\ DecodeOver
  /\ EndPost(IF fails THEN "error" ELSE "answered")
  /\ abiTotal' = IF fails THEN abiTotal
                 ELSE [tokens |-> abiTotal.tokens + abi.prompt + abi.generated,
                       requests |-> abiTotal.requests + 1]

AbiFaults == {"adapters", "edge open", "capabilities", "no greedy", "segment open", "none"}

AbiNext ==
  \/ \E fails \in AbiFaults : OpenEngine(fails)
  \/ CloseEngine
  \/ AbiPostConstrained
  \/ \E prompt \in 0..MaxPrompt, fails \in {"tokenize", "session", "none"} : AbiPost(prompt, fails)
  \/ DeadlinePasses \/ Polls \/ EngineFails
  \/ Prefill
  \/ \E eos \in BOOLEAN : Select(eos) \/ DecodeStep(eos)
  \/ \E fails \in BOOLEAN : Detokenize(fails)

AbiSpec == AbiInit /\ [][AbiNext]_abiVars

(***************************************************************************)
(* Properties.                                                             *)
(***************************************************************************)

\* The prompt's batches and the answer's tokens occupy consecutive positions
\* of one session, and all of them are within what the session and the
\* adapter can hold: the room is reserved before the session exists, for
\* every place the decoding can stop.
PositionsFit ==
  /\ ~fed.gap
  /\ session # NoSession => fed.next <= session /\ session <= Context

=============================================================================
