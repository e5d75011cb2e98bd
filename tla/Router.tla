------------------------------- MODULE Router --------------------------------
(***************************************************************************)
(* The model router of dsh-lite-cpp (router.cpp): three ordered pools of   *)
(* engines, for the brain, the workers and the verifiers. A post tries the *)
(* entries of its role's pool one after the other and never another pool.  *)
(* Posts run in threads of their own (postAsync); what they share are the  *)
(* turn counters, one per entry, read before a request and raised after.   *)
(***************************************************************************)
EXTENDS Naturals, Sequences, FiniteSets

CONSTANTS
  RouterConfig,  \* bound: the configurations tried
  RouterCall,    \* posts
  Failure        \* bound: the ways in which an attempt fails

Role == {"brain", "worker", "verifier"}

\* classify: the typed failures, and what the text of an exception says.
Failures == {"stall-no-bytes", "grammar-unsupported", "abi-cancelled",
             "abi-context-overflow", "transport", "http-404", "http-5xx",
             "http-4xx", "malformed", "error"}

\* A pool is a list of entries, each with a number of turns to warm up.
ASSUME RouterConstants ==
  /\ Failure \subseteq Failures
  /\ IsFiniteSet(RouterCall)
  /\ \A cfg \in RouterConfig : \A r \in Role :
       /\ cfg[r] \in Seq({cfg[r][i] : i \in DOMAIN cfg[r]})
       /\ \A i \in DOMAIN cfg[r] : cfg[r][i].warmup \in Nat

VARIABLES
  config,     \* the pools and whether an ABI factory was injected
  built,      \* "new", "refused", "ready"
  entryTurns, \* turnCounters_: per role and place in its pool
  call        \* the posts

routerVars == <<config, built, entryTurns, call>>

(***************************************************************************)
(* The identity of an entry, for the checks of a configuration. hostPortOf *)
(* looks for the first slash of the whole URL, which is one of the scheme's*)
(* two, so that the path is part of what it returns.                       *)
(***************************************************************************)
HostPortOf(endpoint) == <<endpoint.host, endpoint.path>>
EntryIdentity(e) == IF e.backend = "abi" THEN <<"abi", e.dir>> ELSE HostPortOf(e.endpoint)

ValidEntry(e) ==
  /\ e.model # ""
  /\ IF e.backend = "abi" THEN e.dir # "" ELSE e.endpoint.scheme = "http"

Identities(pool) == {EntryIdentity(pool[i]) : i \in DOMAIN pool}

\* What the constructor refuses, before it builds a client for every entry.
Acceptable(cfg) ==
  /\ \A r \in Role : cfg[r] # <<>>
  /\ \A r \in Role : \A i \in DOMAIN cfg[r] : ValidEntry(cfg[r][i])
  /\ \A r \in {"worker", "verifier"} : Identities(cfg[r]) \cap Identities(cfg.brain) = {}
  /\ \A r \in Role : Cardinality(Identities(cfg[r])) = Len(cfg[r])
  /\ \A r \in Role : \A i \in DOMAIN cfg[r] : cfg[r][i].backend = "abi" => cfg.factory

Idle == [role |-> "none"]
RouterInit ==
  /\ config \in RouterConfig
  /\ built = "new"
  /\ entryTurns = [r \in Role |-> [i \in DOMAIN config[r] |-> 0]]
  /\ call = [c \in RouterCall |-> Idle]

\* An engine of the ABI lane may fail to open, which refuses the whole.
BuildRouter ==
  /\ built = "new"
  /\ built' \in IF ~Acceptable(config) THEN {"refused"}
                ELSE IF \E r \in Role : \E i \in DOMAIN config[r] : config[r][i].backend = "abi"
                  THEN {"ready", "refused"}
                ELSE {"ready"}
  /\ UNCHANGED <<config, entryTurns, call>>

(***************************************************************************)
(* post and postConstrained: "at" is the entry tried, "seen" its counter   *)
(* when the request was sent (none: not sent yet), and the result is none  *)
(* until the post ends.                                                    *)
(***************************************************************************)
BeginPost(c, role, constrained) ==
  /\ built = "ready" /\ call[c] = Idle
  /\ call' = [call EXCEPT ![c] =
       [role |-> role, constrained |-> constrained, at |-> 1, sent |-> FALSE, seen |-> 0,
        attempts |-> <<>>, refusals |-> 0, result |-> "none"]]
  /\ UNCHANGED <<config, built, entryTurns>>

Going(c) == call[c] # Idle /\ call[c].result = "none"

SendRequest(c) ==
  /\ Going(c) /\ ~call[c].sent
  /\ call' = [call EXCEPT ![c].sent = TRUE, ![c].seen = entryTurns[call[c].role][call[c].at]]
  /\ UNCHANGED <<config, built, entryTurns>>

VelocityAborts_early(e, answer, seen) ==
  e.floor /\ seen + 1 >= e.warmup /\ ~answer.silent /\ answer.slow

\* A response below the floor is a failure, but for an entry that warms up.
VelocityAborts(e, answer, seen) ==
  /\ e.floor
  /\ seen >= e.warmup
  /\ ~answer.silent
  /\ answer.slow

Answers == [outcome: {"ok"}, slow: BOOLEAN, silent: BOOLEAN] \cup [outcome: Failure]

OutcomeOf(e, answer, seen) ==
  IF answer.outcome # "ok" THEN answer.outcome
  ELSE IF VelocityAborts(e, answer, seen) THEN "velocity-floor" ELSE "ok"

\* The entry answers or fails: its turn counts, and the post goes on or ends.
Counted(role, i) == [entryTurns EXCEPT ![role][i] = @ + 1]

EndAttempt(c, answer) ==
  LET post    == call[c]
      pool    == config[post.role]
      outcome == OutcomeOf(pool[post.at], answer, post.seen)
      refused == post.refusals + (IF outcome = "grammar-unsupported" THEN 1 ELSE 0)
      last    == post.at = Len(pool)
      result  == IF outcome = "ok" THEN "served"
                 ELSE IF ~last THEN "none"
                 ELSE IF refused = Len(pool) THEN "GrammarUnsupportedError"
                 ELSE "exhausted"
  IN  /\ Going(c) /\ post.sent
      /\ outcome = "grammar-unsupported" => post.constrained
      /\ entryTurns' = Counted(post.role, post.at)
      /\ call' = [call EXCEPT ![c] =
           [post EXCEPT !.attempts = Append(@, outcome), !.refusals = refused,
                        !.result = result, !.sent = FALSE,
                        !.at = IF result = "none" THEN @ + 1 ELSE @]]
      /\ UNCHANGED <<config, built>>

RouterNext ==
  \/ BuildRouter
  \/ \E c \in RouterCall :
       \/ \E role \in Role, constrained \in BOOLEAN : BeginPost(c, role, constrained)
       \/ SendRequest(c)
       \/ \E answer \in Answers : EndAttempt(c, answer)

RouterSpec == RouterInit /\ [][RouterNext]_routerVars

-----------------------------------------------------------------------------
Posts == {c \in RouterCall : call[c] # Idle}
Tried(c) == 1..Len(call[c].attempts)

(***************************************************************************)
(* "The first N successful+failed turns on this entry are NEVER            *)
(* velocity-aborted" (router.hpp:75, router.cpp:272-322): each of the five *)
(* ways an attempt ends counts it once, whatever posts run at the same     *)
(* time, and an attempt dropped for its speed was preceded by that many.   *)
(***************************************************************************)
WarmUpIsSpared ==
  built = "ready" =>
    \A role \in Role : \A i \in DOMAIN config[role] :
      LET on == {c \in Posts : call[c].role = role /\ i \in Tried(c)} IN
      /\ entryTurns[role][i] = Cardinality(on)
      /\ \A c \in on :
           call[c].attempts[i] = "velocity-floor" =>
             Cardinality(on \ {c}) >= config[role][i].warmup
=============================================================================
