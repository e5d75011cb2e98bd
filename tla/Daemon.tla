------------------------------- MODULE Daemon --------------------------------
(***************************************************************************)
(* harnessd (harnessd.cpp): a single-threaded loop that accepts one client *)
(* at a time on a Unix socket, checks its token, and answers its lines, in *)
(* order, through the C functions of harness_c.cpp until the client sends  *)
(* an empty line or hangs up. Clients connect, send, read and hang up as   *)
(* they like: one that is silent keeps the daemon waiting in read, one     *)
(* that does not read its answers in write. A signal only sets a flag: the *)
(* calls that wait (accept, read, write) are resumed after it.             *)
(***************************************************************************)
EXTENDS Firewall, Sequences, FiniteSets

CONSTANTS
  Client,     \* connections, each made once
  Line,       \* bound: the lines they send
  MaxLines,   \* bound: lines of one client
  Backlog,    \* connections that wait for accept
  Room,       \* answers that fit a connection, written and not read
  IntMax,     \* the largest int
  NoClient    \* not a client

ASSUME DaemonConstants ==
  NoClient \notin Client /\ {MaxLines, Backlog, IntMax} \subseteq Nat /\ Room \in Nat \ {0}

VARIABLES
  phase,      \* what the loop is at
  peer,       \* the client it serves
  backlog,    \* connections not accepted yet
  end,        \* the client's end of each connection
  wire,       \* lines sent and not read
  sent,       \* number of lines sent
  unread,     \* number of answers that a client was written and has not read
  answer,     \* the last answer to each client, from its making
  held,       \* worktrees in the registry of the manager
  stopping,   \* g_stop
  late        \* history: clients accepted and lines served since the signal

daemonVars == <<phase, peer, backlog, end, wire, sent, unread, answer, held, stopping, late>>

Phases == {"starting", "failed", "accepting", "authing", "serving", "answering", "stopped"}
AtSocket == phase \in {"accepting", "authing", "serving", "answering"}
Ends == {"away", "open", "hungUp", "closed"}
NoAnswer == [code |-> "none"]

DaemonInit ==
  /\ phase = "starting" /\ peer = NoClient
  /\ backlog = <<>>
  /\ end = [c \in Client |-> "away"]
  /\ wire = [c \in Client |-> <<>>]
  /\ sent = [c \in Client |-> 0]
  /\ unread = [c \in Client |-> 0]
  /\ answer = [c \in Client |-> NoAnswer]
  /\ held = {}
  /\ stopping = FALSE /\ late = 0

\* No token, no host, no socket: the daemon exits. Else it listens.
StartDaemon ==
  /\ phase = "starting"
  /\ phase' \in {"failed", "accepting"}
  /\ UNCHANGED <<peer, backlog, end, wire, sent, unread, answer, held, stopping, late>>

Connect(c) ==
  /\ AtSocket
  /\ end[c] = "away" /\ Len(backlog) < Backlog
  /\ end' = [end EXCEPT ![c] = "open"]
  /\ backlog' = Append(backlog, c)
  /\ UNCHANGED <<phase, peer, wire, sent, unread, answer, held, stopping, late>>

SendLine(c, line) ==
  /\ end[c] = "open" /\ sent[c] < MaxLines
  /\ wire' = [wire EXCEPT ![c] = Append(@, line)]
  /\ sent' = [sent EXCEPT ![c] = @ + 1]
  /\ UNCHANGED <<phase, peer, backlog, end, unread, answer, held, stopping, late>>

ReadAnswer(c) ==
  /\ end[c] = "open" /\ unread[c] > 0
  /\ unread' = [unread EXCEPT ![c] = @ - 1]
  /\ UNCHANGED <<phase, peer, backlog, end, wire, sent, answer, held, stopping, late>>

HangUp(c) ==
  /\ end[c] = "open"
  /\ end' = [end EXCEPT ![c] = "hungUp"]
  /\ UNCHANGED <<phase, peer, backlog, wire, sent, unread, answer, held, stopping, late>>

Signal ==
  /\ AtSocket /\ ~stopping
  /\ stopping' = TRUE
  /\ UNCHANGED <<phase, peer, backlog, end, wire, sent, unread, answer, held, late>>

-----------------------------------------------------------------------------
(***************************************************************************)
(* The handlers. A line is a record of the fields that it has; jfield and  *)
(* jnum give an absent one its default.                                    *)
(***************************************************************************)
Field(line, key, default) == IF key \in DOMAIN line THEN line[key] ELSE default
Op(line) == Field(line, "op", "")

(***************************************************************************)
(* jnum gives a long; that of day_used, with the estimate added to it,     *)
(* stays one. The cast to int takes the others modulo the width of an int. *)
(***************************************************************************)
ASSUME LineNumbers ==
  \A line \in Line :
    /\ \A key \in {"breadth", "parent_depth"} : Field(line, key, 0) \in Int
    /\ Field(line, "day_used", 0) \in (-LongMax) .. (LongMax - TreeBudget)

AsInt(n) == ((n + IntMax + 1) % (2 * (IntMax + 1))) - (IntMax + 1)
Breadth(line) == AsInt(Field(line, "breadth", 1))
ParentDepth(line) == AsInt(Field(line, "parent_depth", 0))

\* The estimate counts levels in an int: after the largest depth that is
\* undefined, and wraps, so that no level is counted, or does not.
DepthCounted(depth) == IF depth = IntMax THEN {depth, -1} ELSE {depth}

CheckSplitOps(line) ==
  {CheckSplit(depth, Breadth(line),
              AsInt(Field(line, "resplit_count", 0)),
              AsInt(Field(line, "parent_atomic", 0)) # 0,
              AsInt(Field(line, "parent_split", 0)) # 0,
              Cardinality(Field(line, "models_raw", {})), Field(line, "day_used", 0)) :
     depth \in DepthCounted(ParentDepth(line))}

\* harness_jev_route raises what is too small, and asks for a pair of models.
JevRouteOps(line) ==
  LET breadth == IF Breadth(line) < 1 THEN 1 ELSE Breadth(line)
      depths  == IF ParentDepth(line) < 0 THEN {0} ELSE DepthCounted(ParentDepth(line))
  IN  {CheckSplit(depth, breadth, 0, FALSE, FALSE, 2, Field(line, "day_used", 0)) :
         depth \in depths}

\* harness_report: no function of the host enqueues a task in its arena.
ReportOp(line) ==
  IF Field(line, "checkArtifact", "exit=0") = "" THEN "VerifyFail" ELSE "SplitOnce"

BusPostOps(line) ==
  IF Field(line, "value", "") = "large" THEN {"BusValueTooLarge"}
  ELSE {"Ok", "WorktreeLocked"}

\* A child may end in any way before its time is up, or be killed then.
SandboxOps == {"exit 0", "exit 1", "exit 124", "exit 127", "exit 128"}

\* The manager knows a task by its team and its id. Without a base branch it
\* is asked for "", that git does not resolve.
TaskOf(line) == <<Field(line, "team", ""), Field(line, "task_id", "")>>

AcquireOps(line) ==
  IF TaskOf(line) \in held THEN {"WorktreeLocked"}
  ELSE {"WorktreeMainDirty", "WorktreeGitignoreMissing", "WorktreePathExists",
        "WorktreeBranchCheckedOut", "WorktreeStaleBase"}
       \cup IF Field(line, "base_branch", "") = "" THEN {} ELSE {"WorktreeLocked", "Ok"}

ReleaseOp(line) ==
  IF TaskOf(line) \in held THEN "Ok" ELSE "WorktreeLocked"

\* dispatch: what a line may be answered. A handler that throws has failed.
Throwing == {"sandbox_exec", "worktree_acquire", "worktree_release"}
Dispatch(line) ==
  (CASE Op(line) = "ping"             -> {"pong"}
     [] Op(line) = "backend_label"    -> {"libgit2-native", "shell-git"}
     [] Op(line) = "jev_status"       -> {"ts-sidecar-only"}
     [] Op(line) = "check_split"      -> CheckSplitOps(line)
     [] Op(line) = "jev_route"        -> JevRouteOps(line)
     [] Op(line) = "report"           -> {ReportOp(line)}
     [] Op(line) = "bus_post"         -> BusPostOps(line)
     [] Op(line) = "sandbox_exec"     -> SandboxOps
     [] Op(line) = "worktree_acquire" -> AcquireOps(line)
     [] Op(line) = "worktree_release" -> {ReleaseOp(line)}
     [] OTHER                         -> {"unknown op"})
  \cup IF Op(line) \in Throwing THEN {"handler failed"} ELSE {}

HeldAfter(line, code) ==
  IF code # "Ok" THEN held
  ELSE CASE Op(line) = "worktree_acquire" -> held \cup {TaskOf(line)}
         [] Op(line) = "worktree_release" -> held \ {TaskOf(line)}
         [] OTHER -> held

-----------------------------------------------------------------------------
NextClient_ever == "accepting"

\* The flag is looked at before the loop waits for the next client.
NextClient == IF stopping THEN "stopped" ELSE "accepting"
Late(n) == IF stopping THEN late + n ELSE late

Accept ==
  /\ phase = "accepting" /\ backlog # <<>>
  /\ phase' = "authing" /\ peer' = Head(backlog) /\ backlog' = Tail(backlog)
  /\ late' = Late(1)
  /\ UNCHANGED <<end, wire, sent, unread, answer, held, stopping>>

\* accept gives an error of its own (a connection that is gone, no memory).
AcceptFails ==
  /\ phase = "accepting"
  /\ phase' = NextClient
  /\ UNCHANGED <<peer, backlog, end, wire, sent, unread, answer, held, stopping, late>>

Readable_lineOnly == wire[peer] # <<>>

\* readLine has a line, or the empty one of a client that hung up.
Readable == wire[peer] # <<>> \/ end[peer] = "hungUp"
LineRead == IF wire[peer] = <<>> THEN <<>> ELSE Head(wire[peer])
LinesLeft == IF wire[peer] = <<>> THEN <<>> ELSE Tail(wire[peer])

Close ==
  /\ end' = [end EXCEPT ![peer] = "closed"]
  /\ phase' = NextClient /\ peer' = NoClient

Reply(code) ==
  /\ wire' = [wire EXCEPT ![peer] = LinesLeft]
  /\ answer' = [answer EXCEPT ![peer] = [code |-> code, line |-> LineRead]]

\* The first line has the token; a wrong one is answered and turned away. The
\* first answer always fits the connection.
RefuseToken ==
  /\ phase = "authing" /\ Readable
  /\ Field(LineRead, "token", "") # "token"
  /\ Reply("bad token") /\ Close
  /\ UNCHANGED <<backlog, sent, unread, held, stopping, late>>

AcceptToken ==
  /\ phase = "authing" /\ Readable
  /\ Field(LineRead, "token", "") = "token"
  /\ Reply("auth ok") /\ unread' = [unread EXCEPT ![peer] = 1]
  /\ IF stopping THEN Close ELSE phase' = "serving" /\ UNCHANGED <<peer, end>>
  /\ UNCHANGED <<backlog, sent, held, stopping, late>>

\* An empty line ends the connection, as the end of the stream does.
EndConnection ==
  /\ phase = "serving" /\ Readable /\ LineRead = <<>>
  /\ Close
  /\ wire' = [wire EXCEPT ![peer] = LinesLeft]
  /\ UNCHANGED <<backlog, sent, unread, answer, held, stopping, late>>

\* A line that is read while the flag is set is served all the same.
ServeLine ==
  /\ phase = "serving" /\ Readable /\ LineRead # <<>>
  /\ \E code \in Dispatch(LineRead) :
       Reply(code) /\ held' = HeldAfter(LineRead, code)
  /\ phase' = "answering"
  /\ late' = Late(1)
  /\ UNCHANGED <<peer, backlog, end, sent, unread, stopping>>

\* sendAll waits for room. The answer to a client that hung up cannot be sent,
\* which closes too.
SendAnswer ==
  /\ phase = "answering" /\ (end[peer] = "open" => unread[peer] < Room)
  /\ unread' = IF end[peer] = "open" THEN [unread EXCEPT ![peer] = @ + 1] ELSE unread
  /\ IF stopping \/ end[peer] = "hungUp"
       THEN Close ELSE phase' = "serving" /\ UNCHANGED <<peer, end>>
  /\ UNCHANGED <<backlog, wire, sent, answer, held, stopping, late>>

ServerStep == Accept \/ RefuseToken \/ AcceptToken \/ EndConnection \/ ServeLine \/ SendAnswer

DaemonNext ==
  \/ StartDaemon \/ Signal \/ AcceptFails
  \/ \E c \in Client :
       \/ Connect(c) \/ ReadAnswer(c) \/ HangUp(c)
       \/ \E line \in Line \cup {<<>>} : SendLine(c, line)
  \/ ServerStep

DaemonFairness == WF_daemonVars(ServerStep)
DaemonSpec == DaemonInit /\ [][DaemonNext]_daemonVars /\ DaemonFairness

-----------------------------------------------------------------------------
(***************************************************************************)
(* The signal is noticed between two waits only (harnessd.cpp:242-262): of *)
(* all the clients in the backlog and the lines they have sent, the daemon *)
(* takes one more, a client or a line, and no second one.                  *)
(***************************************************************************)
StopTakesOneMore == late <= 1

(***************************************************************************)
(* The budget is enforced "BEFORE any Jev/LLM dispatch is allowed"         *)
(* (harness_c.h:84, harness_c.cpp:389-411): a client that is told to       *)
(* dispatch has asked, in the ints that the daemon makes of its numbers    *)
(* (harnessd.cpp:143-145), for a tree whose leaves, as paths of children,  *)
(* are no more than the budget. The largest int as a depth is excepted:    *)
(* one more is undefined (harness.hpp:378).                                *)
(***************************************************************************)
DispatchIsPaidFor ==
  \A c \in Client : \A a \in {answer[c]} :
    (/\ a # NoAnswer /\ a.code \in {"Ok", "BudgetWarn"}
     /\ Op(a.line) = "jev_route" /\ ParentDepth(a.line) # IntMax) =>
      Cardinality([1..(ParentDepth(a.line) + 1) -> 1..Breadth(a.line)]) <= TreeBudget

(***************************************************************************)
(* One client at a time (harnessd.cpp:242-262): a client that waits in the *)
(* backlog gets its turn, or the daemon stops, unless the one before it is *)
(* silent for ever, or for ever leaves answers unread for which the write  *)
(* of the next one waits (harnessd.cpp:79-87).                             *)
(***************************************************************************)
QueueMoves ==
  (\A c \in Client : /\ []<>(end[c] # "open" \/ wire[c] # <<>>)
                     /\ []<>(end[c] # "open" \/ unread[c] < Room)) =>
    \A c \in Client :
      (\E i \in DOMAIN backlog : backlog[i] = c)
        ~> (phase = "stopped" \/ ~\E i \in DOMAIN backlog : backlog[i] = c)
=============================================================================
