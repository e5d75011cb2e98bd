---------------------------- MODULE BrainHistory -----------------------------
(***************************************************************************)
(* The history of dsh-lite-cpp's brain (brain.cpp, compaction.cpp): every  *)
(* turn appends the user's message, compacts what has grown too long, and  *)
(* posts the whole to a model, whose answer is appended. A message is its  *)
(* role and its size; a marker, which stands for dropped messages, also    *)
(* says for how many.                                                      *)
(***************************************************************************)
EXTENDS Naturals, Sequences, FiniteSets, FiniteSetsExt

CONSTANTS
  Threshold,     \* thresholdChars
  HeadAndTail,   \* headChars + tailChars
  CutMark,       \* size of the text that stands for what a cut removed
  SanitizeCap,   \* size at which the sanitizer cuts a message
  MarkerReserve, \* kMarkerReserve
  MarkerSize,    \* size of a marker, no more than what is reserved for it
  Frame,         \* size of role and framing of a message
  Size,          \* bound: sizes of a message
  MaxBegun       \* bound: turns

ASSUME HistoryConstants ==
  /\ {Threshold, HeadAndTail, CutMark, SanitizeCap, MarkerReserve, Frame, MaxBegun} \subseteq Nat
  /\ MarkerSize \in Nat /\ MarkerSize + Frame <= MarkerReserve
  /\ Size \subseteq Nat

VARIABLES
  history,  \* history_
  turn,     \* "idle", or "posting" while the model is asked
  begun     \* turns begun

historyVars == <<history, turn, begun>>

Message(role, size) == [role |-> role, size |-> size, stands |-> 0]
Marker(dropped) == [role |-> "user", size |-> MarkerSize, stands |-> dropped]

SerializedChars(h) ==
  LET total[n \in 0..Len(h)] == IF n = 0 THEN 0 ELSE total[n - 1] + h[n].size + Frame
  IN  total[Len(h)]

(***************************************************************************)
(* compactHistory. The system message at the front, the last message and   *)
(* the last one of a user are never touched.                               *)
(***************************************************************************)
LastUser(h) == {i \in DOMAIN h : h[i].role = "user" /\ \A j \in (i + 1)..Len(h) : h[j].role # "user"}
Protected(h) == {i \in DOMAIN h : i = 1 /\ h[1].role = "system"} \cup {Len(h)} \cup LastUser(h)

\* First every message that may be touched is sanitized, and cut to its ends.
Sanitized(size) == IF size < SanitizeCap THEN size ELSE SanitizeCap
CutTo(size) == IF size > HeadAndTail /\ HeadAndTail > 0 THEN HeadAndTail + CutMark ELSE size
Truncated(h) ==
  [i \in DOMAIN h |-> IF i \in Protected(h) THEN h[i] ELSE [h[i] EXCEPT !.size = CutTo(Sanitized(@))]]

Target_noReserve == Threshold

\* Then the oldest are dropped, until there is room for the marker.
Target == Threshold - (IF MarkerReserve < Threshold \div 2 THEN MarkerReserve ELSE Threshold \div 2)
Prunable(h) == DOMAIN h \ Protected(h)

\* The messages of h but those of "gone", and "mark" where the first one was.
Replaced(h, gone, mark) ==
  LET kept[n \in 0..Len(h)] ==
        IF n = 0 THEN <<>>
        ELSE kept[n - 1] \o (IF n \notin gone THEN <<h[n]>>
                             ELSE IF n = Min(gone) THEN mark ELSE <<>>)
  IN  kept[Len(h)]

UpTo(h, k) == {i \in Prunable(h) : i <= k}
Dropped(h) ==
  LET enough == {k \in Prunable(h) : SerializedChars(Replaced(h, UpTo(h, k), <<>>)) <= Target}
  IN  UpTo(h, IF enough = {} THEN Len(h) ELSE Min(enough))

Pruned(h) == Replaced(h, Dropped(h), <<Marker(Cardinality(Dropped(h)))>>)

TooLong(h) == SerializedChars(h) > Threshold
CompactHistory(h) ==
  IF h = <<>> \/ ~TooLong(h) THEN h
  ELSE IF ~TooLong(Truncated(h)) THEN Truncated(h)
  ELSE Pruned(Truncated(h))

-----------------------------------------------------------------------------
HistoryInit == history = <<>> /\ turn = "idle" /\ begun = 0

\* setSystemPrompt replaces the first system message, or puts one in front.
SetSystemPrompt(size) ==
  /\ turn = "idle"
  /\ LET old == {i \in DOMAIN history : history[i].role = "system"}
     IN  history' = IF old = {} THEN <<Message("system", size)>> \o history
                    ELSE [history EXCEPT ![Min(old)].size = size]
  /\ UNCHANGED <<turn, begun>>

\* turn, up to the post: the input is appended first, so that it is protected.
BeginTurn(size) ==
  /\ turn = "idle" /\ begun < MaxBegun
  /\ begun' = begun + 1
  /\ turn' = "posting"
  /\ history' = CompactHistory(Append(history, Message("user", size)))

\* The answer of the model, or an exception of the post, which leaves the
\* user's message without one.
EndTurn(size) ==
  /\ turn = "posting"
  /\ turn' = "idle"
  /\ history' = Append(history, Message("assistant", size))
  /\ UNCHANGED begun

TurnThrows ==
  /\ turn = "posting"
  /\ turn' = "idle"
  /\ UNCHANGED <<history, begun>>

HistoryNext ==
  \/ \E size \in Size : SetSystemPrompt(size) \/ BeginTurn(size) \/ EndTurn(size)
  \/ TurnThrows

HistorySpec == HistoryInit /\ [][HistoryNext]_historyVars

(***************************************************************************)
(* Properties.                                                             *)
(***************************************************************************)

(***************************************************************************)
(* compaction.cpp:97-137: what is posted ends with the user's input and    *)
(* fits the budget with its marker, or has nothing left that may be        *)
(* dropped but that marker.                                                *)
(***************************************************************************)
PostedFits ==
  turn = "posting" =>
    /\ history[Len(history)].role = "user" /\ history[Len(history)].stands = 0
    /\ TooLong(history) => \A i \in DOMAIN history \ Protected(history) : history[i].stands > 0
=============================================================================
