------------------------------- MODULE Mailbox -------------------------------
(***************************************************************************)
(* One durable mailbox of an AgentTeams team (plugin/src/state.ts) and the *)
(* three ways its mail reaches the recipient: send_message delivers it     *)
(* live, the scheduler hands unread mail to an idle member as a fallback,  *)
(* and agent_teams_status shows it to a recipient that polls.              *)
(*                                                                         *)
(* Each of them reads, delivers and settles in separate steps; only the    *)
(* changes of the file are made under the team lock.                       *)
(***************************************************************************)
EXTENDS Naturals, FiniteSets

CONSTANTS
  MaxMessages,  \* bound: messages appended to the mailbox
  MaxRestarts,  \* bound: restarts of the process
  CaptainShown, \* how many messages a status poll shows to the captain (10)
  Poll          \* status calls of the recipient that can be in flight

ASSUME MailboxAssumption ==
  MaxMessages \in Nat /\ MaxRestarts \in Nat /\ CaptainShown \in Nat

VARIABLES
  recipient, \* whose mailbox this is, "member" or "captain"
  sent,      \* the file: messages appended so far; the n-th is called n
  read,      \* the file: messages with readAt
  lease,     \* the file: deliveryClaimedAt, "fresh" for a minute
  sends,     \* where the send_message call of each message is
  kick,      \* the fallback delivery of the (serialized) kickMember
  polls,     \* where each status call of the recipient is
  restarts,  \* restarts so far
  live,      \* auxiliary: how often a message started or joined a turn
  lapsed     \* auxiliary: messages whose lease has ever run out

file == <<sent, read, lease>>
aux  == <<live, lapsed>>
vars == <<recipient, file, sends, kick, polls, restarts, aux>>

-----------------------------------------------------------------------------
Message == 1 .. MaxMessages

\* A send_message call: the message is appended with a lease, the recipient's
\* inbox takes it or not, and a second locked section settles the lease.
SendPhase == {"unsent", "appended", "accepted", "refused", "done"}

KickPhase == {"none", "read", "claimed", "accepted", "refused"}
NoKick    == [phase |-> "none", ids |-> {}]

PollPhase == {"none", "read", "reread"}
NoPoll    == [phase |-> "none", latest |-> {}, ids |-> {}]

\* readUnreadMailbox
Unread ==
  {m \in 1 .. sent : m \notin read /\ lease[m] # "fresh"}

\* Array.prototype.slice(-n), and the last element for n = 1
LastOf(S, n) == {m \in S : Cardinality({k \in S : k > m}) < n}

Acknowledge_leaseOnly(ids) ==
  /\ lease' = [m \in Message |-> IF m \in ids THEN "none" ELSE lease[m]]
  /\ UNCHANGED read

\* acknowledgeMailbox
Acknowledge(ids) ==
  /\ read' = read \cup ids
  /\ lease' = [m \in Message |-> IF m \in ids THEN "none" ELSE lease[m]]

Release_keepsLease(ids) == UNCHANGED <<lease, read>>

\* releaseMailboxDelivery: whoever holds the lease
Release(ids) ==
  /\ lease' = [m \in Message |-> IF m \in ids THEN "none" ELSE lease[m]]
  /\ UNCHANGED read

\* claimMailboxDelivery: no look at what happened since the mail was read
Claim(ids) ==
  /\ lease' = [m \in Message |-> IF m \in ids THEN "fresh" ELSE lease[m]]
  /\ UNCHANGED read

\* The recipient's inbox takes messages as a turn, or at a step of one.
GoLive(ids) ==
  /\ live' = [m \in Message |-> live[m] + IF m \in ids THEN 1 ELSE 0]
  /\ UNCHANGED lapsed

-----------------------------------------------------------------------------
Init ==
  /\ recipient \in {"member", "captain"}
  /\ sent = 0
  /\ read = {}
  /\ lease = [m \in Message |-> "none"]
  /\ sends = [m \in Message |-> "unsent"]
  /\ kick = NoKick
  /\ polls = [p \in Poll |-> NoPoll]
  /\ restarts = 0
  /\ live = [m \in Message |-> 0]
  /\ lapsed = {}

-----------------------------------------------------------------------------
(* agent_teams_send_message                                                *)

AppendMailbox_noLease(m) == lease' = lease

\* The message is appended with its lease taken.
AppendMailbox(m) == lease' = [lease EXCEPT ![m] = "fresh"]

Send ==
  /\ sent < MaxMessages
  /\ sent' = sent + 1
  /\ AppendMailbox(sent + 1)
  /\ sends' = [sends EXCEPT ![sent + 1] = "appended"]
  /\ UNCHANGED <<recipient, read, kick, polls, restarts, aux>>

\* deliverToMember or steerCaptainReport returned true.
SendAccepted(m) ==
  /\ sends[m] = "appended"
  /\ sends' = [sends EXCEPT ![m] = "accepted"]
  /\ GoLive({m})
  /\ UNCHANGED <<recipient, file, kick, polls, restarts>>

\* It returned false, or there was no live captain to deliver to or from.
SendRefused(m) ==
  /\ sends[m] = "appended"
  /\ sends' = [sends EXCEPT ![m] = "refused"]
  /\ UNCHANGED <<recipient, file, kick, polls, restarts, aux>>

\* The second locked section.
SendSettles(m) ==
  /\ \/ sends[m] = "accepted" /\ Acknowledge({m})
     \/ sends[m] = "refused" /\ Release({m})
  /\ sends' = [sends EXCEPT ![m] = "done"]
  /\ UNCHANGED <<recipient, sent, kick, polls, restarts, aux>>

-----------------------------------------------------------------------------
(* kickMember, when the member is available: the fallback                  *)

KickReads ==
  /\ recipient = "member"
  /\ kick = NoKick
  /\ Unread # {}
  /\ kick' = [phase |-> "read", ids |-> Unread]
  /\ UNCHANGED <<recipient, file, sends, polls, restarts, aux>>

KickClaims ==
  /\ kick.phase = "read"
  /\ Claim(kick.ids)
  /\ kick' = [kick EXCEPT !.phase = "claimed"]
  /\ UNCHANGED <<recipient, sent, sends, polls, restarts, aux>>

KickAccepted ==
  /\ kick.phase = "claimed"
  /\ kick' = [kick EXCEPT !.phase = "accepted"]
  /\ GoLive(kick.ids)
  /\ UNCHANGED <<recipient, file, sends, polls, restarts>>

KickRefused ==
  /\ kick.phase = "claimed"
  /\ kick' = [kick EXCEPT !.phase = "refused"]
  /\ UNCHANGED <<recipient, file, sends, polls, restarts, aux>>

KickSettles ==
  /\ \/ kick.phase = "accepted" /\ Acknowledge(kick.ids)
     \/ kick.phase = "refused" /\ Release(kick.ids)
  /\ kick' = NoKick
  /\ UNCHANGED <<recipient, sent, sends, polls, restarts, aux>>

-----------------------------------------------------------------------------
(* agent_teams_status called by the recipient                              *)

\* The captain is shown the last messages of its inbox, and acknowledges all
\* it read; a member is shown how many there are and the latest of them ...
PollReads(p) ==
  /\ polls[p] = NoPoll
  /\ polls' = [polls EXCEPT ![p] =
       [phase |-> "read",
        latest |-> LastOf(Unread, IF recipient = "captain" THEN CaptainShown
                                                           ELSE 1),
        ids |-> IF recipient = "captain" THEN Unread ELSE {}]]
  /\ UNCHANGED <<recipient, file, sends, kick, restarts, aux>>

\* ... and acknowledges what it reads in a second look.
PollRereads(p) ==
  /\ recipient = "member" /\ polls[p].phase = "read"
  /\ polls' = [polls EXCEPT ![p].phase = "reread", ![p].ids = Unread]
  /\ UNCHANGED <<recipient, file, sends, kick, restarts, aux>>

PollReturns(p) ==
  /\ polls[p].phase = IF recipient = "captain" THEN "read" ELSE "reread"
  /\ Acknowledge(polls[p].ids)
  /\ polls' = [polls EXCEPT ![p] = NoPoll]
  /\ UNCHANGED <<recipient, sent, sends, kick, restarts, aux>>

-----------------------------------------------------------------------------
(* The clock and the process                                               *)

\* A minute has passed since the lease was taken, in flight or not.
LeaseLapses(m) ==
  /\ lease[m] = "fresh" /\ m \notin read
  /\ lease' = [lease EXCEPT ![m] = "expired"]
  /\ lapsed' = lapsed \cup {m}
  /\ UNCHANGED <<recipient, sent, read, sends, kick, polls, restarts, live>>

\* The calls in flight are gone, the file stays.
Restart ==
  /\ restarts < MaxRestarts
  /\ restarts' = restarts + 1
  /\ sends' = [m \in Message |-> IF m <= sent THEN "done" ELSE "unsent"]
  /\ kick' = NoKick
  /\ polls' = [p \in Poll |-> NoPoll]
  /\ UNCHANGED <<recipient, file, aux>>

-----------------------------------------------------------------------------
SendStep(m) == SendAccepted(m) \/ SendRefused(m) \/ SendSettles(m)

KickStep == KickReads \/ KickClaims \/ KickAccepted \/ KickRefused
              \/ KickSettles

PollStep(p) == PollReads(p) \/ PollRereads(p) \/ PollReturns(p)

Next ==
  \/ Send
  \/ \E m \in Message : SendStep(m) \/ LeaseLapses(m)
  \/ KickStep
  \/ \E p \in Poll : PollStep(p)
  \/ Restart

Spec == Init /\ [][Next]_vars

\* A call that was started goes on; a member reaches boundaries at which it
\* is kicked, and a captain polls, again and again (README: mail that cannot
\* be delivered live is "retried at a later status boundary"); the member's
\* inbox does not refuse for ever; and time passes.
Fairness ==
  /\ \A m \in Message : WF_vars(SendStep(m)) /\ WF_vars(LeaseLapses(m))
  /\ WF_vars(KickStep) /\ SF_vars(KickAccepted)
  /\ \A p \in Poll :
       /\ WF_vars(PollRereads(p) \/ PollReturns(p))
       /\ WF_vars(recipient = "captain" /\ PollReads(p))

FairSpec == Spec /\ Fairness

-----------------------------------------------------------------------------
(* Properties                                                              *)

\* Every variable has its type.
TypeOK ==
  /\ recipient \in {"member", "captain"}
  /\ sent \in 0 .. MaxMessages
  /\ read \subseteq Message
  /\ lease \in [Message -> {"none", "fresh", "expired"}]
  /\ sends \in [Message -> SendPhase]
  /\ kick \in [phase : KickPhase, ids : SUBSET Message]
  /\ polls \in [Poll -> [phase : PollPhase, latest : SUBSET Message,
                         ids : SUBSET Message]]
  /\ restarts \in 0 .. MaxRestarts
  /\ live \in [Message -> Nat]
  /\ lapsed \subseteq Message

\* Fallback and direct delivery do not race (types.ts on the lease): a
\* message starts a turn twice only if its lease has run out, whoever
\* delivers, refuses, polls or restarts in whatever order.
TwiceOnlyAfterLapse ==
  \A m \in Message \ lapsed : live[m] <= 1

\* What keeps it so, for a message whose lease never ran out: while its sender
\* carries it nobody else can have read it as unread, a fallback carries only
\* mail that was never live, and a message that was live is read or leased.
OneCarrier(m) ==
  /\ lease[m] # "expired"
  /\ sends[m] \in {"appended", "accepted", "refused"} =>
       /\ lease[m] = "fresh" /\ m \notin kick.ids
       /\ \A p \in Poll : m \notin polls[p].ids
  /\ sends[m] \in {"unsent", "appended", "refused"} => live[m] = 0
  /\ m \in kick.ids /\ kick.phase # "accepted" => live[m] = 0
  /\ m \in kick.ids /\ kick.phase \in {"claimed", "accepted"} =>
       lease[m] = "fresh" \/ m \in read
  /\ live[m] > 0 => lease[m] = "fresh" \/ m \in read
  /\ live[m] <= 1

\* Nothing is said of a message before it is sent, an idle kick carries
\* nothing, and what was accepted was live.
InOrder ==
  /\ \A m \in Message : (sends[m] = "unsent" <=> m > sent)
                          /\ (sends[m] = "accepted" => live[m] > 0)
  /\ \A m \in Message : lease[m] # "none" => m <= sent
  /\ read \cup kick.ids \subseteq 1 .. sent
  /\ \A p \in Poll : polls[p].ids \subseteq 1 .. sent
  /\ kick.phase = "none" => kick.ids = {}
  /\ kick.phase = "accepted" => \A m \in kick.ids : live[m] > 0

Inductive ==
  /\ TypeOK /\ InOrder
  /\ \A m \in Message \ lapsed : OneCarrier(m)

\* A message is marked read only if the recipient's inbox took it or the
\* recipient's own poll acknowledged it; a refused delivery loses nothing.
ReadWasHandedOver ==
  [][\A m \in read' \ read :
       live[m] > 0 \/ \E p \in Poll : PollReturns(p) /\ m \in polls[p].ids]_vars

\* Unread mail is hidden from the fallback and from polls only while somebody
\* is carrying it (or was, before a restart).
HiddenMailIsCarried ==
  \A m \in 1 .. sent \ read :
    lease[m] = "fresh" =>
      \/ sends[m] \in {"appended", "accepted", "refused"}
      \/ m \in kick.ids /\ kick.phase # "read"
      \/ restarts > 0

\* Mail that was sent is read in the end.
MailArrives ==
  \A m \in Message : sent >= m ~> m \in read

\* Leases, settlements, fallbacks, polls and restarts (state.ts) amount to a
\* mailbox that keeps what was posted, hands nothing over twice unless it is
\* overdue, and marks nothing read on its own, although the file records no
\* hand-over and only the lease stands in for it.
Asked == UNION {polls[p].ids : p \in Poll}

Deliver == INSTANCE Delivery
  WITH Letter <- Message, posted <- 1 .. sent, handed <- live,
       overdue <- lapsed, asked <- Asked, opened <- read

ImplementsDelivery == Deliver!DeliverySpec

\* types.ts, readAt: "Set once the recipient has consumed or been shown the
\* durable fallback".
ReadWasSeen ==
  [][\A m \in read' \ read :
       \/ live[m] > 0
       \/ \E p \in Poll : PollReturns(p) /\ m \in polls[p].latest]_vars
=============================================================================
