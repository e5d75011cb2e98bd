-------------------------- MODULE PluginFiles_proofs --------------------------
(***************************************************************************)
(* Proofs about the files of the AgentTeams plugin.                        *)
(* Mailbox: mail is not delivered twice while its lease lasts, never marked*)
(* read without having been handed over, and never hidden without a        *)
(* carrier, for any number of messages and polls.                          *)
(* TeamFiles: a captain leads one team, an archived team stays on disk and *)
(* its members stay retired, for any number of sessions, names, calls and  *)
(* failures.                                                               *)
(***************************************************************************)
EXTENDS Mailbox, TeamFiles, TLAPS

-----------------------------------------------------------------------------
(* Mailbox.                                                                *)

\* The three changes of the mailbox file keep its type.
LEMMA FileTyped ==
  ASSUME TypeOK, NEW ids \in SUBSET Message,
         Acknowledge(ids) \/ Release(ids) \/ Claim(ids)
  PROVE  /\ read' \subseteq Message
         /\ lease' \in [Message -> {"none", "fresh", "expired"}]
         /\ \A m \in Message :
              /\ m \notin ids => lease'[m] = lease[m]
              /\ lease'[m] \in {lease[m], "none", "fresh"}
BY DEF TypeOK, Acknowledge, Release, Claim

\* A poll that looked a second time.
LEMMA RereadTyped ==
  ASSUME NEW c \in [phase: PollPhase, latest: SUBSET Message, ids: SUBSET Message],
         NEW ids \in SUBSET Message
  PROVE  [c EXCEPT !.phase = "reread", !.ids = ids]
           \in [phase: PollPhase, latest: SUBSET Message, ids: SUBSET Message]
  BY DEF PollPhase

\* A message that goes live is counted.
LEMMA LiveTyped ==
  ASSUME TypeOK, NEW ids \in SUBSET Message, GoLive(ids)
  PROVE  /\ live' \in [Message -> Nat]
         /\ \A m \in Message : live'[m] = live[m] + IF m \in ids THEN 1 ELSE 0
BY DEF TypeOK, GoLive

\* The unread messages are messages that were sent, and not leased.
LEMMA UnreadIs ==
  ASSUME TypeOK
  PROVE  /\ Unread \in SUBSET Message
         /\ Unread \subseteq 1 .. sent
         /\ \A m \in Unread : m \notin read /\ lease[m] # "fresh"
         /\ \A n \in Nat : LastOf(Unread, n) \in SUBSET Message
BY MailboxAssumption DEF TypeOK, Unread, Message, LastOf

\* Every step keeps the types.
LEMMA StepTypeOK ==
  ASSUME TypeOK, [Next]_vars
  PROVE  TypeOK'
<1> USE MailboxAssumption DEF TypeOK
<1>1. CASE Send
  <2>1. sent + 1 \in Message
    BY <1>1 DEF Send, Message
  <2> QED BY <1>1, <2>1 DEF Send, AppendMailbox, SendPhase, aux
<1>2. CASE \E m \in Message : SendStep(m) \/ LeaseLapses(m)
  <2> PICK m \in Message : SendStep(m) \/ LeaseLapses(m)
    BY <1>2
  <2>1. CASE SendAccepted(m)
    <3>1. live' \in [Message -> Nat]
      BY <2>1, LiveTyped DEF SendAccepted
    <3> QED BY <2>1, <3>1 DEF SendAccepted, GoLive, file, SendPhase
  <2>2. CASE SendRefused(m)
    BY <2>2 DEF SendRefused, file, aux, SendPhase
  <2>3. CASE SendSettles(m)
    <3>1. /\ read' \subseteq Message
          /\ lease' \in [Message -> {"none", "fresh", "expired"}]
      BY <2>3, FileTyped DEF SendSettles
    <3> QED BY <2>3, <3>1 DEF SendSettles, aux, SendPhase
  <2>4. CASE LeaseLapses(m)
    BY <2>4 DEF LeaseLapses
  <2> QED BY <2>1, <2>2, <2>3, <2>4 DEF SendStep
<1>3. CASE KickStep
  <2>1. CASE KickReads
    BY <2>1, UnreadIs DEF KickReads, file, aux, KickPhase
  <2>2. CASE KickClaims
    <3>1. /\ read' \subseteq Message
          /\ lease' \in [Message -> {"none", "fresh", "expired"}]
      BY <2>2, FileTyped DEF KickClaims
    <3> QED BY <2>2, <3>1 DEF KickClaims, aux, KickPhase
  <2>3. CASE KickAccepted
    <3>1. live' \in [Message -> Nat]
      BY <2>3, LiveTyped DEF KickAccepted
    <3> QED BY <2>3, <3>1 DEF KickAccepted, GoLive, file, KickPhase
  <2>4. CASE KickRefused
    BY <2>4 DEF KickRefused, file, aux, KickPhase
  <2>5. CASE KickSettles
    <3>1. /\ read' \subseteq Message
          /\ lease' \in [Message -> {"none", "fresh", "expired"}]
      BY <2>5, FileTyped DEF KickSettles
    <3> QED BY <2>5, <3>1 DEF KickSettles, aux, KickPhase, NoKick
  <2> QED BY <1>3, <2>1, <2>2, <2>3, <2>4, <2>5 DEF KickStep
<1>4. CASE \E p \in Poll : PollStep(p)
  <2> PICK p \in Poll : PollStep(p)
    BY <1>4
  <2>1. CASE PollReads(p)
    <3>1. LastOf(Unread, IF recipient = "captain" THEN CaptainShown ELSE 1)
            \in SUBSET Message
      BY UnreadIs
    <3> QED BY <2>1, <3>1, UnreadIs DEF PollReads, file, aux, PollPhase
  <2>2. CASE PollRereads(p)
    <3>2. [polls[p] EXCEPT !.phase = "reread", !.ids = Unread]
            \in [phase: PollPhase, latest: SUBSET Message, ids: SUBSET Message]
      BY RereadTyped, UnreadIs
    <3>3. polls' \in [Poll -> [phase: PollPhase, latest: SUBSET Message, ids: SUBSET Message]]
      <4>1. polls' = [polls EXCEPT ![p] = [polls[p] EXCEPT !.phase = "reread", !.ids = Unread]]
        BY <2>2, Zenon DEF PollRereads
      <4> QED BY <4>1, <3>2
    <3> QED BY <2>2, <3>3 DEF PollRereads, file, aux
  <2>3. CASE PollReturns(p)
    <3>1. /\ read' \subseteq Message
          /\ lease' \in [Message -> {"none", "fresh", "expired"}]
      BY <2>3, FileTyped DEF PollReturns
    <3> QED BY <2>3, <3>1 DEF PollReturns, aux, PollPhase, NoPoll
  <2> QED BY <2>1, <2>2, <2>3 DEF PollStep
<1>5. CASE Restart
  BY <1>5 DEF Restart, file, aux, SendPhase, KickPhase, NoKick, PollPhase,
              NoPoll
<1>6. CASE UNCHANGED vars
  BY <1>6 DEF vars, file, aux
<1> QED BY <1>1, <1>2, <1>3, <1>4, <1>5, <1>6 DEF Next

\* Every step keeps the order of a message's life.
LEMMA StepInOrder ==
  ASSUME TypeOK, InOrder, [Next]_vars
  PROVE  InOrder'
<1> USE MailboxAssumption DEF TypeOK, InOrder
<1>1. CASE Send
  <2>1. sent + 1 \in Message
    BY <1>1 DEF Send, Message
  <2>2. \A m \in Message : lease'[m] # "none" => m <= sent'
    BY <1>1, <2>1 DEF Send, AppendMailbox, Message
  <2> QED BY <1>1, <2>1, <2>2 DEF Send, aux, Message
<1>2. CASE \E m \in Message : SendStep(m) \/ LeaseLapses(m)
  <2> PICK m \in Message : SendStep(m) \/ LeaseLapses(m)
    BY <1>2
  <2>1. CASE SendAccepted(m)
    BY <2>1, LiveTyped DEF SendAccepted, file
  <2>2. CASE SendRefused(m)
    BY <2>2 DEF SendRefused, file, aux
  <2>3. CASE SendSettles(m)
    BY <2>3 DEF SendSettles, aux, Acknowledge, Release, Message
  <2>4. CASE LeaseLapses(m)
    BY <2>4 DEF LeaseLapses
  <2> QED BY <2>1, <2>2, <2>3, <2>4 DEF SendStep
<1>3. CASE KickStep
  <2>1. CASE KickReads
    BY <2>1, UnreadIs DEF KickReads, file, aux
  <2>2. CASE KickClaims
    BY <2>2 DEF KickClaims, aux, Claim
  <2>3. CASE KickAccepted
    BY <2>3, LiveTyped DEF KickAccepted, file
  <2>4. CASE KickRefused
    BY <2>4 DEF KickRefused, file, aux
  <2>5. CASE KickSettles
    BY <2>5 DEF KickSettles, aux, Acknowledge, Release, NoKick
  <2> QED BY <1>3, <2>1, <2>2, <2>3, <2>4, <2>5 DEF KickStep
<1>4. CASE \E p \in Poll : PollStep(p)
  <2> PICK p \in Poll : PollStep(p)
    BY <1>4
  <2>1. CASE PollReads(p)
    BY <2>1, UnreadIs DEF PollReads, file, aux
  <2>2. CASE PollRereads(p)
    BY <2>2, UnreadIs DEF PollRereads, file, aux
  <2>3. CASE PollReturns(p)
    BY <2>3 DEF PollReturns, aux, Acknowledge, NoPoll
  <2> QED BY <2>1, <2>2, <2>3 DEF PollStep
<1>5. CASE Restart
  BY <1>5 DEF Restart, file, aux, NoKick, NoPoll, Message
<1>6. CASE UNCHANGED vars
  BY <1>6 DEF vars, file, aux
<1> QED BY <1>1, <1>2, <1>3, <1>4, <1>5, <1>6 DEF Next

\* Every step keeps a message whose lease never ran out with one carrier.
LEMMA StepOneCarrier ==
  ASSUME Inductive, [Next]_vars, NEW n \in Message \ lapsed', n \notin lapsed
  PROVE  OneCarrier(n)'
<1> USE MailboxAssumption DEF Inductive, TypeOK, InOrder, OneCarrier
<1>1. CASE Send
  BY <1>1 DEF Send, AppendMailbox, aux, Message
<1>2. CASE \E m \in Message : SendStep(m) \/ LeaseLapses(m)
  <2> PICK m \in Message : SendStep(m) \/ LeaseLapses(m)
    BY <1>2
  <2>1. CASE SendAccepted(m)
    BY <2>1, LiveTyped DEF SendAccepted, file
  <2>2. CASE SendRefused(m)
    BY <2>2 DEF SendRefused, file, aux
  <2>3. CASE SendSettles(m)
    BY <2>3 DEF SendSettles, aux, Acknowledge, Release
  <2>4. CASE LeaseLapses(m)
    BY <2>4 DEF LeaseLapses
  <2> QED BY <2>1, <2>2, <2>3, <2>4 DEF SendStep
<1>3. CASE KickStep
  <2>1. CASE KickReads
    BY <2>1, UnreadIs DEF KickReads, file, aux, NoKick
  <2>2. CASE KickClaims
    BY <2>2 DEF KickClaims, aux, Claim
  <2>3. CASE KickAccepted
    BY <2>3, LiveTyped DEF KickAccepted, file
  <2>4. CASE KickRefused
    BY <2>4 DEF KickRefused, file, aux
  <2>5. CASE KickSettles
    BY <2>5 DEF KickSettles, aux, Acknowledge, Release, NoKick
  <2> QED BY <1>3, <2>1, <2>2, <2>3, <2>4, <2>5 DEF KickStep
<1>4. CASE \E p \in Poll : PollStep(p)
  <2> PICK p \in Poll : PollStep(p)
    BY <1>4
  <2>1. CASE PollReads(p)
    BY <2>1, UnreadIs DEF PollReads, file, aux
  <2>2. CASE PollRereads(p)
    BY <2>2, UnreadIs DEF PollRereads, file, aux
  <2>3. CASE PollReturns(p)
    BY <2>3 DEF PollReturns, aux, Acknowledge, NoPoll
  <2> QED BY <2>1, <2>2, <2>3 DEF PollStep
<1>5. CASE Restart
  BY <1>5 DEF Restart, file, aux, NoKick, NoPoll, Message
<1>6. CASE UNCHANGED vars
  BY <1>6 DEF vars, file, aux
<1> QED BY <1>1, <1>2, <1>3, <1>4, <1>5, <1>6 DEF Next

\* A lease that ran out stays on record.
LEMMA LapsedGrows ==
  ASSUME [Next]_vars
  PROVE  lapsed \subseteq lapsed'
BY DEF Next, SendStep, KickStep, PollStep, Send, SendAccepted, SendRefused,
       SendSettles, LeaseLapses, KickReads, KickClaims, KickAccepted,
       KickRefused, KickSettles, PollReads, PollRereads, PollReturns,
       Restart, GoLive, vars, aux

\* The initial states satisfy the inductive invariant.
LEMMA InitInductive == Init => Inductive
BY MailboxAssumption DEF Init, Inductive, TypeOK, InOrder, OneCarrier,
     Message, SendPhase, KickPhase, PollPhase, NoKick, NoPoll

\* Every step keeps the inductive invariant.
LEMMA StepInductive ==
  ASSUME Inductive, [Next]_vars
  PROVE  Inductive'
<1>1. TypeOK' /\ InOrder'
  BY StepTypeOK, StepInOrder DEF Inductive
<1>2. ASSUME NEW n \in Message \ lapsed'
      PROVE  OneCarrier(n)'
  BY <1>2, LapsedGrows, StepOneCarrier
<1> QED BY <1>1, <1>2 DEF Inductive, Message

\* The inductive invariant of a mailbox holds in every reachable state.
THEOREM InductiveHolds == Spec => []Inductive
BY InitInductive, StepInductive, PTL DEF Spec

\* A message starts a turn twice only after its lease has run out
\* (claimMailboxDelivery, releaseMailboxDelivery, acknowledgeMailbox).
THEOREM NeverTwiceWithinTheLease == Spec => []TwiceOnlyAfterLapse
<1>1. Inductive => TwiceOnlyAfterLapse
  BY DEF Inductive, OneCarrier, TwiceOnlyAfterLapse
<1> QED BY <1>1, InductiveHolds, PTL

\* Unread mail is hidden only while somebody carries it: every step keeps
\* HiddenMailIsCarried.
LEMMA StepHidden ==
  ASSUME Inductive, HiddenMailIsCarried, [Next]_vars
  PROVE  HiddenMailIsCarried'
<1> SUFFICES ASSUME NEW n \in 1 .. sent', n \notin read', lease'[n] = "fresh",
                    restarts' = 0
             PROVE  \/ sends'[n] \in {"appended", "accepted", "refused"}
                    \/ n \in kick'.ids /\ kick'.phase # "read"
  <2>1. TypeOK'
    BY StepTypeOK DEF Inductive
  <2> QED BY <2>1, MailboxAssumption DEF HiddenMailIsCarried, TypeOK
<1> USE MailboxAssumption DEF Inductive, TypeOK, InOrder, Message,
        HiddenMailIsCarried
<1>1. CASE Send
  BY <1>1 DEF Send, AppendMailbox, aux
<1>2. CASE \E m \in Message : SendStep(m) \/ LeaseLapses(m)
  <2> PICK m \in Message : SendStep(m) \/ LeaseLapses(m)
    BY <1>2
  <2>1. CASE SendAccepted(m)
    BY <2>1 DEF SendAccepted, file
  <2>2. CASE SendRefused(m)
    BY <2>2 DEF SendRefused, file, aux
  <2>3. CASE SendSettles(m)
    BY <2>3 DEF SendSettles, aux, Acknowledge, Release
  <2>4. CASE LeaseLapses(m)
    BY <2>4 DEF LeaseLapses
  <2> QED BY <2>1, <2>2, <2>3, <2>4 DEF SendStep
<1>3. CASE KickStep
  <2>1. CASE KickReads
    BY <2>1, UnreadIs DEF KickReads, file, aux, NoKick
  <2>2. CASE KickClaims
    BY <2>2 DEF KickClaims, aux, Claim
  <2>3. CASE KickAccepted
    BY <2>3 DEF KickAccepted, file
  <2>4. CASE KickRefused
    BY <2>4 DEF KickRefused, file, aux
  <2>5. CASE KickSettles
    BY <2>5 DEF KickSettles, aux, Acknowledge, Release, NoKick
  <2> QED BY <1>3, <2>1, <2>2, <2>3, <2>4, <2>5 DEF KickStep
<1>4. CASE \E p \in Poll : PollStep(p)
  <2> PICK p \in Poll : PollStep(p)
    BY <1>4
  <2>1. CASE PollReads(p)
    BY <2>1 DEF PollReads, file, aux
  <2>2. CASE PollRereads(p)
    BY <2>2 DEF PollRereads, file, aux
  <2>3. CASE PollReturns(p)
    BY <2>3 DEF PollReturns, aux, Acknowledge
  <2> QED BY <2>1, <2>2, <2>3 DEF PollStep
<1>5. CASE Restart
  BY <1>5 DEF Restart
<1>6. CASE UNCHANGED vars
  BY <1>6 DEF vars, file, aux
<1> QED BY <1>1, <1>2, <1>3, <1>4, <1>5, <1>6 DEF Next

\* Until a restart, unread mail under a fresh lease has its sender or the
\* fallback at work on it.
THEOREM HiddenMailHasItsCarrier == Spec => []HiddenMailIsCarried
<1>1. Init => HiddenMailIsCarried
  BY DEF Init, HiddenMailIsCarried
<1> QED BY <1>1, StepHidden, InductiveHolds, PTL DEF Spec

\* Mail becomes read only by a delivery its recipient's inbox took or by the
\* recipient's own poll.
THEOREM ReadMailWasHandedOver == Spec => ReadWasHandedOver
<1>1. ASSUME Inductive, [Next]_vars
      PROVE  [\A m \in read' \ read :
                live[m] > 0 \/ \E p \in Poll :
                                 PollReturns(p) /\ m \in polls[p].ids]_vars
  <2> SUFFICES ASSUME NEW n \in read' \ read
               PROVE  live[n] > 0 \/ \E p \in Poll :
                                      PollReturns(p) /\ n \in polls[p].ids
    OBVIOUS
  <2> USE DEF Inductive, TypeOK, InOrder
  <2>1. CASE \E m \in Message : SendSettles(m)
    <3> PICK m \in Message : SendSettles(m)
      BY <2>1
    <3>1. n = m /\ sends[m] = "accepted"
      BY DEF SendSettles, Acknowledge, Release
    <3> QED BY <1>1, <3>1
  <2>2. CASE KickSettles
    <3>1. n \in kick.ids /\ kick.phase = "accepted"
      BY <2>2 DEF KickSettles, Acknowledge, Release
    <3> QED BY <1>1, <3>1
  <2>3. CASE \E p \in Poll : PollReturns(p)
    BY <2>3 DEF PollReturns, Acknowledge
  <2>4. CASE UNCHANGED read
    BY <2>4
  <2> QED BY <1>1, <2>1, <2>2, <2>3, <2>4
          DEF Next, SendStep, KickStep, PollStep, Send, SendAccepted,
              SendRefused, LeaseLapses, KickReads, KickClaims, KickAccepted,
              KickRefused, PollReads, PollRereads, Restart, Claim, vars, file
<1> QED BY <1>1, InductiveHolds, PTL DEF Spec, ReadWasHandedOver

\* The types of what the abstract mailbox is made of.
LEMMA DeliveryTyped ==
  ASSUME Inductive
  PROVE  /\ 1 .. sent \subseteq Message /\ Asked \subseteq 1 .. sent
         /\ read \subseteq 1 .. sent /\ kick.ids \subseteq 1 .. sent
         /\ live \in [Message -> Nat]
BY MailboxAssumption DEF Inductive, TypeOK, InOrder, Message, Asked

\* What a poll carries is asked for.
LEMMA PollAsks ==
  ASSUME NEW p \in Poll
  PROVE  polls[p].ids \subseteq Asked
BY DEF Asked

\* A step that changes nothing but polls: what they carry was unread.
LEMMA PollsAsk ==
  ASSUME TypeOK, UNCHANGED <<sent, read, live, lapsed>>, NEW p \in Poll, NEW call,
         call \in [phase: PollPhase, latest: SUBSET Message, ids: SUBSET Message],
         polls' = [polls EXCEPT ![p] = call],
         call.ids \subseteq Unread
  PROVE  Deliver!Ask
<1>1. \A q \in Poll \ {p} : polls'[q] = polls[q]
  BY DEF TypeOK
<1>2. polls'[p] = call
  BY DEF TypeOK
<1>3. \A m \in Asked' : m \in Asked \/ m \in Unread
  BY <1>1, <1>2 DEF Asked
<1>4. \A m \in Unread : m \in 1 .. sent /\ m \notin read
  BY UnreadIs
<1> QED BY <1>3, <1>4 DEF Deliver!Ask

\* Mail whose lease never ran out is handed over once.
LEMMA HandOverIs ==
  ASSUME Inductive, NEW ids \in SUBSET (1 .. sent), GoLive(ids),
         UNCHANGED <<sent, read, polls>>,
         \A m \in ids \ lapsed : live[m] = 0
  PROVE  Deliver!DeliveryNext
<1>1. Asked' = Asked
  BY DEF Asked
<1>2. Deliver!HandOver(ids)
  BY <1>1, MailboxAssumption DEF Deliver!HandOver, GoLive
<1> QED BY <1>2 DEF Deliver!DeliveryNext

\* Mail that was handed over or asked for is marked as read.
LEMMA MarkReadIs ==
  ASSUME Inductive, NEW ids \in SUBSET (1 .. sent), Acknowledge(ids),
         UNCHANGED <<sent, aux>>,
         \A m \in ids : live[m] > 0 \/ m \in Asked,
         Asked' \subseteq Asked
  PROVE  Deliver!DeliveryNext
<1>1. Deliver!MarkRead(ids)
  BY DEF Deliver!MarkRead, Acknowledge, aux
<1> QED BY <1>1 DEF Deliver!DeliveryNext

DeliveryStands == UNCHANGED <<1 .. sent, live, lapsed, Asked, read>>

\* Every step of the mailbox is one of the abstract mailbox, or none.
LEMMA StepDelivers ==
  ASSUME Inductive, [Next]_vars
  PROVE  Deliver!DeliveryNext \/ DeliveryStands
<1> USE MailboxAssumption
<1>1. CASE Send
  <2>1. /\ sent \in Nat /\ sent' = sent + 1 /\ sent + 1 \in Message
        /\ UNCHANGED <<live, lapsed, read, polls>>
    BY <1>1 DEF Send, aux, Inductive, TypeOK, Message
  <2>2. Asked' = Asked
    BY <2>1 DEF Asked
  <2>3. 1 .. sent' = (1 .. sent) \cup {sent + 1} /\ sent + 1 \notin 1 .. sent
    BY <2>1
  <2>4. Deliver!Post
    BY <2>1, <2>2, <2>3 DEF Deliver!Post
  <2> QED BY <2>4 DEF Deliver!DeliveryNext
<1>2. CASE \E m \in Message : SendStep(m) \/ LeaseLapses(m)
  <2> PICK m \in Message : SendStep(m) \/ LeaseLapses(m)
    BY <1>2
  <2>1. Asked' = Asked
    BY DEF SendStep, SendAccepted, SendRefused, SendSettles, LeaseLapses, Asked
  <2>2. CASE SendAccepted(m)
    <3>1. m \in 1 .. sent /\ (m \notin lapsed => live[m] = 0)
      BY <2>2 DEF SendAccepted, Inductive, TypeOK, InOrder, OneCarrier, Message
    <3>2. {m} \in SUBSET (1 .. sent) /\ \A n \in {m} \ lapsed : live[n] = 0
      BY <3>1
    <3> QED BY <2>2, <3>2, HandOverIs DEF SendAccepted, file
  <2>3. CASE SendRefused(m)
    BY <2>1, <2>3 DEF SendRefused, file, aux, DeliveryStands
  <2>4. CASE SendSettles(m) /\ sends[m] = "refused"
    BY <2>1, <2>4 DEF SendSettles, Release, aux, DeliveryStands
  <2>5. CASE SendSettles(m) /\ sends[m] = "accepted"
    <3>1. m \in 1 .. sent /\ live[m] > 0
      BY <2>5 DEF Inductive, TypeOK, InOrder, Message
    <3>2. {m} \in SUBSET (1 .. sent) /\ \A n \in {m} : live[n] > 0
      BY <3>1
    <3> QED BY <2>1, <2>5, <3>2, MarkReadIs DEF SendSettles
  <2>6. CASE LeaseLapses(m)
    <3>1. m \in (1 .. sent) \ read
      BY <2>6 DEF LeaseLapses, Inductive, TypeOK, InOrder, Message
    <3>2. Deliver!Delay
      BY <2>1, <2>6, <3>1 DEF LeaseLapses, Deliver!Delay
    <3> QED BY <3>2 DEF Deliver!DeliveryNext
  <2> QED BY <2>2, <2>3, <2>4, <2>5, <2>6 DEF SendStep, SendSettles
<1>3. CASE KickStep
  <2>1. UNCHANGED <<sent, polls>> /\ Asked' = Asked
    BY <1>3 DEF KickStep, KickReads, KickClaims, KickAccepted, KickRefused, KickSettles,
                file, Asked
  <2>2. kick.ids \in SUBSET (1 .. sent) /\ 1 .. sent \subseteq Message
    BY DeliveryTyped
  <2>3. CASE KickAccepted
    <3>1. \A n \in kick.ids \ lapsed : live[n] = 0
      BY <2>2, <2>3 DEF KickAccepted, Inductive, OneCarrier
    <3> QED BY <2>1, <2>2, <2>3, <3>1, HandOverIs DEF KickAccepted, file
  <2>4. CASE KickSettles /\ kick.phase = "accepted"
    <3>1. \A n \in kick.ids : live[n] > 0
      BY <2>4 DEF Inductive, InOrder
    <3> QED BY <2>1, <2>2, <2>4, <3>1, MarkReadIs DEF KickSettles
  <2>5. CASE KickSettles /\ kick.phase = "refused"
    BY <2>1, <2>5 DEF KickSettles, Release, aux, DeliveryStands
  <2>6. CASE KickReads \/ KickClaims \/ KickRefused
    BY <2>1, <2>6 DEF KickReads, KickClaims, KickRefused, Claim, file, aux, DeliveryStands
  <2> QED BY <1>3, <2>3, <2>4, <2>5, <2>6 DEF KickStep, KickSettles
<1>4. CASE \E p \in Poll : PollStep(p)
  <2> PICK p \in Poll : PollStep(p)
    BY <1>4
  <2>1. Unread \in SUBSET Message /\ TypeOK
    BY UnreadIs DEF Inductive
  <2>2. CASE PollReads(p)
    <3> DEFINE call ==
          [phase |-> "read",
           latest |-> LastOf(Unread, IF recipient = "captain" THEN CaptainShown ELSE 1),
           ids |-> IF recipient = "captain" THEN Unread ELSE {}]
    <3>1. LastOf(Unread, IF recipient = "captain" THEN CaptainShown ELSE 1)
            \in SUBSET Message
      BY <2>1, UnreadIs
    <3>2. /\ call \in [phase: PollPhase, latest: SUBSET Message, ids: SUBSET Message]
          /\ call.ids \subseteq Unread
      BY <2>1, <3>1 DEF PollPhase
    <3>3. polls' = [polls EXCEPT ![p] = call] /\ UNCHANGED <<sent, read, live, lapsed>>
      BY <2>2 DEF PollReads, file, aux
    <3> HIDE DEF call
    <3>4. Deliver!Ask
      BY <2>1, <3>2, <3>3, PollsAsk
    <3> QED BY <3>4 DEF Deliver!DeliveryNext
  <2>3. CASE PollRereads(p)
    <3> DEFINE call == [polls[p] EXCEPT !.phase = "reread", !.ids = Unread]
    <3>1. polls[p] \in [phase: PollPhase, latest: SUBSET Message, ids: SUBSET Message]
      BY <2>1 DEF TypeOK
    <3>2. call \in [phase: PollPhase, latest: SUBSET Message, ids: SUBSET Message]
      BY <2>1, <3>1, RereadTyped
    <3>3. call.ids \subseteq Unread
      BY <3>1
    <3>4. polls' = [polls EXCEPT ![p] = call]
      BY <2>3, Zenon DEF PollRereads
    <3>5. UNCHANGED <<sent, read, live, lapsed>>
      BY <2>3 DEF PollRereads, file, aux
    <3> HIDE DEF call
    <3>6. Deliver!Ask
      BY <2>1, <3>2, <3>3, <3>4, <3>5, PollsAsk
    <3> QED BY <3>6 DEF Deliver!DeliveryNext
  <2>4. CASE PollReturns(p)
    <3>1. polls[p].ids \subseteq Asked /\ Asked \subseteq 1 .. sent
      BY PollAsks, DeliveryTyped
    <3>2. polls' = [polls EXCEPT ![p] = NoPoll] /\ NoPoll.ids = {}
      BY <2>4 DEF PollReturns, NoPoll
    <3>3. Asked' \subseteq Asked
      BY <2>1, <3>2 DEF Asked, TypeOK
    <3>4. Acknowledge(polls[p].ids) /\ UNCHANGED <<sent, aux>>
      BY <2>4 DEF PollReturns
    <3> QED BY <3>1, <3>3, <3>4, MarkReadIs
  <2> QED BY <2>2, <2>3, <2>4 DEF PollStep
<1>5. CASE Restart
  <2>1. UNCHANGED <<sent, read, live, lapsed>> /\ polls' = [p \in Poll |-> NoPoll]
    BY <1>5 DEF Restart, file, aux
  <2>2. Asked' \subseteq {}
    BY <2>1 DEF Asked, NoPoll
  <2>3. Deliver!Ask
    BY <2>1, <2>2 DEF Deliver!Ask
  <2> QED BY <2>3 DEF Deliver!DeliveryNext
<1>6. CASE UNCHANGED vars
  BY <1>6 DEF vars, file, aux, DeliveryStands, Asked
<1> QED BY <1>1, <1>2, <1>3, <1>4, <1>5, <1>6 DEF Next

\* The mailbox implements Delivery (state.ts, appendMailbox to
\* releaseMailboxDelivery), for any number of messages, polls and restarts.
THEOREM MailboxImplementsDelivery == Spec => ImplementsDelivery
<1>1. Init => Deliver!DeliveryInit
  <2> SUFFICES ASSUME Init PROVE Deliver!DeliveryInit
    OBVIOUS
  <2>1. 1 .. sent = {} /\ lapsed = {} /\ read = {} /\ live = [m \in Message |-> 0]
    BY DEF Init
  <2>2. Asked = {}
    BY DEF Init, Asked, NoPoll
  <2> QED BY <2>1, <2>2 DEF Deliver!DeliveryInit
<1>2. Inductive /\ [Next]_vars
        => [Deliver!DeliveryNext]_<<1 .. sent, live, lapsed, Asked, read>>
  BY StepDelivers DEF DeliveryStands
<1> QED BY <1>1, <1>2, InductiveHolds, PTL DEF Spec, ImplementsDelivery, Deliver!DeliverySpec

-----------------------------------------------------------------------------
(* Calls: what Begins, At and Returns do to them.                          *)

CallsOK == calls \in [LifeCall -> Life \cup {NoCall}]
Others(c) == \A d \in LifeCall \ {c} : calls'[d] = calls[d]

LEMMA CallTyped ==
  ASSUME CallsOK, NEW c \in LifeCall
  PROVE  /\ calls[c].at # "none" => calls[c] \in Life
         /\ calls[c].at \in CallPlace
         /\ calls[c].at = "none" \/ calls[c] # NoCall
BY DEF CallsOK, Life, NoCall, CallPlace

LEMMA LifeTyped ==
  ASSUME NEW call \in Life
  PROVE  /\ call.at \in CallPlace /\ call.by \in Lead /\ call.id \in TeamId
         /\ call.kids \in SUBSET Recruit /\ call.old \in TeamRecord \cup {NoTeam}
BY DEF Life

LEMMA GoesIs ==
  ASSUME CallsOK, NEW c \in LifeCall, NEW call \in Life \cup {NoCall}, Goes(c, call)
  PROVE  CallsOK' /\ calls'[c] = call /\ Others(c)
BY DEF CallsOK, Goes, Others

LEMMA Returned ==
  ASSUME CallsOK, NEW c \in LifeCall, Returns(c)
  PROVE  CallsOK' /\ calls'[c] = NoCall /\ calls'[c].at = "none" /\ Others(c)
BY GoesIs DEF Returns, NoCall

LEMMA Moved ==
  ASSUME CallsOK, NEW c \in LifeCall, calls[c].at # "none",
         NEW place \in CallPlace, At(c, place)
  PROVE  /\ CallsOK' /\ Others(c) /\ calls'[c] \in Life
         /\ calls'[c] = [calls[c] EXCEPT !.at = place]
         /\ calls'[c].at = place /\ calls'[c].by = calls[c].by
         /\ calls'[c].id = calls[c].id /\ calls'[c].kids = calls[c].kids
         /\ calls'[c].old = calls[c].old
<1>1. calls[c] \in Life
  BY CallTyped
<1>2. [calls[c] EXCEPT !.at = place] \in Life
  BY <1>1 DEF Life
<1>3. CallsOK' /\ Others(c) /\ calls'[c] = [calls[c] EXCEPT !.at = place]
  BY <1>2, GoesIs DEF At
<1> QED BY <1>1, <1>2, <1>3 DEF Life

LEMMA Begun ==
  ASSUME CallsOK, NEW c \in LifeCall, NEW s \in Lead, NEW i \in TeamId,
         NEW place \in CallPlace, NEW ks \in SUBSET Recruit, Begins(c, s, i, place, ks)
  PROVE  /\ CallsOK' /\ Others(c) /\ calls'[c] \in Life
         /\ calls[c].at = "none" /\ calls'[c].at = place /\ calls'[c].by = s
         /\ calls'[c].id = i /\ calls'[c].kids = ks
         /\ overlap \/ \A d \in LifeCall : calls[d] # NoCall => calls[d].by # s
<1> DEFINE call == [at |-> place, by |-> s, id |-> i, kids |-> ks, old |-> NoTeam]
<1>1. call \in Life
  BY DEF Life
<1>2. CallsOK' /\ Others(c) /\ calls'[c] = call
  BY <1>1, GoesIs DEF Begins
<1> QED BY <1>1, <1>2 DEF Begins, NoCall

-----------------------------------------------------------------------------
(* Records: what the steps that write them do to them.                     *)

TeamsOK == teams \in [TeamId -> TeamRecord \cup {NoTeam}]
OtherTeams(i) == \A j \in TeamId \ {i} : teams'[j] = teams[j]

\* Another roster of the same team.
SameTeam(i) ==
  /\ IsTeam(teams'[i]) /\ teams'[i].number = teams[i].number
  /\ teams'[i].id = teams[i].id /\ teams'[i].lead = teams[i].lead

LEMMA TeamIs ==
  ASSUME NEW dir \in TeamRecord \cup {NoTeam}
  PROVE  /\ IsTeam(dir) <=> dir \in TeamRecord
         /\ IsTeam(dir) => /\ dir.number \in Nat \ {0} /\ dir.id \in TeamId
                          /\ dir.lead \in Lead /\ dir.torn \in BOOLEAN
                          /\ dir.members \in SUBSET Recruit
                          /\ dir.removed \in SUBSET Recruit
         /\ ~IsTeam(NoTeam)
BY DEF IsTeam, TeamRecord, NoTeam

LEMMA NewTeamIs ==
  ASSUME CallsOK, made \in Nat, NEW c \in LifeCall, calls[c].at # "none"
  PROVE  /\ NewTeam(c) \in TeamRecord /\ NewTeam(c).id = calls[c].id
         /\ NewTeam(c).lead = calls[c].by
<1>1. calls[c].by \in Lead /\ calls[c].id \in TeamId
  BY CallTyped, LifeTyped
<1> QED BY <1>1 DEF NewTeam, TeamRecord

LEMMA AddWritesIs ==
  ASSUME CallsOK, TeamsOK, NEW c \in LifeCall, AddWrites(c), Fresh(c)
  PROVE  /\ TeamsOK' /\ OtherTeams(calls[c].id) /\ SameTeam(calls[c].id)
         /\ teams'[calls[c].id].torn = teams[calls[c].id].torn
<1> DEFINE i == calls[c].id
           team == teams[i]
           joined == [team EXCEPT !.members = @ \cup calls[c].kids]
<1>1. i \in TeamId /\ calls[c].kids \in SUBSET Recruit
  BY CallTyped, LifeTyped DEF AddWrites
<1>2. team \in TeamRecord
  BY <1>1, TeamIs DEF Fresh, TeamsOK
<1>3. /\ joined \in TeamRecord /\ joined.number = team.number /\ joined.id = team.id
      /\ joined.lead = team.lead /\ joined.torn = team.torn
  BY <1>1, <1>2 DEF TeamRecord
<1>4. teams' = [teams EXCEPT ![i] = joined]
  BY DEF AddWrites
<1> HIDE DEF joined, team, i
<1>5. TeamsOK' /\ OtherTeams(i) /\ teams'[i] = joined
  BY <1>1, <1>3, <1>4 DEF TeamsOK, OtherTeams
<1> QED BY <1>3, <1>5, TeamIs DEF SameTeam, team, i

LEMMA RemoveMarksIs ==
  ASSUME CallsOK, TeamsOK, NEW c \in LifeCall, NEW s \in Lead, NEW i \in TeamId,
         RemoveMarks(c, s, i)
  PROVE  /\ TeamsOK' /\ OtherTeams(i) /\ SameTeam(i)
         /\ teams'[i].torn = teams[i].torn
         /\ IsTeam(teams[i]) /\ teams[i].lead = s
<1> DEFINE team == teams[i]
<1>1. IsTeam(team) /\ team.lead = s
  BY DEF RemoveMarks, Led
<1>2. team \in TeamRecord
  BY <1>1, TeamIs DEF TeamsOK
<1> PICK k \in team.members :
      teams' = [teams EXCEPT ![i].members = @ \ {k}, ![i].removed = @ \cup {k}]
  BY DEF RemoveMarks
<1> DEFINE less == [team EXCEPT !.members = @ \ {k}, !.removed = @ \cup {k}]
<1>3. /\ less \in TeamRecord /\ less.number = team.number /\ less.id = team.id
      /\ less.lead = team.lead /\ less.torn = team.torn
  BY <1>2 DEF TeamRecord
<1>4. teams' = [teams EXCEPT ![i] = less]
  BY DEF TeamsOK
<1> HIDE DEF less, team
<1>5. TeamsOK' /\ OtherTeams(i) /\ teams'[i] = less
  BY <1>3, <1>4 DEF TeamsOK, OtherTeams
<1> QED BY <1>1, <1>3, <1>5, TeamIs DEF SameTeam, team

LEMMA DeleteMarksIs ==
  ASSUME CallsOK, TeamsOK, NEW c \in LifeCall, DeleteMarks(c), Fresh(c)
  PROVE  /\ TeamsOK' /\ OtherTeams(calls[c].id) /\ SameTeam(calls[c].id)
         /\ teams'[calls[c].id].torn = teams[calls[c].id].torn
         /\ teams'[calls[c].id].members = {}
         /\ teams'[calls[c].id].removed = calls'[c].kids
         /\ CallsOK' /\ Others(c) /\ calls'[c] \in Life
         /\ calls'[c].at = "retiring" /\ calls'[c].by = calls[c].by
         /\ calls'[c].id = calls[c].id /\ calls'[c].old = calls[c].old
<1> DEFINE i == calls[c].id
           team == teams[i]
           ks == team.members \cup team.removed
           call == [calls[c] EXCEPT !.at = "retiring", !.kids = ks]
<1>1. i \in TeamId
  BY CallTyped, LifeTyped DEF DeleteMarks
<1>2. team \in TeamRecord
  BY <1>1, TeamIs DEF Fresh, TeamsOK
<1>3. /\ AllRemoved(team) \in TeamRecord /\ AllRemoved(team).number = team.number
      /\ AllRemoved(team).id = team.id /\ AllRemoved(team).lead = team.lead
      /\ AllRemoved(team).torn = team.torn /\ AllRemoved(team).members = {}
      /\ AllRemoved(team).removed = ks /\ ks \in SUBSET Recruit
  BY <1>2 DEF TeamRecord, AllRemoved
<1>4. teams' = [teams EXCEPT ![i] = AllRemoved(team)] /\ Goes(c, call) /\ calls[c] \in Life
  BY CallTyped DEF DeleteMarks
<1> HIDE DEF ks, team, i
<1>5. /\ call \in Life /\ call.at = "retiring" /\ call.by = calls[c].by
      /\ call.id = calls[c].id /\ call.kids = ks /\ call.old = calls[c].old
  BY <1>3, <1>4 DEF Life, CallPlace
<1> HIDE DEF call
<1>6. TeamsOK' /\ OtherTeams(i) /\ teams'[i] = AllRemoved(team)
  BY <1>1, <1>3, <1>4 DEF TeamsOK, OtherTeams
<1>7. CallsOK' /\ Others(c) /\ calls'[c] = call
  BY <1>4, <1>5, GoesIs
<1> QED BY <1>3, <1>5, <1>6, <1>7, TeamIs DEF SameTeam, team, i

LEMMA SpawnsIs ==
  ASSUME CallsOK, NEW c \in LifeCall, AddSpawns(c)
  PROVE  \/ Returns(c) /\ UNCHANGED spawned
         \/ \E k \in Recruit :
              /\ CallsOK' /\ Others(c) /\ calls'[c] \in Life
              /\ calls'[c].at = "joining" /\ calls'[c].by = calls[c].by
              /\ calls'[c].id = calls[c].id /\ calls'[c].kids = {k}
              /\ Fresh(c) /\ spawned' = spawned \cup {k}
<1> SUFFICES ASSUME NEW k \in Recruit, Fresh(c), spawned' = spawned \cup {k},
                    Goes(c, [calls[c] EXCEPT !.at = "joining", !.kids = {k}])
             PROVE  /\ CallsOK' /\ Others(c) /\ calls'[c] \in Life
                    /\ calls'[c].at = "joining" /\ calls'[c].by = calls[c].by
                    /\ calls'[c].id = calls[c].id /\ calls'[c].kids = {k}
  BY DEF AddSpawns
<1> DEFINE call == [calls[c] EXCEPT !.at = "joining", !.kids = {k}]
<1>1. calls[c] \in Life
  BY CallTyped DEF AddSpawns
<1>2. /\ call \in Life /\ call.at = "joining" /\ call.by = calls[c].by
      /\ call.id = calls[c].id /\ call.kids = {k}
  BY <1>1 DEF Life, CallPlace
<1>3. Goes(c, call)
  OBVIOUS
<1> HIDE DEF call
<1> QED BY <1>2, <1>3, GoesIs

LEMMA DisplaceIs ==
  ASSUME CallsOK, NEW c \in LifeCall, archive \in [TeamId -> TeamRecord \cup {NoTeam}],
         Displace(c), Fresh(c)
  PROVE  /\ CallsOK' /\ Others(c) /\ calls'[c] \in Life
         /\ calls'[c].at = "moving" /\ calls'[c].by = calls[c].by
         /\ calls'[c].id = calls[c].id /\ calls'[c].kids = calls[c].kids
         /\ calls'[c].old = archive[calls[c].id]
         /\ calls[c].id \in TeamId
<1> DEFINE dir == archive[calls[c].id]
           call == [calls[c] EXCEPT !.at = "moving", !.old = dir]
<1>1. calls[c] \in Life /\ calls[c].id \in TeamId /\ dir \in TeamRecord \cup {NoTeam}
  BY CallTyped, LifeTyped DEF Displace
<1>2. Goes(c, call)
  BY DEF Displace
<1> HIDE DEF dir
<1>3. /\ call \in Life /\ call.at = "moving" /\ call.by = calls[c].by
      /\ call.id = calls[c].id /\ call.kids = calls[c].kids /\ call.old = dir
  BY <1>1 DEF Life, CallPlace
<1> HIDE DEF call
<1> QED BY <1>1, <1>2, <1>3, GoesIs DEF dir

LEMMA TearsIs ==
  ASSUME CallsOK, TeamsOK, made \in Nat, NEW c \in LifeCall, Tears(c)
  PROVE  /\ TeamsOK' /\ OtherTeams(calls[c].id) /\ IsTeam(teams'[calls[c].id])
         /\ IsTeam(teams[calls[c].id]) => SameTeam(calls[c].id)
         /\ ~IsTeam(teams[calls[c].id]) =>
              /\ teams'[calls[c].id].lead = calls[c].by
              /\ teams'[calls[c].id].id = calls[c].id
<1> DEFINE i == calls[c].id
           base == IF IsTeam(teams[i]) THEN teams[i] ELSE NewTeam(c)
           half == [base EXCEPT !.torn = TRUE]
<1>1. calls[c].at # "none"
  BY DEF Tears, Writing
<1>2. i \in TeamId
  BY <1>1, CallTyped, LifeTyped
<1>3. /\ base \in TeamRecord
      /\ IsTeam(teams[i]) => base = teams[i]
      /\ ~IsTeam(teams[i]) => base.lead = calls[c].by /\ base.id = i
  BY <1>1, <1>2, TeamIs, NewTeamIs DEF TeamsOK
<1>4. teams' = [teams EXCEPT ![i] = half]
  BY DEF Tears, TeamsOK
<1> HIDE DEF base
<1>5. /\ half \in TeamRecord /\ half.number = base.number /\ half.id = base.id
      /\ half.lead = base.lead
  BY <1>3 DEF TeamRecord
<1> HIDE DEF half, i
<1>6. TeamsOK' /\ OtherTeams(i) /\ teams'[i] = half
  BY <1>2, <1>4, <1>5 DEF TeamsOK, OtherTeams
<1> QED BY <1>3, <1>5, <1>6, TeamIs DEF SameTeam, i

-----------------------------------------------------------------------------
(* Sections: whoever creates is alone with its captain, whoever writes or  *)
(* moves is alone with its team, and what it found fresh stays so.         *)

Creating == {"scanned", "making"}
Relying == {"joining", "marking", "moving"}

Sections ==
  /\ \A c, d \in LifeCall : c # d =>
       /\ calls[c].at \in Creating /\ calls[d].at \in Creating => calls[c].by # calls[d].by
       /\ calls[c].at \in Locking /\ calls[d].at \in Locking => calls[c].id # calls[d].id
  /\ \A c \in LifeCall :
       /\ calls[c].at \in Creating => Led(calls[c].by) = {}
       /\ calls[c].at = "making" => ~IsTeam(teams[calls[c].id])
       /\ calls[c].at \in Relying => Fresh(c)
  /\ OneTeamEach

\* A call that is not in a section after the step.
Outside(c) == calls'[c].at \notin Creating \cup Locking

LEMMA SectionsQuiet ==
  ASSUME Sections, NEW c \in LifeCall, Others(c), Outside(c), UNCHANGED teams
  PROVE  Sections'
BY DEF Sections, Others, Outside, Creating, Relying, Locking, Writing, Led, Fresh, OneTeamEach

LEMMA SectionsRoster ==
  ASSUME Sections, CallsOK, NEW c \in LifeCall, Others(c), Outside(c), NEW i \in TeamId,
         OtherTeams(i), SameTeam(i), IsTeam(teams[i]), Holder(i) \subseteq {c}
  PROVE  Sections'
<1>1. \A j \in TeamId : /\ IsTeam(teams'[j]) <=> IsTeam(teams[j])
                        /\ IsTeam(teams[j]) => teams'[j].lead = teams[j].lead
  BY DEF OtherTeams, SameTeam
<1>2. \A s : Led(s)' = Led(s)
  BY <1>1 DEF Led
<1>3. ASSUME NEW d \in LifeCall, d # c, calls[d].at \in Locking
      PROVE  /\ calls[d].id \in TeamId /\ calls[d].id # i
             /\ teams'[calls[d].id] = teams[calls[d].id]
  <2>1. calls[d].id \in TeamId
    BY <1>3, CallTyped, LifeTyped DEF Locking, Writing
  <2> QED BY <1>3, <2>1 DEF Holder, OtherTeams
<1>4. \A d \in LifeCall \ {c} : calls[d].at \in Relying => Fresh(d)'
  BY <1>3 DEF Sections, Fresh, Others, Relying, Locking, Writing
<1>5. \A d \in LifeCall \ {c} : calls[d].at = "making" => ~IsTeam(teams'[calls[d].id])
  BY <1>3 DEF Sections, Locking, Writing
<1>6. OneTeamEach'
  BY <1>1 DEF Sections, OneTeamEach
<1> QED BY <1>2, <1>4, <1>5, <1>6
        DEF Sections, Others, Outside, Creating, Relying, Locking, Writing

LEMMA SectionsNewTeam ==
  ASSUME Sections, CallsOK, NEW c \in LifeCall, calls[c].at = "making", Others(c), Outside(c),
         OtherTeams(calls[c].id), teams'[calls[c].id].lead = calls[c].by
  PROVE  Sections'
<1> DEFINE i == calls[c].id
<1>1. \A j \in TeamId : IsTeam(teams[j]) => teams[j].lead # calls[c].by
  BY DEF Sections, Creating, Led
<1>2. OneTeamEach'
  BY <1>1 DEF Sections, OneTeamEach, OtherTeams
<1>3. ASSUME NEW d \in LifeCall, d # c, calls[d].at \in Locking
      PROVE  teams'[calls[d].id] = teams[calls[d].id]
  <2>1. calls[d].id \in TeamId
    BY <1>3, CallTyped, LifeTyped DEF Locking, Writing
  <2> QED BY <1>3, <2>1 DEF Sections, OtherTeams, Locking, Writing
<1>4. \A d \in LifeCall \ {c} : calls[d].at \in Creating => Led(calls[d].by)' = {}
  <2> SUFFICES ASSUME NEW d \in LifeCall \ {c}, calls[d].at \in Creating, NEW j \in Led(calls[d].by)'
               PROVE  FALSE
    OBVIOUS
  <2>1. calls[d].by # calls[c].by /\ Led(calls[d].by) = {} /\ calls'[d] = calls[d]
    BY DEF Sections, Creating, Others
  <2> QED BY <2>1 DEF Led, OtherTeams
<1> QED BY <1>2, <1>3, <1>4
        DEF Sections, Others, Outside, Creating, Relying, Locking, Writing, Fresh

LEMMA TypesGive == LifeTypeOK => CallsOK /\ TeamsOK /\ made \in Nat
BY DEF LifeTypeOK, CallsOK, TeamsOK

\* Every step keeps the types.
LEMMA StepLifeTypeOK ==
  ASSUME LifeTypeOK, Sections, [LifeNext]_lifeVars
  PROVE  LifeTypeOK'
<1> USE TypesGive
<1>1. ASSUME NEW c \in LifeCall, NEW s \in Lead, NEW i \in TeamId,
             CreateScan(c, s, i) \/ AddFinds(c, s, i) \/ DeleteFinds(c, s, i)
      PROVE  LifeTypeOK'
  <2>1. CallsOK'
    BY <1>1, Begun DEF CreateScan, AddFinds, DeleteFinds, CallPlace
  <2> QED BY <1>1, <2>1 DEF CreateScan, AddFinds, DeleteFinds, Disk, Marks, LifeTypeOK, CallsOK
<1>2. ASSUME NEW c \in LifeCall, NEW s \in Lead, NEW i \in TeamId, RemoveMarks(c, s, i)
      PROVE  LifeTypeOK'
  <2> PICK k \in teams[i].members : Begins(c, s, i, "dismissing", {k})
    BY <1>2 DEF RemoveMarks
  <2>1. TeamsOK' /\ IsTeam(teams[i])
    BY <1>2, RemoveMarksIs
  <2>2. {k} \in SUBSET Recruit
    BY <2>1, TeamIs DEF TeamsOK
  <2>3. CallsOK'
    BY <2>2, Begun DEF CallPlace
  <2> QED BY <1>2, <2>1, <2>3 DEF RemoveMarks, Marks, LifeTypeOK, CallsOK, TeamsOK
<1>3. ASSUME NEW c \in LifeCall, CreateLooks(c) \/ DeleteLocks(c)
      PROVE  LifeTypeOK'
  <2>1. CallsOK'
    BY <1>3, Moved, Returned DEF CreateLooks, DeleteLocks, CallPlace
  <2> QED BY <1>3, <2>1 DEF CreateLooks, DeleteLocks, Disk, Marks, LifeTypeOK, CallsOK
<1>4. ASSUME NEW c \in LifeCall, CreateWrites(c)
      PROVE  LifeTypeOK'
  <2>1. CallsOK' /\ TeamsOK'
    BY <1>4, Returned, NewTeamIs DEF CreateWrites, TeamsOK
  <2> QED BY <1>4, <2>1 DEF CreateWrites, Marks, LifeTypeOK, CallsOK, TeamsOK
<1>5. ASSUME NEW c \in LifeCall, AddSpawns(c)
      PROVE  LifeTypeOK'
  <2>1. CallsOK' /\ spawned' \subseteq Recruit
    BY <1>5, SpawnsIs, Returned DEF LifeTypeOK
  <2> QED BY <1>5, <2>1 DEF AddSpawns, Disk, Marks, LifeTypeOK, CallsOK
<1>6. ASSUME NEW c \in LifeCall, AddWrites(c) \/ DeleteMarks(c)
      PROVE  LifeTypeOK'
  <2>1. Fresh(c)
    BY <1>6 DEF AddWrites, DeleteMarks, Sections, Relying
  <2>2. TeamsOK' /\ CallsOK'
    BY <1>6, <2>1, AddWritesIs, DeleteMarksIs, Returned DEF AddWrites
  <2> QED BY <1>6, <2>2 DEF AddWrites, DeleteMarks, Marks, LifeTypeOK, CallsOK, TeamsOK
<1>7. ASSUME NEW c \in LifeCall, RemoveRetires(c) \/ DeleteRetires(c) \/ EndFails(c) \/ CleansUp(c)
      PROVE  LifeTypeOK'
  <2>1. CallsOK' /\ calls[c].kids \in SUBSET Recruit
    BY <1>7, Moved, Returned, CallTyped, LifeTyped
       DEF RemoveRetires, DeleteRetires, EndFails, CleansUp, CallPlace
  <2> QED BY <1>7, <2>1 DEF RemoveRetires, DeleteRetires, EndFails, CleansUp, Trouble, Disk, Marks,
                            LifeTypeOK, CallsOK
<1>8. ASSUME NEW c \in LifeCall, Displace(c)
      PROVE  LifeTypeOK'
  <2>1. CASE ~Fresh(c)
    <3>1. CallsOK' /\ calls[c].id \in TeamId
      BY <1>8, <2>1, Returned, CallTyped, LifeTyped DEF Displace
    <3>2. archive[calls[c].id] \in TeamRecord \cup {NoTeam}
      BY <3>1 DEF LifeTypeOK
    <3> QED BY <1>8, <3>1, <3>2, TeamIs DEF Displace, Marks, LifeTypeOK, CallsOK
  <2>2. CASE Fresh(c)
    <3>1. archive \in [TeamId -> TeamRecord \cup {NoTeam}]
      BY DEF LifeTypeOK
    <3>2. CallsOK' /\ calls[c].id \in TeamId
      BY <1>8, <2>2, <3>1, DisplaceIs
    <3>3. archive' \in [TeamId -> TeamRecord \cup {NoTeam}] /\ hidden' \subseteq TeamRecord
      BY <1>8, <2>2, <3>1, <3>2 DEF Displace, LifeTypeOK
    <3> QED BY <1>8, <3>2, <3>3 DEF Displace, Marks, LifeTypeOK, CallsOK
  <2> QED BY <2>1, <2>2
<1>9. ASSUME NEW c \in LifeCall, MoveIn(c)
      PROVE  LifeTypeOK'
  <2>1. CallsOK' /\ calls[c].id \in TeamId /\ Fresh(c)
    BY <1>9, Moved, CallTyped, LifeTyped DEF MoveIn, CallPlace, Sections, Relying
  <2>2. teams[calls[c].id].number \in Nat /\ teams[calls[c].id] \in TeamRecord
    BY <2>1, TeamIs DEF Fresh, TeamsOK
  <2> QED BY <1>9, <2>1, <2>2 DEF MoveIn, LifeTypeOK, CallsOK
<1>10. ASSUME NEW c \in LifeCall, MoveFails(c)
      PROVE  LifeTypeOK'
  <2>1. /\ CallsOK' /\ calls[c].id \in TeamId /\ calls[c].old \in TeamRecord \cup {NoTeam}
    BY <1>10, Returned, CallTyped, LifeTyped DEF MoveFails
  <2>2. archive' \in [TeamId -> TeamRecord \cup {NoTeam}] /\ hidden' \subseteq TeamRecord
    BY <1>10, <2>1 DEF MoveFails, Restores, LifeTypeOK
  <2>3. troubles' \in Nat
    BY <1>10 DEF MoveFails, Trouble, LifeTypeOK
  <2>4. broken' = broken \/ broken' = TRUE
    BY <1>10 DEF MoveFails, Restores
  <2>5. broken' \in BOOLEAN
    BY <2>4, Zenon DEF LifeTypeOK
  <2> QED BY <1>10, <2>1, <2>2, <2>3, <2>5 DEF MoveFails, LifeTypeOK, CallsOK
<1>11. ASSUME NEW c \in LifeCall, WriteFails(c)
      PROVE  LifeTypeOK'
  <2>1. CallsOK' /\ calls[c].kids \in SUBSET Recruit
    BY <1>11, Returned, CallTyped, LifeTyped DEF WriteFails, Writing
  <2>2. TeamsOK'
    BY <1>11, TearsIs DEF WriteFails, TeamsOK
  <2> QED BY <1>11, <2>1, <2>2 DEF WriteFails, Trouble, Marks, LifeTypeOK, CallsOK, TeamsOK
<1>12. CASE RestartHarness
  <2>1. CallsOK'
    BY <1>12 DEF RestartHarness, CallsOK
  <2>2. TeamsOK'
    BY <1>12, TearsIs DEF RestartHarness, TeamsOK
  <2> QED BY <1>12, <2>1, <2>2 DEF RestartHarness, Trouble, LifeTypeOK, CallsOK, TeamsOK
<1>13. CASE UNCHANGED lifeVars
  BY <1>13 DEF lifeVars, LifeTypeOK
<1> QED BY <1>1, <1>2, <1>3, <1>4, <1>5, <1>6, <1>7, <1>8, <1>9, <1>10, <1>11, <1>12, <1>13
        DEF LifeNext

\* Every step keeps the sections apart.
LEMMA StepSections ==
  ASSUME LifeTypeOK, Sections, [LifeNext]_lifeVars
  PROVE  Sections'
<1> USE TypesGive
<1>1. ASSUME NEW c \in LifeCall, NEW s \in Lead, NEW i \in TeamId, CreateScan(c, s, i)
      PROVE  Sections'
  <2>1. /\ CallsOK' /\ Others(c) /\ calls'[c].at = "scanned" /\ calls'[c].by = s
        /\ UNCHANGED teams /\ Led(s) = {} /\ Creators(s) = {}
    BY <1>1, Begun DEF CreateScan, CallPlace, Disk
  <2> QED BY <2>1 DEF Sections, Others, Creating, Relying, Locking, Writing, Led, Fresh,
                      OneTeamEach, Creators
<1>2. ASSUME NEW c \in LifeCall, NEW s \in Lead, NEW i \in TeamId,
             AddFinds(c, s, i) \/ DeleteFinds(c, s, i)
      PROVE  Sections'
  <2>1. Others(c) /\ Outside(c) /\ UNCHANGED teams
    BY <1>2, Begun DEF AddFinds, DeleteFinds, CallPlace, Disk, Outside, Creating, Locking, Writing
  <2> QED BY <2>1, SectionsQuiet
<1>3. ASSUME NEW c \in LifeCall, NEW s \in Lead, NEW i \in TeamId, RemoveMarks(c, s, i)
      PROVE  Sections'
  <2> PICK k \in teams[i].members : Begins(c, s, i, "dismissing", {k})
    BY <1>3 DEF RemoveMarks
  <2>1. OtherTeams(i) /\ SameTeam(i) /\ IsTeam(teams[i]) /\ Holder(i) = {}
    BY <1>3, RemoveMarksIs DEF RemoveMarks, Unheld
  <2>2. {k} \in SUBSET Recruit
    BY <2>1, TeamIs DEF TeamsOK
  <2>3. Others(c) /\ Outside(c)
    BY <2>2, Begun DEF CallPlace, Outside, Creating, Locking, Writing
  <2> QED BY <2>1, <2>3, SectionsRoster
<1>4. ASSUME NEW c \in LifeCall, CreateLooks(c)
      PROVE  Sections'
  <2>1. CASE Returns(c)
    BY <1>4, <2>1, Returned, SectionsQuiet
       DEF CreateLooks, Disk, Outside, Creating, Locking, Writing
  <2>2. CASE At(c, "making") /\ ~IsTeam(teams[calls[c].id])
    <3>1. /\ Others(c) /\ calls'[c].at = "making" /\ calls'[c].by = calls[c].by
          /\ calls'[c].id = calls[c].id /\ calls[c].at = "scanned"
          /\ UNCHANGED teams /\ Holder(calls[c].id) = {}
      BY <1>4, <2>2, Moved DEF CreateLooks, CallPlace, Disk, Unheld
    <3> QED BY <2>2, <3>1 DEF Sections, Others, Creating, Relying, Locking, Writing, Led,
                              Fresh, OneTeamEach, Holder
  <2> QED BY <1>4, <2>1, <2>2 DEF CreateLooks
<1>5. ASSUME NEW c \in LifeCall, CreateWrites(c)
      PROVE  Sections'
  <2>1. calls[c].id \in TeamId
    BY <1>5, CallTyped, LifeTyped DEF CreateWrites
  <2>2. OtherTeams(calls[c].id) /\ teams'[calls[c].id].lead = calls[c].by
    BY <1>5, <2>1, NewTeamIs DEF CreateWrites, OtherTeams, TeamsOK
  <2>3. Others(c) /\ Outside(c)
    BY <1>5, Returned DEF CreateWrites, Outside, Creating, Locking, Writing
  <2> QED BY <1>5, <2>2, <2>3, SectionsNewTeam DEF CreateWrites
<1>6. ASSUME NEW c \in LifeCall, AddSpawns(c)
      PROVE  Sections'
  <2>1. CASE Returns(c)
    BY <1>6, <2>1, Returned, SectionsQuiet
       DEF AddSpawns, Disk, Outside, Creating, Locking, Writing
  <2>2. CASE ~Returns(c)
    <3>1. /\ Others(c) /\ calls'[c].at = "joining" /\ calls'[c].by = calls[c].by
          /\ calls'[c].id = calls[c].id /\ Fresh(c)
      BY <1>6, <2>2, SpawnsIs
    <3>2. UNCHANGED teams /\ Holder(calls[c].id) = {}
      BY <1>6 DEF AddSpawns, Disk, Unheld
    <3> QED BY <3>1, <3>2 DEF Sections, Others, Creating, Relying, Locking, Writing, Led,
                              Fresh, OneTeamEach, Holder
  <2> QED BY <2>1, <2>2
<1>7. ASSUME NEW c \in LifeCall, AddWrites(c)
      PROVE  Sections'
  <2>1. /\ calls[c].id \in TeamId /\ Fresh(c) /\ Holder(calls[c].id) \subseteq {c}
    BY <1>7, CallTyped, LifeTyped DEF AddWrites, Sections, Relying, Holder, Locking, Writing
  <2>2. Others(c) /\ Outside(c)
    BY <1>7, Returned DEF AddWrites, Outside, Creating, Locking, Writing
  <2> QED BY <1>7, <2>1, <2>2, AddWritesIs, SectionsRoster DEF Fresh
<1>8. ASSUME NEW c \in LifeCall, DeleteMarks(c)
      PROVE  Sections'
  <2>1. /\ calls[c].id \in TeamId /\ Fresh(c) /\ Holder(calls[c].id) \subseteq {c}
    BY <1>8, CallTyped, LifeTyped DEF DeleteMarks, Sections, Relying, Holder, Locking, Writing
  <2>2. /\ Others(c) /\ OtherTeams(calls[c].id) /\ SameTeam(calls[c].id)
        /\ calls'[c].at = "retiring"
    BY <1>8, <2>1, DeleteMarksIs
  <2>3. Outside(c)
    BY <2>2 DEF Outside, Creating, Locking, Writing
  <2> QED BY <2>1, <2>2, <2>3, SectionsRoster DEF Fresh
<1>9. ASSUME NEW c \in LifeCall,
             RemoveRetires(c) \/ DeleteRetires(c) \/ EndFails(c) \/ MoveFails(c) \/ CleansUp(c)
      PROVE  Sections'
  <2>1. Others(c) /\ Outside(c) /\ UNCHANGED teams
    BY <1>9, Moved, Returned
       DEF RemoveRetires, DeleteRetires, EndFails, MoveFails, CleansUp, CallPlace, Disk, Outside,
           Creating, Locking, Writing
  <2> QED BY <2>1, SectionsQuiet
<1>10. ASSUME NEW c \in LifeCall, DeleteLocks(c)
      PROVE  Sections'
  <2>1. CASE Returns(c)
    BY <1>10, <2>1, Returned, SectionsQuiet
       DEF DeleteLocks, Disk, Outside, Creating, Locking, Writing
  <2>2. CASE At(c, "marking") /\ Fresh(c)
    <3>1. /\ Others(c) /\ calls'[c].at = "marking" /\ calls'[c].by = calls[c].by
          /\ calls'[c].id = calls[c].id
          /\ UNCHANGED teams /\ Holder(calls[c].id) = {}
      BY <1>10, <2>2, Moved DEF DeleteLocks, CallPlace, Disk, Unheld
    <3> QED BY <2>2, <3>1 DEF Sections, Others, Creating, Relying, Locking, Writing, Led,
                              Fresh, OneTeamEach, Holder
  <2> QED BY <1>10, <2>1, <2>2 DEF DeleteLocks
<1>11. ASSUME NEW c \in LifeCall, Displace(c)
      PROVE  Sections'
  <2>1. CASE ~Fresh(c)
    BY <1>11, <2>1, Returned, SectionsQuiet
       DEF Displace, Outside, Creating, Locking, Writing
  <2>2. CASE Fresh(c)
    <3>1. archive \in [TeamId -> TeamRecord \cup {NoTeam}]
      BY DEF LifeTypeOK
    <3>2. /\ Others(c) /\ calls'[c].at = "moving" /\ calls'[c].by = calls[c].by
          /\ calls'[c].id = calls[c].id
      BY <1>11, <2>2, <3>1, DisplaceIs
    <3>3. UNCHANGED teams /\ Holder(calls[c].id) = {}
      BY <1>11 DEF Displace, Unheld
    <3> QED BY <2>2, <3>2, <3>3 DEF Sections, Others, Creating, Relying, Locking, Writing, Led,
                              Fresh, OneTeamEach, Holder
  <2> QED BY <2>1, <2>2
<1>12. ASSUME NEW c \in LifeCall, MoveIn(c)
      PROVE  Sections'
  <2>1. calls[c].id \in TeamId
    BY <1>12, CallTyped, LifeTyped DEF MoveIn
  <2>2. /\ Others(c) /\ calls'[c].at = "cleaning" /\ calls'[c].id = calls[c].id
    BY <1>12, Moved DEF MoveIn, CallPlace
  <2>3. teams' = [teams EXCEPT ![calls[c].id] = NoTeam] /\ ~IsTeam(NoTeam)
    BY <1>12, TeamIs DEF MoveIn
  <2>4. OtherTeams(calls[c].id) /\ ~IsTeam(teams'[calls[c].id])
    BY <2>1, <2>3 DEF OtherTeams, TeamsOK
  <2>5. \A j \in TeamId : IsTeam(teams'[j]) => teams'[j] = teams[j]
    BY <2>4 DEF OtherTeams
  <2>6. OneTeamEach' /\ \A s : Led(s)' \subseteq Led(s)
    BY <2>5 DEF Sections, OneTeamEach, Led
  <2>7. ASSUME NEW d \in LifeCall, d # c, calls[d].at \in Locking
        PROVE  teams'[calls[d].id] = teams[calls[d].id]
    <3>1. calls[d].id \in TeamId
      BY <2>7, CallTyped, LifeTyped DEF Locking, Writing
    <3> QED BY <1>12, <2>4, <2>7, <3>1 DEF MoveIn, Sections, OtherTeams, Locking, Writing
  <2> QED BY <1>12, <2>2, <2>6, <2>7
          DEF MoveIn, Sections, Others, Creating, Relying, Locking, Writing, Fresh
<1>13. ASSUME NEW c \in LifeCall, WriteFails(c)
      PROVE  Sections'
  <2>1. Others(c) /\ Outside(c)
    BY <1>13, Returned DEF WriteFails, Outside, Creating, Locking, Writing
  <2>2. CASE UNCHANGED teams
    BY <2>1, <2>2, SectionsQuiet
  <2>3. CASE Tears(c)
    <3>1. calls[c].id \in TeamId /\ Holder(calls[c].id) \subseteq {c}
      BY <1>13, CallTyped, LifeTyped DEF WriteFails, Sections, Holder, Locking, Writing
    <3>2. CASE IsTeam(teams[calls[c].id])
      BY <2>1, <2>3, <3>1, <3>2, TearsIs, SectionsRoster
    <3>3. CASE ~IsTeam(teams[calls[c].id])
      <4>1. calls[c].at = "making"
        BY <1>13, <3>3 DEF WriteFails, Writing, Sections, Relying, Fresh
      <4> QED BY <2>1, <2>3, <3>3, <4>1, TearsIs, SectionsNewTeam
    <3> QED BY <3>2, <3>3
  <2> QED BY <1>13, <2>2, <2>3 DEF WriteFails
<1>14. CASE RestartHarness
  <2>1. \A c \in LifeCall : calls'[c].at = "none"
    BY <1>14 DEF RestartHarness, NoCall
  <2>2. CASE UNCHANGED teams
    BY <2>1, <2>2 DEF Sections, OneTeamEach, Creating, Relying, Locking, Writing
  <2>3. ASSUME NEW c \in LifeCall, Tears(c)
        PROVE  OneTeamEach'
    <3>1. calls[c].id \in TeamId
      BY <2>3, CallTyped, LifeTyped DEF Tears, Writing
    <3>2. CASE IsTeam(teams[calls[c].id])
      BY <2>3, <3>1, <3>2, TearsIs DEF Sections, OneTeamEach, OtherTeams, SameTeam
    <3>3. CASE ~IsTeam(teams[calls[c].id])
      <4>1. calls[c].at = "making" /\ Led(calls[c].by) = {}
        BY <2>3, <3>3 DEF Tears, Writing, Sections, Relying, Creating, Fresh
      <4> QED BY <2>3, <3>1, <3>3, <4>1, TearsIs DEF Sections, OneTeamEach, OtherTeams, Led
    <3> QED BY <3>2, <3>3
  <2> QED BY <1>14, <2>1, <2>2, <2>3
          DEF RestartHarness, Sections, Creating, Relying, Locking, Writing
<1>15. CASE UNCHANGED lifeVars
  BY <1>15 DEF lifeVars, Sections, OneTeamEach, Led, Fresh
<1> QED BY <1>1, <1>2, <1>3, <1>4, <1>5, <1>6, <1>7, <1>8, <1>9, <1>10, <1>11, <1>12, <1>13,
           <1>14, <1>15 DEF LifeNext

-----------------------------------------------------------------------------
(* The archive: a directory holds the team of its name that was archived   *)
(* last; a call that moves a team in has the earlier one in hidden.        *)

ArchiveOrder ==
  /\ \A i \in TeamId : IsTeam(teams[i]) => teams[i].id = i
  /\ \A i \in TeamId : IsTeam(archive[i]) =>
       archive[i].id = i /\ archive[i].number = last[i]
  /\ \A c \in LifeCall : calls[c].at = "moving" =>
       /\ ~IsTeam(archive[calls[c].id])
       /\ IsTeam(calls[c].old) => /\ calls[c].old \in hidden
                                  /\ calls[c].old.id = calls[c].id
                                  /\ calls[c].old.number = last[calls[c].id]
       /\ ~IsTeam(calls[c].old) /\ last[calls[c].id] # 0 => broken
  /\ \A c \in LifeCall : calls[c].at = "cleaning" =>
       /\ IsTeam(archive[calls[c].id])
       /\ IsTeam(calls[c].old) => calls[c].old.id = calls[c].id
  /\ ArchiveSurvives

LEMMA ArchiveQuiet ==
  ASSUME ArchiveOrder, NEW c \in LifeCall, Others(c), calls[c].at # "moving",
         calls'[c].at \notin {"moving", "cleaning"}, UNCHANGED <<archive, hidden, last, broken>>,
         \A i \in TeamId : IsTeam(teams'[i]) => teams'[i].id = i
  PROVE  ArchiveOrder'
<1>1. ArchiveSurvives'
  <2> SUFFICES ASSUME NEW i \in TeamId, last[i] # 0,
                      ~(IsTeam(archive[i]) /\ archive[i].number = last[i])
               PROVE  /\ \E team \in hidden : team.id = i /\ team.number = last[i]
                      /\ broken \/ \E d \in Holder(i)' : calls'[d].at = "moving"
    BY DEF ArchiveSurvives
  <2>1. /\ \E team \in hidden : team.id = i /\ team.number = last[i]
        /\ broken \/ \E d \in Holder(i) : calls[d].at = "moving"
    BY DEF ArchiveOrder, ArchiveSurvives
  <2>2. ASSUME NEW d \in Holder(i), calls[d].at = "moving"
        PROVE  d \in Holder(i)' /\ calls'[d].at = "moving"
    BY <2>2 DEF Holder, Others
  <2> QED BY <2>1, <2>2
<1> QED BY <1>1 DEF ArchiveOrder, Others

\* What a call that disturbs the name it holds must show.
DisturbsOnly(c, i) ==
  /\ Others(c) /\ calls[c].id = i
  /\ \A j \in TeamId \ {i} : archive'[j] = archive[j] /\ last'[j] = last[j]
  /\ \A team \in hidden : team \in hidden' \/ team.id = i
  /\ broken => broken'
  /\ \/ last'[i] = 0
     \/ IsTeam(archive'[i]) /\ archive'[i].number = last'[i]
     \/ broken' /\ \E team \in hidden' : team.id = i /\ team.number = last'[i]

LEMMA ArchiveDisturbed ==
  ASSUME ArchiveOrder, NEW c \in LifeCall, NEW i \in TeamId, DisturbsOnly(c, i)
  PROVE  ArchiveSurvives'
<1> SUFFICES ASSUME NEW j \in TeamId, last'[j] # 0,
                    ~(IsTeam(archive'[j]) /\ archive'[j].number = last'[j])
             PROVE  /\ \E team \in hidden' : team.id = j /\ team.number = last'[j]
                    /\ broken' \/ \E d \in Holder(j)' : calls'[d].at = "moving"
  BY DEF ArchiveSurvives
<1>1. CASE j = i
  BY <1>1 DEF DisturbsOnly
<1>2. CASE j # i
  <2>1. /\ \E team \in hidden : team.id = j /\ team.number = last[j]
        /\ broken \/ \E d \in Holder(j) : calls[d].at = "moving"
    BY <1>2 DEF ArchiveOrder, ArchiveSurvives, DisturbsOnly
  <2>2. \A d \in Holder(j) : calls[d].at = "moving" => d \in Holder(j)' /\ calls'[d].at = "moving"
    BY <1>2 DEF Holder, Others, DisturbsOnly
  <2> QED BY <1>2, <2>1, <2>2 DEF DisturbsOnly
<1> QED BY <1>1, <1>2

\* Every step keeps the archive in order.
LEMMA StepArchive ==
  ASSUME LifeTypeOK, Sections, ArchiveOrder, [LifeNext]_lifeVars
  PROVE  ArchiveOrder'
<1> USE TypesGive
<1>1. ASSUME NEW c \in LifeCall, NEW s \in Lead, NEW i \in TeamId,
             CreateScan(c, s, i) \/ AddFinds(c, s, i) \/ DeleteFinds(c, s, i)
      PROVE  ArchiveOrder'
  <2>1. /\ Others(c) /\ calls[c].at = "none"
        /\ calls'[c].at \notin {"moving", "cleaning"}
        /\ UNCHANGED <<archive, hidden, last, broken, teams>>
    BY <1>1, Begun DEF CreateScan, AddFinds, DeleteFinds, CallPlace, Disk, Marks
  <2> QED BY <2>1, ArchiveQuiet DEF ArchiveOrder
<1>2. ASSUME NEW c \in LifeCall, NEW s \in Lead, NEW i \in TeamId, RemoveMarks(c, s, i)
      PROVE  ArchiveOrder'
  <2> PICK k \in teams[i].members : Begins(c, s, i, "dismissing", {k})
    BY <1>2 DEF RemoveMarks
  <2>1. OtherTeams(i) /\ SameTeam(i) /\ IsTeam(teams[i])
    BY <1>2, RemoveMarksIs
  <2>2. {k} \in SUBSET Recruit
    BY <2>1, TeamIs DEF TeamsOK
  <2>3. Others(c) /\ calls[c].at = "none" /\ calls'[c].at = "dismissing"
    BY <2>2, Begun DEF CallPlace
  <2>4. UNCHANGED <<archive, hidden, last, broken>>
    BY <1>2 DEF RemoveMarks, Marks
  <2> QED BY <2>1, <2>3, <2>4, ArchiveQuiet DEF ArchiveOrder, OtherTeams, SameTeam
<1>3. ASSUME NEW c \in LifeCall, CreateLooks(c) \/ DeleteLocks(c) \/ AddSpawns(c)
      PROVE  ArchiveOrder'
  <2>1. Others(c) /\ calls[c].at # "moving" /\ calls'[c].at \notin {"moving", "cleaning"}
    BY <1>3, Moved, Returned, SpawnsIs DEF CreateLooks, DeleteLocks, AddSpawns, CallPlace
  <2>2. UNCHANGED <<archive, hidden, last, broken, teams>>
    BY <1>3 DEF CreateLooks, DeleteLocks, AddSpawns, Disk, Marks
  <2> QED BY <2>1, <2>2, ArchiveQuiet DEF ArchiveOrder
<1>4. ASSUME NEW c \in LifeCall, CreateWrites(c)
      PROVE  ArchiveOrder'
  <2>1. /\ Others(c) /\ calls[c].at # "moving" /\ calls'[c].at \notin {"moving", "cleaning"}
        /\ UNCHANGED <<archive, hidden, last, broken>>
    BY <1>4, Returned DEF CreateWrites, Marks
  <2>2. \A i \in TeamId : IsTeam(teams'[i]) => teams'[i].id = i
    BY <1>4, NewTeamIs DEF CreateWrites, TeamsOK, ArchiveOrder
  <2> QED BY <2>1, <2>2, ArchiveQuiet
<1>5. ASSUME NEW c \in LifeCall, AddWrites(c) \/ DeleteMarks(c)
      PROVE  ArchiveOrder'
  <2>1. Fresh(c)
    BY <1>5 DEF AddWrites, DeleteMarks, Sections, Relying
  <2>2. OtherTeams(calls[c].id) /\ SameTeam(calls[c].id)
    BY <1>5, <2>1, AddWritesIs, DeleteMarksIs
  <2>3. Others(c) /\ calls[c].at # "moving" /\ calls'[c].at \notin {"moving", "cleaning"}
    BY <1>5, <2>1, DeleteMarksIs, Returned DEF AddWrites, DeleteMarks
  <2>4. UNCHANGED <<archive, hidden, last, broken>>
    BY <1>5 DEF AddWrites, DeleteMarks, Marks
  <2> QED BY <2>1, <2>2, <2>3, <2>4, ArchiveQuiet DEF ArchiveOrder, OtherTeams, SameTeam, Fresh
<1>6. ASSUME NEW c \in LifeCall, RemoveRetires(c) \/ DeleteRetires(c) \/ EndFails(c)
      PROVE  ArchiveOrder'
  <2>1. /\ Others(c) /\ calls[c].at # "moving" /\ calls'[c].at \notin {"moving", "cleaning"}
        /\ UNCHANGED <<archive, hidden, last, broken, teams>>
    BY <1>6, Moved, Returned DEF RemoveRetires, DeleteRetires, EndFails, CallPlace, Disk, Marks
  <2> QED BY <2>1, ArchiveQuiet DEF ArchiveOrder
<1>7. ASSUME NEW c \in LifeCall, WriteFails(c)
      PROVE  ArchiveOrder'
  <2>1. /\ Others(c) /\ calls[c].at # "moving" /\ calls'[c].at \notin {"moving", "cleaning"}
        /\ UNCHANGED <<archive, hidden, last, broken>>
    BY <1>7, Returned DEF WriteFails, Writing, Marks
  <2>2. CASE UNCHANGED teams
    BY <2>1, <2>2, ArchiveQuiet DEF ArchiveOrder
  <2>3. CASE Tears(c)
    BY <2>1, <2>3, TearsIs, ArchiveQuiet DEF ArchiveOrder, OtherTeams, SameTeam
  <2> QED BY <1>7, <2>2, <2>3 DEF WriteFails
<1>8. CASE RestartHarness
  <2>1. \A i \in TeamId : IsTeam(teams'[i]) => teams'[i].id = i
    BY <1>8, TearsIs DEF RestartHarness, ArchiveOrder, OtherTeams, SameTeam
  <2>2. /\ \A c \in LifeCall : calls'[c].at = "none"
        /\ broken' = TRUE /\ UNCHANGED <<archive, hidden, last>>
    BY <1>8 DEF RestartHarness, NoCall
  <2>3. ArchiveSurvives'
    BY <2>2 DEF ArchiveOrder, ArchiveSurvives
  <2> QED BY <2>1, <2>2, <2>3 DEF ArchiveOrder
<1>9. CASE UNCHANGED lifeVars
  BY <1>9 DEF lifeVars, ArchiveOrder, ArchiveSurvives, Holder
<1>10. ASSUME NEW c \in LifeCall, Displace(c)
       PROVE  ArchiveOrder'
  <2>1. CASE ~Fresh(c)
    <3>1. /\ Others(c) /\ calls[c].at # "moving" /\ calls'[c].at \notin {"moving", "cleaning"}
      BY <1>10, <2>1, Returned DEF Displace
    <3>2. UNCHANGED <<archive, hidden, last, broken, teams>>
      BY <1>10, <2>1 DEF Displace, Marks
    <3> QED BY <3>1, <3>2, ArchiveQuiet DEF ArchiveOrder
  <2>2. CASE Fresh(c)
    <3> PICK i : i = calls[c].id
      OBVIOUS
    <3>1. archive \in [TeamId -> TeamRecord \cup {NoTeam}]
      BY DEF LifeTypeOK
    <3>2. /\ Others(c) /\ calls'[c].at = "moving" /\ calls'[c].id = i
          /\ calls'[c].old = archive[i] /\ i \in TeamId
      BY <1>10, <2>2, <3>1, DisplaceIs
    <3>3. /\ archive' = [archive EXCEPT ![i] = NoTeam]
          /\ hidden' = hidden \cup ({archive[i]} \ {NoTeam})
          /\ UNCHANGED <<last, broken, teams>> /\ Holder(i) = {} /\ calls[c].at = "ending"
      BY <1>10, <2>2 DEF Displace, Marks, Unheld
    <3>4. /\ archive'[i] = NoTeam /\ ~IsTeam(NoTeam)
          /\ \A j \in TeamId \ {i} : archive'[j] = archive[j]
      BY <3>1, <3>2, <3>3, TeamIs
    <3>5. IsTeam(archive[i]) => /\ archive[i] \in hidden' /\ archive[i].id = i
                                /\ archive[i].number = last[i]
      BY <3>2, <3>3, <3>4 DEF ArchiveOrder
    <3>6. ~IsTeam(archive[i]) /\ last[i] # 0 =>
            broken /\ \E team \in hidden : team.id = i /\ team.number = last[i]
      BY <3>2, <3>3 DEF ArchiveOrder, ArchiveSurvives
    <3>7. c \in Holder(i)'
      BY <3>2 DEF Holder, Locking
    <3>8. \A d \in LifeCall \ {c} : /\ calls'[d] = calls[d]
                                    /\ calls[d].at \in {"moving", "cleaning"} =>
                                         calls[d].id # i /\ calls[d].id \in TeamId
      BY <3>2, <3>3, CallTyped, LifeTyped DEF Others, Holder, Locking
    <3>9. ArchiveSurvives'
      <4> SUFFICES ASSUME NEW j \in TeamId, last[j] # 0,
                          ~(IsTeam(archive'[j]) /\ archive'[j].number = last[j])
                   PROVE  /\ \E team \in hidden' : team.id = j /\ team.number = last[j]
                          /\ broken \/ \E d \in Holder(j)' : calls'[d].at = "moving"
        BY <3>3 DEF ArchiveSurvives
      <4>1. CASE j = i
        BY <4>1, <3>2, <3>3, <3>5, <3>6, <3>7
      <4>2. CASE j # i
        <5>1. /\ \E team \in hidden : team.id = j /\ team.number = last[j]
              /\ broken \/ \E d \in Holder(j) : calls[d].at = "moving"
          BY <4>2, <3>4 DEF ArchiveOrder, ArchiveSurvives
        <5>2. \A d \in Holder(j) : calls[d].at = "moving" => d \in Holder(j)' /\ calls'[d].at = "moving"
          BY <3>3, <3>8 DEF Holder
        <5> QED BY <3>3, <5>1, <5>2
      <4> QED BY <4>1, <4>2
    <3> QED BY <3>2, <3>3, <3>4, <3>5, <3>6, <3>8, <3>9 DEF ArchiveOrder
  <2> QED BY <2>1, <2>2
<1>11. ASSUME NEW c \in LifeCall, calls[c].at \in {"moving", "cleaning"},
              NEW d \in LifeCall \ {c}, calls[d].at \in {"moving", "cleaning"}
       PROVE  /\ calls[d].id # calls[c].id /\ calls[d].id \in TeamId
              /\ calls[c].id \in TeamId
  BY <1>11, CallTyped, LifeTyped DEF Sections, Locking
<1>12. ASSUME NEW c \in LifeCall, MoveIn(c)
       PROVE  ArchiveOrder'
  <2> PICK i : i = calls[c].id
    OBVIOUS
  <2>1. calls[c].at = "moving" /\ i \in TeamId /\ Fresh(c)
    BY <1>12, CallTyped, LifeTyped DEF MoveIn, Sections, Relying
  <2>2. /\ Others(c) /\ calls'[c].at = "cleaning" /\ calls'[c].id = i
        /\ calls'[c].old = calls[c].old
    BY <1>12, Moved DEF MoveIn, CallPlace
  <2>3. /\ archive' = [archive EXCEPT ![i] = teams[i]] /\ teams' = [teams EXCEPT ![i] = NoTeam]
        /\ last' = [last EXCEPT ![i] = teams[i].number] /\ UNCHANGED <<hidden, broken>>
    BY <1>12 DEF MoveIn
  <2>4. \A d \in LifeCall \ {c} : calls[d].at \in {"moving", "cleaning"} =>
          calls[d].id # i /\ calls[d].id \in TeamId
    BY <1>11, <2>1
  <2>5. /\ archive'[i] = teams[i] /\ last'[i] = teams[i].number /\ IsTeam(teams[i])
        /\ ~IsTeam(teams'[i])
        /\ \A j \in TeamId \ {i} :
             archive'[j] = archive[j] /\ last'[j] = last[j] /\ teams'[j] = teams[j]
    BY <2>1, <2>3, TeamIs DEF LifeTypeOK, Fresh
  <2>only. DisturbsOnly(c, i)
    BY <2>1, <2>2, <2>3, <2>5 DEF DisturbsOnly
  <2>6. ArchiveSurvives'
    BY <2>1, <2>only, ArchiveDisturbed
  <2> QED BY <2>1, <2>2, <2>3, <2>4, <2>5, <2>6 DEF ArchiveOrder, Others
<1>13. ASSUME NEW c \in LifeCall, MoveFails(c)
       PROVE  ArchiveOrder'
  <2> PICK i : i = calls[c].id
    OBVIOUS
  <2>1. calls[c].at = "moving" /\ i \in TeamId /\ calls[c].old \in TeamRecord \cup {NoTeam}
    BY <1>13, CallTyped, LifeTyped DEF MoveFails
  <2>2. Others(c) /\ calls'[c].at = "none" /\ UNCHANGED <<teams, last>>
    BY <1>13, Returned DEF MoveFails
  <2>3. \A d \in LifeCall \ {c} : calls[d].at \in {"moving", "cleaning"} =>
          calls[d].id # i /\ calls[d].id \in TeamId
    BY <1>11, <2>1
  <2>4. /\ ~IsTeam(archive[i])
        /\ IsTeam(calls[c].old) => /\ calls[c].old \in hidden /\ calls[c].old.id = i
                                   /\ calls[c].old.number = last[i]
        /\ ~IsTeam(calls[c].old) /\ last[i] # 0 => broken
    BY <2>1 DEF ArchiveOrder
  <2>5. ~IsTeam(calls[c].old) /\ last[i] # 0 =>
          \E team \in hidden : team.id = i /\ team.number = last[i]
    BY <2>1, <2>4 DEF ArchiveOrder, ArchiveSurvives
  <2>6. CASE Restores(c)
    <3>1. /\ archive'[i] = calls[c].old /\ hidden' = hidden \ {calls[c].old} /\ broken' = broken
          /\ \A j \in TeamId \ {i} : archive'[j] = archive[j]
      BY <2>1, <2>6 DEF Restores, LifeTypeOK
    <3>2. ~IsTeam(calls[c].old) => hidden' = hidden
      BY <2>1, <3>1, TeamIs DEF LifeTypeOK
    <3>3. \A team \in hidden : team \in hidden' \/ team.id = i
      BY <2>4, <3>1, <3>2
    <3>only. DisturbsOnly(c, i)
      BY <2>1, <2>2, <2>4, <2>5, <3>1, <3>2, <3>3 DEF DisturbsOnly
    <3>4. ArchiveSurvives'
      BY <2>1, <3>only, ArchiveDisturbed
    <3>5. \A d \in LifeCall \ {c} : calls[d].at = "moving" /\ IsTeam(calls[d].old) =>
            calls[d].old \in hidden'
      BY <2>3, <3>3 DEF ArchiveOrder
    <3> QED BY <2>2, <2>3, <2>4, <3>1, <3>4, <3>5 DEF ArchiveOrder, Others
  <2>7. CASE calls[c].old # NoTeam /\ broken' = TRUE /\ UNCHANGED <<archive, hidden>>
    <3>1. IsTeam(calls[c].old)
      BY <2>7 DEF IsTeam
    <3>only. DisturbsOnly(c, i)
      BY <2>1, <2>2, <2>4, <2>7, <3>1 DEF DisturbsOnly
    <3>2. ArchiveSurvives'
      BY <2>1, <3>only, ArchiveDisturbed
    <3> QED BY <2>2, <2>3, <2>7, <3>2 DEF ArchiveOrder, Others
  <2> QED BY <1>13, <2>6, <2>7 DEF MoveFails
<1>14. ASSUME NEW c \in LifeCall, CleansUp(c)
       PROVE  ArchiveOrder'
  <2> PICK i : i = calls[c].id
    OBVIOUS
  <2>1. calls[c].at = "cleaning" /\ i \in TeamId /\ calls[c].old \in TeamRecord \cup {NoTeam}
    BY <1>14, CallTyped, LifeTyped DEF CleansUp
  <2>2. /\ Others(c) /\ calls'[c].at = "none" /\ UNCHANGED <<teams, last, archive, broken>>
        /\ hidden' \in {hidden, hidden \ {calls[c].old}}
    BY <1>14, Returned DEF CleansUp, Marks
  <2>3. \A d \in LifeCall \ {c} : calls[d].at \in {"moving", "cleaning"} =>
          calls[d].id # i /\ calls[d].id \in TeamId
    BY <1>11, <2>1
  <2>4. IsTeam(archive[i]) /\ archive[i].number = last[i] /\ (IsTeam(calls[c].old) => calls[c].old.id = i)
    BY <2>1 DEF ArchiveOrder
  <2>5. \A team \in hidden : team \in hidden' \/ team.id = i
    BY <2>1, <2>2, <2>4, TeamIs DEF LifeTypeOK
  <2>only. DisturbsOnly(c, i)
    BY <2>1, <2>2, <2>4, <2>5 DEF DisturbsOnly
  <2>6. ArchiveSurvives'
    BY <2>1, <2>only, ArchiveDisturbed
  <2>7. \A d \in LifeCall \ {c} : calls[d].at = "moving" /\ IsTeam(calls[d].old) =>
          calls[d].old \in hidden'
    BY <2>3, <2>5 DEF ArchiveOrder
  <2> QED BY <2>2, <2>3, <2>6, <2>7 DEF ArchiveOrder, Others
<1> QED BY <1>1, <1>2, <1>3, <1>4, <1>5, <1>6, <1>7, <1>8, <1>9, <1>10, <1>12, <1>13, <1>14
        DEF LifeNext

-----------------------------------------------------------------------------
(* Retirement: a captain that does one thing at a time archives a team     *)
(* after all of its members were denied their sessions.                    *)

Emptied(team, ids) == team.members = {} /\ team.removed \subseteq ids

EndingRight(c) ==
  /\ calls[c].at = "retiring" => Fresh(c) /\ Emptied(teams[calls[c].id], calls[c].kids)
  /\ calls[c].at \in {"ending", "moving"} => Fresh(c) /\ Emptied(teams[calls[c].id], deny)

Tidy ==
  /\ \A i \in TeamId : IsTeam(archive[i]) => Emptied(archive[i], deny)
  /\ \A team \in hidden : Emptied(team, deny)

OneCallEach ==
  \A c, d \in LifeCall :
    c # d /\ calls[c].at # "none" /\ calls[d].at # "none" => calls[c].by # calls[d].by

Retirement == ~overlap => OneCallEach /\ (\A c \in LifeCall : EndingRight(c)) /\ Tidy

\* What a call may do without disturbing the deletions of others.
LeavesOthers(c) ==
  /\ Others(c) /\ deny \subseteq deny' /\ UNCHANGED overlap
  /\ \A d \in LifeCall \ {c} : calls[d].at # "none" /\ calls'[c].at # "none" =>
       calls[d].by # calls'[c].by
  /\ \A d \in LifeCall \ {c} : calls[d].at \in {"retiring", "ending", "moving"} =>
       teams'[calls[d].id] = teams[calls[d].id]

LEMMA RetirementKept ==
  ASSUME Retirement, ~overlap, NEW c \in LifeCall, LeavesOthers(c), EndingRight(c)', Tidy'
  PROVE  Retirement'
<1>1. OneCallEach'
  BY DEF Retirement, OneCallEach, LeavesOthers, Others
<1>2. ASSUME NEW d \in LifeCall \ {c}
      PROVE  EndingRight(d)'
  <2>1. EndingRight(d) /\ calls'[d] = calls[d]
    BY DEF Retirement, LeavesOthers, Others
  <2> QED BY <2>1 DEF EndingRight, Fresh, Emptied, LeavesOthers
<1> QED BY <1>1, <1>2 DEF Retirement

LEMMA TidyKept ==
  ASSUME Tidy, UNCHANGED archive, hidden' \subseteq hidden, deny \subseteq deny'
  PROVE  Tidy'
BY DEF Tidy, Emptied

\* The team a call writes is its captain's or nobody's, so not one of another
\* captain that is being deleted.
LEMMA OthersTeams ==
  ASSUME Retirement, ~overlap, CallsOK, NEW c \in LifeCall, NEW s, NEW i \in TeamId, OtherTeams(i),
         IsTeam(teams[i]) => teams[i].lead = s,
         \A d \in LifeCall \ {c} : calls[d].at # "none" => calls[d].by # s
  PROVE  \A d \in LifeCall \ {c} : calls[d].at \in {"retiring", "ending", "moving"} =>
           teams'[calls[d].id] = teams[calls[d].id]
<1> SUFFICES ASSUME NEW d \in LifeCall \ {c}, calls[d].at \in {"retiring", "ending", "moving"}
             PROVE  teams'[calls[d].id] = teams[calls[d].id]
  OBVIOUS
<1>1. calls[d].id \in TeamId /\ calls[d].by # s
  BY CallTyped, LifeTyped
<1>2. IsTeam(teams[calls[d].id]) /\ teams[calls[d].id].lead = calls[d].by
  BY DEF Retirement, EndingRight, Fresh
<1> QED BY <1>1, <1>2 DEF OtherTeams

\* Every step keeps archived members retired.
LEMMA StepRetirement ==
  ASSUME LifeTypeOK, Sections, ArchiveOrder, Retirement, [LifeNext]_lifeVars
  PROVE  Retirement'
<1> USE TypesGive
<1>0. UNCHANGED overlap
  BY DEF LifeNext, CreateScan, AddFinds, DeleteFinds, RemoveMarks, CreateLooks, CreateWrites,
         AddSpawns, AddWrites, RemoveRetires, DeleteLocks, DeleteMarks, DeleteRetires, Displace,
         MoveIn, MoveFails, CleansUp, WriteFails, EndFails, RestartHarness, Marks, lifeVars
<1> SUFFICES ASSUME ~overlap PROVE Retirement'
  BY <1>0 DEF Retirement
<1>alone. Tidy /\ \A c, d \in LifeCall :
        c # d /\ calls[c].at # "none" /\ calls[d].at # "none" => calls[c].by # calls[d].by
  BY DEF Retirement, OneCallEach
<1>1. ASSUME NEW c \in LifeCall, NEW s \in Lead, NEW i \in TeamId,
             CreateScan(c, s, i) \/ AddFinds(c, s, i) \/ DeleteFinds(c, s, i)
      PROVE  Retirement'
  <2>1. /\ Others(c) /\ calls'[c].by = s /\ calls'[c].at \in {"scanned", "adding", "deleting"}
        /\ \A d \in LifeCall : calls[d] # NoCall => calls[d].by # s
        /\ UNCHANGED <<archive, hidden, deny, teams>>
    BY <1>1, Begun DEF CreateScan, AddFinds, DeleteFinds, CallPlace, Disk
  <2>2. LeavesOthers(c) /\ EndingRight(c)' /\ Tidy'
    BY <1>0, <1>alone, <2>1, TidyKept, CallTyped DEF LeavesOthers, EndingRight
  <2> QED BY <2>2, RetirementKept
<1>2. ASSUME NEW c \in LifeCall, NEW s \in Lead, NEW i \in TeamId, RemoveMarks(c, s, i)
      PROVE  Retirement'
  <2> PICK k \in teams[i].members : Begins(c, s, i, "dismissing", {k})
    BY <1>2 DEF RemoveMarks
  <2>1. OtherTeams(i) /\ IsTeam(teams[i]) /\ teams[i].lead = s
    BY <1>2, RemoveMarksIs
  <2>2. {k} \in SUBSET Recruit
    BY <2>1, TeamIs DEF TeamsOK
  <2>3. /\ Others(c) /\ calls'[c].by = s /\ calls'[c].at = "dismissing"
        /\ \A d \in LifeCall : calls[d] # NoCall => calls[d].by # s
    BY <2>2, Begun DEF CallPlace
  <2>4. UNCHANGED <<archive, hidden, deny>>
    BY <1>2 DEF RemoveMarks
  <2>5. \A d \in LifeCall : calls[d].at # "none" => calls[d].by # s
    BY <2>3, CallTyped
  <2>6. LeavesOthers(c) /\ EndingRight(c)' /\ Tidy'
    BY <1>0, <1>alone, <2>1, <2>3, <2>4, <2>5, TidyKept, OthersTeams DEF LeavesOthers, EndingRight
  <2> QED BY <2>6, RetirementKept
<1>3. ASSUME NEW c \in LifeCall, CreateLooks(c) \/ DeleteLocks(c) \/ AddSpawns(c)
      PROVE  Retirement'
  <2>1. /\ Others(c) /\ calls'[c].at \in {"none", "making", "marking", "joining"}
        /\ calls[c].at # "none"
        /\ calls'[c].at # "none" => calls'[c].by = calls[c].by
    BY <1>3, Moved, Returned, SpawnsIs DEF CreateLooks, DeleteLocks, AddSpawns, CallPlace
  <2>2. UNCHANGED <<archive, hidden, deny, teams>>
    BY <1>3 DEF CreateLooks, DeleteLocks, AddSpawns, Disk
  <2>3. LeavesOthers(c) /\ EndingRight(c)' /\ Tidy'
    BY <1>0, <1>alone, <2>1, <2>2, TidyKept DEF LeavesOthers, EndingRight
  <2> QED BY <2>3, RetirementKept
<1>4. ASSUME NEW c \in LifeCall, CreateWrites(c) \/ AddWrites(c)
      PROVE  Retirement'
  <2>1. /\ calls[c].id \in TeamId /\ calls[c].at # "none"
        /\ IsTeam(teams[calls[c].id]) => Fresh(c) /\ AddWrites(c)
    BY <1>4, CallTyped, LifeTyped DEF CreateWrites, AddWrites, Sections, Relying
  <2>2. OtherTeams(calls[c].id)
    BY <1>4, <2>1 DEF CreateWrites, AddWrites, OtherTeams, TeamsOK
  <2>3. Others(c) /\ calls'[c].at = "none" /\ UNCHANGED <<archive, hidden, deny>>
    BY <1>4, Returned DEF CreateWrites, AddWrites
  <2>4. \A d \in LifeCall \ {c} : calls[d].at # "none" => calls[d].by # calls[c].by
    BY <1>alone, <2>1
  <2>5. LeavesOthers(c) /\ EndingRight(c)' /\ Tidy'
    BY <1>0, <1>alone, <2>1, <2>2, <2>3, <2>4, TidyKept, OthersTeams DEF LeavesOthers, EndingRight, Fresh
  <2> QED BY <2>5, RetirementKept
<1>5. ASSUME NEW c \in LifeCall, DeleteMarks(c)
      PROVE  Retirement'
  <2>1. calls[c].id \in TeamId /\ calls[c].at = "marking" /\ Fresh(c)
    BY <1>5, CallTyped, LifeTyped DEF DeleteMarks, Sections, Relying
  <2>2. /\ Others(c) /\ OtherTeams(calls[c].id) /\ SameTeam(calls[c].id)
        /\ teams'[calls[c].id].torn = teams[calls[c].id].torn
        /\ Emptied(teams'[calls[c].id], calls'[c].kids)
        /\ calls'[c].at = "retiring" /\ calls'[c].by = calls[c].by
        /\ calls'[c].id = calls[c].id
    BY <1>5, <2>1, DeleteMarksIs DEF Emptied
  <2>3. UNCHANGED <<archive, hidden, deny>>
    BY <1>5 DEF DeleteMarks
  <2>4. \A d \in LifeCall \ {c} : calls[d].at # "none" => calls[d].by # calls[c].by
    BY <1>alone, <2>1
  <2>5. LeavesOthers(c)
    BY <1>0, <2>1, <2>2, <2>3, <2>4, OthersTeams DEF LeavesOthers, Fresh
  <2>6. EndingRight(c)' /\ Tidy'
    BY <1>alone, <2>1, <2>2, <2>3, TidyKept DEF EndingRight, Fresh, SameTeam
  <2> QED BY <2>5, <2>6, RetirementKept
<1>6. ASSUME NEW c \in LifeCall, RemoveRetires(c) \/ EndFails(c) \/ CleansUp(c)
      PROVE  Retirement'
  <2>1. /\ Others(c) /\ calls'[c].at = "none" /\ UNCHANGED <<archive, teams>>
        /\ deny \subseteq deny' /\ hidden' \subseteq hidden
    BY <1>6, Returned DEF RemoveRetires, EndFails, CleansUp, Disk
  <2>2. LeavesOthers(c) /\ EndingRight(c)' /\ Tidy'
    BY <1>0, <1>alone, <2>1, TidyKept DEF LeavesOthers, EndingRight
  <2> QED BY <2>2, RetirementKept
<1>7. ASSUME NEW c \in LifeCall, DeleteRetires(c)
      PROVE  Retirement'
  <2>1. /\ Others(c) /\ calls'[c].at = "ending" /\ calls[c].at = "retiring"
        /\ calls'[c].by = calls[c].by /\ calls'[c].id = calls[c].id
        /\ UNCHANGED <<archive, teams, hidden>> /\ deny' = deny \cup calls[c].kids
    BY <1>7, Moved DEF DeleteRetires, CallPlace
  <2>2. LeavesOthers(c) /\ Tidy'
    BY <1>0, <1>alone, <2>1, TidyKept DEF LeavesOthers
  <2>3. EndingRight(c)'
    BY <2>1 DEF Retirement, EndingRight, Fresh, Emptied
  <2> QED BY <2>2, <2>3, RetirementKept
<1>8. ASSUME NEW c \in LifeCall, Displace(c)
      PROVE  Retirement'
  <2>1. CASE ~Fresh(c)
    <3>1. /\ Others(c) /\ calls'[c].at = "none"
          /\ UNCHANGED <<archive, teams, hidden, deny>>
      BY <1>8, <2>1, Returned DEF Displace
    <3>2. LeavesOthers(c) /\ EndingRight(c)' /\ Tidy'
      BY <1>0, <1>alone, <3>1, TidyKept DEF LeavesOthers, EndingRight
    <3> QED BY <3>2, RetirementKept
  <2>2. CASE Fresh(c)
    <3>1. archive \in [TeamId -> TeamRecord \cup {NoTeam}]
      BY DEF LifeTypeOK
    <3>2. /\ Others(c) /\ calls'[c].at = "moving" /\ calls'[c].by = calls[c].by
          /\ calls'[c].id = calls[c].id /\ calls[c].id \in TeamId
      BY <1>8, <2>2, <3>1, DisplaceIs
    <3>3. /\ archive' = [archive EXCEPT ![calls[c].id] = NoTeam] /\ calls[c].at = "ending"
          /\ hidden' = hidden \cup ({archive[calls[c].id]} \ {NoTeam})
          /\ UNCHANGED <<teams, deny>>
      BY <1>8, <2>2 DEF Displace
    <3>4. LeavesOthers(c) /\ EndingRight(c)'
      BY <1>0, <1>alone, <3>2, <3>3 DEF LeavesOthers, Retirement, EndingRight, Fresh
    <3>5. \A i \in TeamId : IsTeam(archive'[i]) => archive'[i] = archive[i]
      BY <3>1, <3>2, <3>3, TeamIs
    <3>6. \A team \in hidden' : team \in hidden \/ (team = archive[calls[c].id] /\ IsTeam(team))
      BY <3>3 DEF IsTeam
    <3>7. Tidy'
      BY <1>alone, <3>2, <3>3, <3>5, <3>6 DEF Tidy
    <3> QED BY <3>4, <3>7, RetirementKept
  <2> QED BY <2>1, <2>2
<1>9. ASSUME NEW c \in LifeCall, MoveIn(c)
      PROVE  Retirement'
  <2>1. /\ calls[c].id \in TeamId /\ calls[c].at = "moving" /\ Fresh(c)
        /\ Emptied(teams[calls[c].id], deny)
    BY <1>9, CallTyped, LifeTyped DEF MoveIn, Retirement, EndingRight
  <2>2. /\ Others(c) /\ calls'[c].at = "cleaning" /\ calls'[c].by = calls[c].by
    BY <1>9, Moved DEF MoveIn, CallPlace
  <2>3. /\ archive' = [archive EXCEPT ![calls[c].id] = teams[calls[c].id]]
        /\ OtherTeams(calls[c].id) /\ UNCHANGED <<hidden, deny>>
    BY <1>9, <2>1 DEF MoveIn, OtherTeams, TeamsOK
  <2>4. \A d \in LifeCall \ {c} : calls[d].at # "none" => calls[d].by # calls[c].by
    BY <1>alone, <2>1
  <2>5. LeavesOthers(c) /\ EndingRight(c)'
    BY <1>0, <2>1, <2>2, <2>3, <2>4, OthersTeams DEF LeavesOthers, EndingRight, Fresh
  <2>6. \A i \in TeamId : archive'[i] = archive[i] \/ archive'[i] = teams[calls[c].id]
    BY <2>1, <2>3 DEF LifeTypeOK
  <2>7. Tidy'
    BY <1>alone, <2>1, <2>3, <2>6 DEF Tidy
  <2> QED BY <2>5, <2>7, RetirementKept
<1>10. ASSUME NEW c \in LifeCall, MoveFails(c)
       PROVE  Retirement'
  <2>1. /\ calls[c].id \in TeamId /\ calls[c].at = "moving"
        /\ IsTeam(calls[c].old) => calls[c].old \in hidden
    BY <1>10, CallTyped, LifeTyped DEF MoveFails, ArchiveOrder
  <2>2. Others(c) /\ calls'[c].at = "none" /\ UNCHANGED <<teams, deny>>
    BY <1>10, Returned DEF MoveFails
  <2>3. /\ hidden' \subseteq hidden
        /\ \A i \in TeamId : archive'[i] = archive[i] \/ archive'[i] = calls[c].old
    BY <1>10, <2>1 DEF MoveFails, Restores, LifeTypeOK
  <2>4. LeavesOthers(c) /\ EndingRight(c)'
    BY <1>0, <2>2 DEF LeavesOthers, EndingRight
  <2>5. Tidy'
    BY <1>alone, <2>1, <2>2, <2>3 DEF Tidy
  <2> QED BY <2>4, <2>5, RetirementKept
<1>11. ASSUME NEW c \in LifeCall, WriteFails(c)
       PROVE  Retirement'
  <2>1. /\ calls[c].id \in TeamId /\ calls[c].at # "none"
        /\ IsTeam(teams[calls[c].id]) => Fresh(c)
    BY <1>11, CallTyped, LifeTyped DEF WriteFails, Writing, Sections, Relying
  <2>2. OtherTeams(calls[c].id)
    BY <1>11, TearsIs DEF WriteFails, OtherTeams
  <2>3. Others(c) /\ calls'[c].at = "none" /\ UNCHANGED <<archive, hidden>> /\ deny \subseteq deny'
    BY <1>11, Returned DEF WriteFails
  <2>4. \A d \in LifeCall \ {c} : calls[d].at # "none" => calls[d].by # calls[c].by
    BY <1>alone, <2>1
  <2>5. LeavesOthers(c) /\ EndingRight(c)' /\ Tidy'
    BY <1>0, <1>alone, <2>1, <2>2, <2>3, <2>4, TidyKept, OthersTeams DEF LeavesOthers, EndingRight, Fresh
  <2> QED BY <2>5, RetirementKept
<1>12. CASE RestartHarness
  <2>1. (\A c \in LifeCall : calls'[c].at = "none") /\ UNCHANGED <<archive, hidden, deny>>
    BY <1>12 DEF RestartHarness, NoCall
  <2> QED BY <1>alone, <2>1, TidyKept DEF Retirement, OneCallEach, EndingRight
<1>13. CASE UNCHANGED lifeVars
  BY <1>13 DEF lifeVars, Retirement, OneCallEach, EndingRight, Fresh, Tidy
<1> QED BY <1>1, <1>2, <1>3, <1>4, <1>5, <1>6, <1>7, <1>8, <1>9, <1>10, <1>11, <1>12, <1>13
        DEF LifeNext

-----------------------------------------------------------------------------
LifeInductive == LifeTypeOK /\ Sections /\ ArchiveOrder /\ Retirement

LEMMA LifeInitIs == LifeInit => LifeInductive
<1> SUFFICES ASSUME LifeInit PROVE LifeInductive
  OBVIOUS
<1>1. LifeTypeOK
  BY DEF LifeInit, LifeTypeOK
<1>2. /\ \A i \in TeamId : ~IsTeam(teams[i]) /\ ~IsTeam(archive[i]) /\ last[i] = 0
      /\ \A c \in LifeCall : calls[c].at = "none"
      /\ hidden = {}
  BY DEF LifeInit, IsTeam, NoCall
<1>3. Sections
  BY <1>2 DEF Sections, OneTeamEach, Creating, Relying, Locking, Writing
<1>4. ArchiveOrder
  BY <1>2 DEF ArchiveOrder, ArchiveSurvives
<1>5. Retirement
  BY <1>2 DEF Retirement, OneCallEach, EndingRight, Tidy
<1> QED BY <1>1, <1>3, <1>4, <1>5 DEF LifeInductive

\* The inductive invariant of the life cycle: types, sections, the archive, and
\* the deletions of captains that do one thing at a time.
THEOREM LifeInductiveHolds == LifeSpec => []LifeInductive
<1>1. LifeInductive /\ [LifeNext]_lifeVars => LifeInductive'
  BY StepLifeTypeOK, StepSections, StepArchive, StepRetirement DEF LifeInductive
<1> QED BY <1>1, LifeInitIs, PTL DEF LifeSpec

\* tools.ts:257-264: however calls to create, delete and change teams race and
\* fail, no captain ever leads two teams.
THEOREM CaptainsLeadOneTeam == LifeSpec => []OneTeamEach
<1>1. LifeInductive => OneTeamEach
  BY DEF LifeInductive, Sections
<1> QED BY <1>1, LifeInductiveHolds, PTL

\* state.ts:761-801: wherever a rename fails or the process ends, what was
\* archived last is on disk.
THEOREM ArchivesSurvive == LifeSpec => []ArchiveSurvives
<1>1. LifeInductive => ArchiveSurvives
  BY DEF LifeInductive, ArchiveOrder
<1> QED BY <1>1, LifeInductiveHolds, PTL

\* tools.ts:1064-1077: under a captain that does one thing at a time, no member
\* of an archived team can be woken again.
THEOREM ArchivedMembersAreRetired == LifeSpec => []ArchivedAreRetired
<1>1. LifeInductive => ArchivedAreRetired
  BY DEF LifeInductive, Retirement, Tidy, Emptied, ArchivedAreRetired
<1> QED BY <1>1, LifeInductiveHolds, PTL
=============================================================================
