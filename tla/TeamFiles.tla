----------------------------- MODULE TeamFiles ------------------------------
(***************************************************************************)
(* The life cycle of the teams under one state root (plugin/src/tools.ts,  *)
(* state.ts): captains create teams, add members and delete teams; deleted *)
(* ones move to the archive, where an earlier team of the same name is     *)
(* displaced. Tools hold a team's lock for a section at a time; creating   *)
(* one also holds the lock of its captain. Renames and writes may fail, and*)
(* the process may be restarted between any two of them. What members do   *)
(* while the team lives is TeamTasks.                                      *)
(***************************************************************************)
EXTENDS Naturals, FiniteSets

CONSTANTS
  Lead,        \* sessions that may lead; members are denied the tools
  TeamId,      \* names of teams, as directory names
  Archive,     \* the name that the archive has under the state root
  Recruit,     \* sessions that may be spawned as members
  LifeCall,    \* tool calls in flight
  MaxTeams,    \* bound: teams created
  MaxTroubles  \* bound: failures and restarts

VARIABLES
  overlap,  \* a captain may have several calls in flight
  teams,    \* <id>/team.json
  archive,  \* archive/<id>
  hidden,   \* archive/.<id>.previous-...: teams displaced and not removed
  deny,     \* retired-members.json
  spawned,  \* sessions spawned so far
  calls,    \* where each call is
  made,     \* teams created so far
  troubles, \* failures and restarts so far
  broken,   \* history: a restart, or a restoration that failed
  last      \* history: of each name, the team archived last

lifeVars ==
  <<overlap, teams, archive, hidden, deny, spawned, calls, made, troubles, broken, last>>

\* Teams are numbered as they are created. A record that a restart left half
\* written is torn: every tool that reads it throws.
TeamRecord ==
  [number : Nat \ {0}, id : TeamId, lead : Lead, torn : BOOLEAN,
   members : SUBSET Recruit, removed : SUBSET Recruit]
NoTeam == [number |-> 0]
IsTeam(dir) == dir # NoTeam

CallPlace == {"none", "scanned", "making", "adding", "joining",
              "dismissing", "deleting", "marking", "retiring", "ending",
              "moving", "cleaning"}

\* id: the team's directory; kids: the member to add, or those to retire;
\* old: the displaced archive.
Life == [at : CallPlace, by : Lead, id : TeamId, kids : SUBSET Recruit,
         old : TeamRecord \cup {NoTeam}]
NoCall == [at |-> "none"]

LifeInit ==
  /\ overlap \in BOOLEAN
  /\ teams = [i \in TeamId |-> NoTeam]
  /\ archive = [i \in TeamId |-> NoTeam]
  /\ hidden = {} /\ deny = {} /\ spawned = {}
  /\ calls = [c \in LifeCall |-> NoCall]
  /\ made = 0 /\ troubles = 0 /\ broken = FALSE
  /\ last = [i \in TeamId |-> 0]

-----------------------------------------------------------------------------
\* withTeamLock: who holds the lock of a team, and of a captain who creates.
Writing == {"making", "joining", "marking"}
Locking == Writing \cup {"moving", "cleaning"}
Holder(i) == {c \in LifeCall : calls[c].at \in Locking /\ calls[c].id = i}
Creators(s) == {c \in LifeCall : calls[c].at \in {"scanned", "making"} /\ calls[c].by = s}
Unheld(i) == Holder(i) = {}

\* findTeamByCaptain, findTeamByParticipant: every record is read, a torn one
\* ends the search with an error.
Led(s) == {i \in TeamId : IsTeam(teams[i]) /\ teams[i].lead = s}
Readable == \A i \in TeamId : IsTeam(teams[i]) => ~teams[i].torn

\* requireFreshCaptainTeam
Fresh(c) ==
  LET team == teams[calls[c].id]
  IN  IsTeam(team) /\ ~team.torn /\ team.lead = calls[c].by

Goes(c, call) == calls' = [calls EXCEPT ![c] = call]
At(c, place) == Goes(c, [calls[c] EXCEPT !.at = place])
Returns(c) == Goes(c, NoCall)

Begins(c, s, i, place, kids) ==
  /\ calls[c] = NoCall
  /\ overlap \/ \A d \in LifeCall : calls[d] # NoCall => calls[d].by # s
  /\ Goes(c, [at |-> place, by |-> s, id |-> i, kids |-> kids, old |-> NoTeam])

Trouble == troubles < MaxTroubles /\ troubles' = troubles + 1
Disk == <<teams, archive, hidden, deny>>
Marks == <<overlap, broken, last>>

-----------------------------------------------------------------------------
(***************************************************************************)
(* agent_teams_create: under the captain's lock a scan, then under the     *)
(* team's lock a look whether the name is taken, the directory, the record.*)
(***************************************************************************)
CreateScan_unlocked(c, s, i) ==
  /\ made < MaxTeams /\ Readable /\ Led(s) = {}
  /\ Begins(c, s, i, "scanned", {})
  /\ UNCHANGED <<Disk, spawned, made, troubles, Marks>>

CreateScan(c, s, i) ==
  /\ made < MaxTeams /\ Creators(s) = {} /\ Readable /\ Led(s) = {}
  /\ Begins(c, s, i, "scanned", {})
  /\ UNCHANGED <<Disk, spawned, made, troubles, Marks>>

CreateLooks(c) ==
  /\ calls[c].at = "scanned" /\ Unheld(calls[c].id)
  /\ IF IsTeam(teams[calls[c].id]) THEN Returns(c) ELSE At(c, "making")
  /\ UNCHANGED <<Disk, spawned, made, troubles, Marks>>

NewTeam(c) ==
  [number |-> made + 1, id |-> calls[c].id, lead |-> calls[c].by, torn |-> FALSE,
   members |-> {}, removed |-> {}]

CreateWrites(c) ==
  /\ calls[c].at = "making" /\ made < MaxTeams
  /\ made' = made + 1
  /\ teams' = [teams EXCEPT ![calls[c].id] = NewTeam(c)]
  /\ Returns(c)
  /\ UNCHANGED <<archive, hidden, deny, spawned, troubles, Marks>>

(***************************************************************************)
(* agent_teams_add_member: the session is spawned before the record says   *)
(* so; if the record cannot be written, the session is retired.            *)
(***************************************************************************)
AddFinds(c, s, i) ==
  /\ Readable /\ Led(s) = {i}
  /\ Begins(c, s, i, "adding", {})
  /\ UNCHANGED <<Disk, spawned, made, troubles, Marks>>

AddSpawns(c) ==
  /\ calls[c].at = "adding" /\ Unheld(calls[c].id)
  /\ \/ Returns(c) /\ UNCHANGED spawned  \* not the captain's, a cap, or no session
     \/ /\ Fresh(c)
        /\ \E k \in Recruit \ spawned :
             /\ spawned' = spawned \cup {k}
             /\ Goes(c, [calls[c] EXCEPT !.at = "joining", !.kids = {k}])
  /\ UNCHANGED <<Disk, made, troubles, Marks>>

AddWrites(c) ==
  /\ calls[c].at = "joining"
  /\ teams' = [teams EXCEPT ![calls[c].id].members = @ \cup calls[c].kids]
  /\ Returns(c)
  /\ UNCHANGED <<archive, hidden, deny, spawned, made, troubles, Marks>>

\* agent_teams_remove_member: marked in a section, retired after it.
RemoveMarks(c, s, i) ==
  /\ Readable /\ Led(s) = {i} /\ Unheld(i)
  /\ \E k \in teams[i].members :
       /\ teams' = [teams EXCEPT ![i].members = @ \ {k}, ![i].removed = @ \cup {k}]
       /\ Begins(c, s, i, "dismissing", {k})
  /\ UNCHANGED <<archive, hidden, deny, spawned, made, troubles, Marks>>

RemoveRetires(c) ==
  /\ calls[c].at = "dismissing"
  /\ deny' = deny \cup calls[c].kids
  /\ Returns(c)
  /\ UNCHANGED <<teams, archive, hidden, spawned, made, troubles, Marks>>

(***************************************************************************)
(* agent_teams_delete: one section marks the members, then the roster is   *)
(* retired and interrupted and awaited, and a second section archives the  *)
(* captain's team of that name.                                            *)
(***************************************************************************)
DeleteFinds(c, s, i) ==
  /\ Readable /\ Led(s) = {i}
  /\ Begins(c, s, i, "deleting", {})
  /\ UNCHANGED <<Disk, spawned, made, troubles, Marks>>

DeleteLocks(c) ==
  /\ calls[c].at = "deleting" /\ Unheld(calls[c].id)
  /\ IF Fresh(c) THEN At(c, "marking") ELSE Returns(c)
  /\ UNCHANGED <<Disk, spawned, made, troubles, Marks>>

AllRemoved(team) ==
  [team EXCEPT !.members = {}, !.removed = @ \cup team.members]

DeleteMarks_activeOnly(c) ==
  LET team == teams[calls[c].id]
  IN  /\ calls[c].at = "marking"
      /\ teams' = [teams EXCEPT ![calls[c].id] = AllRemoved(team)]
      /\ Goes(c, [calls[c] EXCEPT !.at = "retiring", !.kids = team.members])
      /\ UNCHANGED <<archive, hidden, deny, spawned, made, troubles, Marks>>

\* The roster has those who were removed before, too.
DeleteMarks(c) ==
  LET team == teams[calls[c].id]
  IN  /\ calls[c].at = "marking"
      /\ teams' = [teams EXCEPT ![calls[c].id] = AllRemoved(team)]
      /\ Goes(c, [calls[c] EXCEPT !.at = "retiring", !.kids = team.members \cup team.removed])
      /\ UNCHANGED <<archive, hidden, deny, spawned, made, troubles, Marks>>

DeleteRetires(c) ==
  /\ calls[c].at = "retiring"
  /\ deny' = deny \cup calls[c].kids
  /\ At(c, "ending")
  /\ UNCHANGED <<teams, archive, hidden, spawned, made, troubles, Marks>>

-----------------------------------------------------------------------------
(***************************************************************************)
(* archiveTeamDir: an earlier archive of the name is moved aside, the team *)
(* moves in, and what was moved aside is removed, or put back when the     *)
(* team could not be moved.                                                *)
(***************************************************************************)
Displace_removes(c) ==
  LET i == calls[c].id
  IN  /\ calls[c].at = "ending" /\ Unheld(i)
      /\ IF Fresh(c) THEN /\ archive' = [archive EXCEPT ![i] = NoTeam]
                          /\ At(c, "moving")
         ELSE Returns(c) /\ UNCHANGED archive
      /\ UNCHANGED <<teams, hidden, deny, spawned, made, troubles, Marks>>

Displace(c) ==
  LET i == calls[c].id
  IN  /\ calls[c].at = "ending" /\ Unheld(i)
      /\ IF Fresh(c) THEN /\ archive' = [archive EXCEPT ![i] = NoTeam]
                          /\ hidden' = hidden \cup ({archive[i]} \ {NoTeam})
                          /\ Goes(c, [calls[c] EXCEPT !.at = "moving", !.old = archive[i]])
         ELSE Returns(c) /\ UNCHANGED <<archive, hidden>>
      /\ UNCHANGED <<teams, deny, spawned, made, troubles, Marks>>

\* No directory moves into itself.
MoveIn(c) ==
  LET i == calls[c].id
  IN  /\ calls[c].at = "moving" /\ i # Archive
      /\ archive' = [archive EXCEPT ![i] = teams[i]]
      /\ teams' = [teams EXCEPT ![i] = NoTeam]
      /\ last' = [last EXCEPT ![i] = teams[i].number]
      /\ At(c, "cleaning")
      /\ UNCHANGED <<hidden, deny, spawned, made, troubles, overlap, broken>>

Restores(c) ==
  /\ archive' = [archive EXCEPT ![calls[c].id] = calls[c].old]
  /\ hidden' = hidden \ {calls[c].old}
  /\ UNCHANGED broken

MoveFails(c) ==
  /\ calls[c].at = "moving"
  /\ IF calls[c].id = Archive THEN UNCHANGED troubles ELSE Trouble
  /\ \/ Restores(c)
     \/ calls[c].old # NoTeam /\ broken' = TRUE /\ UNCHANGED <<archive, hidden>>
  /\ Returns(c)
  /\ UNCHANGED <<teams, deny, spawned, made, overlap, last>>

CleansUp(c) ==
  /\ calls[c].at = "cleaning"
  /\ \/ hidden' = hidden \ {calls[c].old} /\ UNCHANGED troubles
     \/ Trouble /\ UNCHANGED hidden
  /\ Returns(c)
  /\ UNCHANGED <<teams, archive, deny, spawned, made, Marks>>

-----------------------------------------------------------------------------
(***************************************************************************)
(* What goes wrong: a record cannot be written, neither by renaming nor in *)
(* place, or only its beginning can; the list of retired sessions cannot,  *)
(* or the displacing rename is refused; the process is restarted, perhaps  *)
(* while it writes in place.                                               *)
(***************************************************************************)
\* A write in place that is broken off; it may be the first of its record.
Tears(c) ==
  LET i == calls[c].id
  IN  /\ calls[c].at \in Writing
      /\ teams' = [teams EXCEPT ![i] =
                     [(IF IsTeam(@) THEN @ ELSE NewTeam(c)) EXCEPT !.torn = TRUE]]

WriteFails(c) ==
  /\ calls[c].at \in Writing /\ Trouble
  /\ UNCHANGED teams \/ Tears(c)
  /\ \/ UNCHANGED deny
     \/ calls[c].at = "joining" /\ deny' = deny \cup calls[c].kids
  /\ Returns(c)
  /\ UNCHANGED <<archive, hidden, spawned, made, Marks>>

EndFails(c) ==
  /\ calls[c].at \in {"dismissing", "retiring", "ending"} /\ Trouble
  /\ Returns(c)
  /\ UNCHANGED <<Disk, spawned, made, Marks>>

RestartHarness ==
  /\ Trouble
  /\ calls' = [c \in LifeCall |-> NoCall]
  /\ UNCHANGED teams \/ \E c \in LifeCall : Tears(c)
  /\ broken' = TRUE
  /\ UNCHANGED <<archive, hidden, deny, spawned, made, overlap, last>>

LifeNext ==
  \/ \E c \in LifeCall, s \in Lead, i \in TeamId :
       CreateScan(c, s, i) \/ AddFinds(c, s, i) \/ RemoveMarks(c, s, i) \/ DeleteFinds(c, s, i)
  \/ \E c \in LifeCall :
       \/ CreateLooks(c) \/ CreateWrites(c) \/ AddSpawns(c) \/ AddWrites(c)
       \/ RemoveRetires(c)
       \/ DeleteLocks(c) \/ DeleteMarks(c) \/ DeleteRetires(c)
       \/ Displace(c) \/ MoveIn(c) \/ MoveFails(c) \/ CleansUp(c)
       \/ WriteFails(c) \/ EndFails(c)
  \/ RestartHarness

LifeSpec == LifeInit /\ [][LifeNext]_lifeVars

-----------------------------------------------------------------------------
LifeTypeOK ==
  /\ overlap \in BOOLEAN /\ broken \in BOOLEAN
  /\ teams \in [TeamId -> TeamRecord \cup {NoTeam}]
  /\ archive \in [TeamId -> TeamRecord \cup {NoTeam}]
  /\ hidden \subseteq TeamRecord
  /\ deny \subseteq Recruit /\ spawned \subseteq Recruit
  /\ calls \in [LifeCall -> Life \cup {NoCall}]
  /\ made \in Nat /\ troubles \in Nat
  /\ last \in [TeamId -> Nat]

(***************************************************************************)
(* tools.ts:257-264: a captain leads one team at a time, however many      *)
(* calls of agent_teams_create race, its own and those of others for the   *)
(* same name, and whatever is deleted in between.                          *)
(***************************************************************************)
OneTeamEach ==
  \A i, j \in TeamId :
    IsTeam(teams[i]) /\ IsTeam(teams[j]) /\ teams[i].lead = teams[j].lead => i = j

(***************************************************************************)
(* state.ts:761-801: wherever a rename fails or the process ends, the team *)
(* that was archived last under a name is on disk: under its name, or,     *)
(* while another one moves in or after that was broken off, in a hidden    *)
(* directory.                                                              *)
(***************************************************************************)
ArchiveSurvives ==
  \A i \in TeamId : last[i] # 0 /\ ~(IsTeam(archive[i]) /\ archive[i].number = last[i]) =>
    /\ \E team \in hidden : team.id = i /\ team.number = last[i]
    /\ broken \/ \E c \in Holder(i) : calls[c].at = "moving"

(***************************************************************************)
(* tools.ts:1064-1075: unless the captain does something else at the same  *)
(* time, no member of an archived team can be woken again, not even after  *)
(* a deletion that was broken off and repeated.                            *)
(***************************************************************************)
ArchivedAreRetired ==
  ~overlap => \A i \in TeamId : IsTeam(archive[i]) =>
                archive[i].members = {} /\ archive[i].removed \subseteq deny
=============================================================================
