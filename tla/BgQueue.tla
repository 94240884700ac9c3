------------------------------ MODULE BgQueue -------------------------------
(***************************************************************************)
(* The queues for battlegrounds (BattleGroundMgr.cpp), the handlers by     *)
(* which players join a queue and answer an invitation                     *)
(* (BattleGroundHandler.cpp), and the places of a battleground as they are *)
(* taken and given back (BattleGround.cpp).                                *)
(*                                                                         *)
(* Who waits for a kind of battleground is in the queue of that kind,      *)
(* alone or with a group, and has a slot for it.  When there is room in a  *)
(* running battleground, or there are enough for a new one, groups are     *)
(* invited.  Each player answers for himself, or a timer of his takes him  *)
(* out of the queue.  A place counts from the invitation until the player  *)
(* declines, is too late, or leaves the battleground, so three parts of    *)
(* the program keep one count.                                             *)
(*                                                                         *)
(* Everything runs in the world thread: an action is one handler, one      *)
(* event or one part of an update.  One level bracket is modelled; arenas  *)
(* are not.                                                                *)
(***************************************************************************)
EXTENDS Integers, Sequences, FiniteSets, Functions, Folds

CONSTANTS
  Players,
  TeamOf,             \* the team of each player
  Types,              \* kinds of battlegrounds, each with a queue of its own
  BGs,                \* instances of battlegrounds
  InstancesOf,        \* bound: which of them may be of a type
  NoBg,               \* no instance (instance number 0)
  MinPlayersPerTeam,  \* of each type, to start
  MaxPlayersPerTeam,
  MaxQueues,          \* PLAYER_MAX_BATTLEGROUND_QUEUES
  Entries,            \* bound: who joins what together, pairs of players and
                      \* type; sets of such pairs that occur at one time
  CalmTravel,         \* no queue is updated while one who waits changes maps
  MaxEvents,          \* bound: of each type, timers a player has who joins
  Leavers             \* bound: who decline, log out, or go elsewhere

Teams == {"alliance", "horde"}
Kinds == {"premade", "normal"}
Lists == Kinds \X Teams

NoSlot == "no slot"
Waiting == "waiting"

ASSUME BgAssumption ==
  /\ IsFiniteSet(Players) /\ IsFiniteSet(Types) /\ Types # {}
  /\ TeamOf \in [Players -> Teams]
  /\ {NoBg, NoSlot, Waiting} \cap BGs = {}
  /\ InstancesOf \in [Types -> SUBSET BGs]
  /\ MinPlayersPerTeam \in [Types -> Nat \ {0}]
  /\ MaxPlayersPerTeam \in [Types -> Nat]
  /\ \A t \in Types : MinPlayersPerTeam[t] <= MaxPlayersPerTeam[t]
  /\ MaxQueues \in Nat
  /\ Entries \subseteq SUBSET ((SUBSET Players) \X Types)
  /\ \A e \in UNION Entries : /\ Cardinality(e[1]) \in 1..MaxPlayersPerTeam[e[2]]
                              /\ \A p, q \in e[1] : TeamOf[p] = TeamOf[q]
  /\ CalmTravel \in BOOLEAN
  /\ MaxEvents \in [Types -> Nat]
  /\ Leavers \subseteq Players

VARIABLES
  where,      \* each player: in the world, changing maps, or offline
  slot,       \* m_bgBattleGroundQueueID: queue types and invitations of players
  bgOf,       \* m_bgData.bgInstanceID, which is saved with the player
  events,     \* the BGQueueRemoveEvents among each player's m_Events
  queue,      \* m_QueuedGroups
  scheduled,  \* m_QueueUpdateScheduler
  bg,         \* status and invited counts of each battleground
  members,    \* BattleGround::m_Players: in it, away (offline), or neither
  offline,    \* BattleGround::m_OfflineQueue
  freeQueue   \* BGFreeSlotQueue

vars == <<where, slot, bgOf, events, queue, scheduled, bg, members, offline,
          freeQueue>>

\* GroupQueueInfo; time is RemoveInviteTime, of which only equality matters.
GroupInfo == [players : (SUBSET Players) \ {{}}, team : Teams,
              invited : BGs \cup {NoBg}, time : Nat]
RemoveEvent == [type : Types, bg : BGs, time : Nat]
\* Nothing here tells STATUS_WAIT_JOIN from STATUS_IN_PROGRESS.
Status == {"none", "running", "wait leave"}

TypeOK ==
  /\ where \in [Players -> {"world", "far", "off"}]
  /\ slot \in [Players -> [Types -> BGs \cup {NoSlot, Waiting}]]
  /\ bgOf \in [Players -> BGs \cup {NoBg}]
  /\ events \in [Players -> SUBSET RemoveEvent]
  /\ queue \in [Types -> [Lists -> Seq(GroupInfo)]]
  /\ scheduled \subseteq Types
  /\ bg \in [BGs -> [status : Status, type : Types, invited : [Teams -> Nat]]]
  /\ members \in [BGs -> [Players -> {"out", "in", "away"}]]
  /\ offline \in [BGs -> Seq(Players)]
  /\ freeQueue \in [Types -> Seq(BGs)]

\* What is left of an instance that is not in use.
NoBattle == [status |-> "none", type |-> CHOOSE t \in Types : TRUE,
             invited |-> [team \in Teams |-> 0]]

Init ==
  /\ where = [p \in Players |-> "world"]
  /\ slot = [p \in Players |-> [t \in Types |-> NoSlot]]
  /\ bgOf = [p \in Players |-> NoBg]
  /\ events = [p \in Players |-> {}]
  /\ queue = [t \in Types |-> [l \in Lists |-> <<>>]]
  /\ scheduled = {}
  /\ bg = [b \in BGs |-> NoBattle]
  /\ members = [b \in BGs |-> [p \in Players |-> "out"]]
  /\ offline = [b \in BGs |-> <<>>]
  /\ freeQueue = [t \in Types |-> <<>>]

-----------------------------------------------------------------------------
(* What the handlers ask.                                                  *)

\* sBattleGroundMgr.GetBattleGround finds it.
Live(b) == b \in BGs /\ bg[b].status # "none"
Size(b) == Cardinality({p \in Players : members[b][p] # "out"})

GroupsOf(t) == UNION {Range(queue[t][l]) : l \in Lists}
Queued(p, t) == \E g \in GroupsOf(t) : p \in g.players
\* GetPlayerGroupInfoData, and the group m_QueuedPlayers leads to.
GroupOf(p, t) == CHOOSE g \in GroupsOf(t) : p \in g.players
InvitedTo(p, t, b) == Queued(p, t) /\ GroupOf(p, t).invited = b

HasFreeBattleGroundQueueId(p) ==
  Cardinality({t \in Types : slot[p][t] # NoSlot}) < MaxQueues

-----------------------------------------------------------------------------
(* Leaving a queue.                                                        *)

\* The elements of a sequence that are in keep, in their order.
Kept(s, keep) ==
  LET kept[i \in 0..Len(s)] ==
        IF i = 0 THEN <<>>
        ELSE IF s[i] \in keep THEN Append(kept[i - 1], s[i]) ELSE kept[i - 1]
  IN kept[Len(s)]

\* A player leaves his group, and the group, without players no GroupInfo any
\* more, the queue with its last player.
Without(list, p) ==
  Kept([i \in DOMAIN list |-> [list[i] EXCEPT !.players = @ \ {p}]], GroupInfo)
Dequeued(t, p) == [l \in Lists |-> Without(queue[t][l], p)]

\* DecreaseInvitedCount of those whose invitations player p gives up by
\* leaving the queues of the types in from.
GivesBack(p, from) ==
  [b \in BGs |-> [bg[b] EXCEPT !.invited[TeamOf[p]] =
     @ - Cardinality({t \in from : Live(b) /\ InvitedTo(p, t, b)})]]

-----------------------------------------------------------------------------
(* Leaving a battleground: RemovePlayerAtLeave of the players in leave.    *)

\* Those among them who were in it, and those the program finds in the world.
Participants(leave, b) == {p \in leave : members[b][p] # "out"}
Found(leave) == {p \in leave : where[p] = "world"}

\* Mutant: those who are offline keep their places.
FreedByFound(leave, b, team) ==
  Cardinality({p \in Participants(Found(leave), b) : TeamOf[p] = team})
Freed(leave, b, team) ==
  Cardinality({p \in Participants(leave, b) : TeamOf[p] = team})

RemovePlayerAtLeave(leave, b) ==
  /\ members' = [members EXCEPT ![b] =
       [p \in Players |-> IF p \in leave THEN "out" ELSE @[p]]]
  /\ bg' = [bg EXCEPT ![b].invited =
       [team \in Teams |-> @[team] - Freed(leave, b, team)]]
  /\ slot' = [p \in Players |->
       IF p \in Found(Participants(leave, b))
         THEN [slot[p] EXCEPT ![bg[b].type] = NoSlot]
         ELSE slot[p]]
  /\ IF bg[b].status # "wait leave" /\ Participants(leave, b) # {}
       THEN /\ scheduled' = scheduled \cup {bg[b].type}
            /\ freeQueue' = IF b \in Range(freeQueue[bg[b].type])
                              THEN freeQueue
                              ELSE [freeQueue EXCEPT ![bg[b].type] = <<b>> \o @]
       ELSE UNCHANGED <<scheduled, freeQueue>>

\* The player leaves the battleground he is in, if any.
LeaveCurrent(p) ==
  IF Live(bgOf[p])
    THEN RemovePlayerAtLeave({p}, bgOf[p])
    ELSE UNCHANGED <<members, bg, slot, scheduled, freeQueue>>

-----------------------------------------------------------------------------
(* Joining a queue.                                                        *)

\* What CanJoinBattleGroundQueue asks of each member, and
\* HandleBattlemasterJoinOpcode of a player alone.
MayQueue(p, t) == slot[p][t] = NoSlot /\ HasFreeBattleGroundQueueId(p)

\* Something is left of a queue or a battleground of type t.
InUse(t) ==
  \/ t \in scheduled
  \/ \E b \in BGs : Live(b) /\ bg[b].type = t
  \/ \E p \in Players : slot[p][t] # NoSlot \/ \E e \in events[p] : e.type = t

\* The bounds: not too many timers, only entries that occur together, and
\* everybody in the world when nothing is left of earlier ones.
MayEnter(who, t) ==
  /\ \A p \in who : Cardinality(events[p]) < MaxEvents[t]
  /\ \E together \in Entries :
       /\ <<who, t>> \in together
       /\ \A u \in Types : InUse(u) => \E e \in together : e[2] = u
  /\ (\A u \in Types : ~InUse(u)) => \A p \in Players : where[p] = "world"

\* Deserters may not join; whether a player is one is left open.
HandleBattlemasterJoinOpcode(who, t) ==
  /\ MayEnter(who, t)
  /\ \E leader \in who : where[leader] = "world" /\ bgOf[leader] = NoBg
  /\ \A p \in who : /\ where[p] # "off"
                    /\ MayQueue(p, t)
  /\ LET isPremade == Cardinality(who) > 1 /\ Cardinality(who) >= MinPlayersPerTeam[t]
         team == TeamOf[CHOOSE p \in who : TRUE]
         ginfo == [players |-> who, team |-> team, invited |-> NoBg, time |-> 0]
     IN queue' = [queue EXCEPT
          ![t][<<IF isPremade THEN "premade" ELSE "normal", team>>] = Append(@, ginfo)]
  /\ slot' = [p \in Players |->
       IF p \in who THEN [slot[p] EXCEPT ![t] = Waiting] ELSE slot[p]]
  /\ scheduled' = scheduled \cup {t}
  /\ UNCHANGED <<where, bgOf, events, bg, members, offline, freeQueue>>

\* A group in which somebody may not join: only the update is scheduled.
JoinRefused(who, t) ==
  /\ MayEnter(who, t) /\ Cardinality(who) > 1
  /\ \E leader \in who : where[leader] = "world" /\ bgOf[leader] = NoBg
  /\ scheduled' = scheduled \cup {t}
  /\ UNCHANGED <<where, slot, bgOf, events, queue, bg, members, offline, freeQueue>>

-----------------------------------------------------------------------------
(* Answers to an invitation: HandleBattleFieldPortOpcode.                  *)

\* Mutant: the place is given back as by one who declines.
EnterGivesBack(p, t) ==
  /\ where[p] = "world"
  /\ Queued(p, t)
  /\ Live(GroupOf(p, t).invited)
  /\ slot[p][t] \in BGs
  /\ queue' = [queue EXCEPT ![t] = Dequeued(t, p)]
  /\ bg' = GivesBack(p, {t})
  /\ bgOf' = [bgOf EXCEPT ![p] = GroupOf(p, t).invited]
  /\ where' = [where EXCEPT ![p] = "far"]
  /\ UNCHANGED <<slot, events, scheduled, members, offline, freeQueue>>
\* The player enters, from another battleground maybe.  He leaves the queue
\* but keeps his place and his slot, and is on his way.
Enter(p, t) ==
  /\ where[p] = "world"
  /\ Queued(p, t)
  /\ Live(GroupOf(p, t).invited)
  /\ slot[p][t] \in BGs
  /\ queue' = [queue EXCEPT ![t] = Dequeued(t, p)]
  /\ LeaveCurrent(p)
  /\ bgOf' = [bgOf EXCEPT ![p] = GroupOf(p, t).invited]
  /\ where' = [where EXCEPT ![p] = "far"]
  /\ UNCHANGED <<events, offline>>

\* The player leaves the queue, or may not enter as a deserter or for his
\* level.
LeaveQueue(p, t) ==
  /\ where[p] = "world"
  /\ p \in Leavers
  /\ Queued(p, t)
  /\ slot' = [slot EXCEPT ![p][t] = NoSlot]
  /\ queue' = [queue EXCEPT ![t] = Dequeued(t, p)]
  /\ bg' = GivesBack(p, {t})
  /\ scheduled' = scheduled \cup {t}
  /\ UNCHANGED <<where, bgOf, events, members, offline, freeQueue>>

\* Mutant: any timer ends any invitation of the same queue.
IsOwnType(p, e) == Queued(p, e.type) /\ GroupOf(p, e.type).invited # NoBg
\* Mutant: a timer leaves the invitation alone when the battle is over.
IsInvitedToRunning(p, e) ==
  /\ InvitedTo(p, e.type, e.bg)
  /\ GroupOf(p, e.type).time = e.time
  /\ bg[e.bg].status # "wait leave"
\* IsPlayerInvited, which an event asks for itself.
IsPlayerInvited(p, e) ==
  /\ InvitedTo(p, e.type, e.bg)
  /\ GroupOf(p, e.type).time = e.time

\* BGQueueRemoveEvent: the time to answer is over.  Events of a player run
\* while he is in the world.
RemoveEventExecutes(p, e) ==
  /\ where[p] = "world"
  /\ e \in events[p]
  /\ events' = [events EXCEPT ![p] = @ \ {e}]
  /\ IF slot[p][e.type] # NoSlot /\ IsPlayerInvited(p, e)
       THEN /\ slot' = [slot EXCEPT ![p][e.type] = NoSlot]
            /\ queue' = [queue EXCEPT ![e.type] = Dequeued(e.type, p)]
            /\ bg' = GivesBack(p, {e.type})
            /\ scheduled' = IF Live(e.bg) /\ bg[e.bg].status # "wait leave"
                              THEN scheduled \cup {e.type} ELSE scheduled
       ELSE UNCHANGED <<slot, queue, bg, scheduled>>
  /\ UNCHANGED <<where, bgOf, members, offline, freeQueue>>

-----------------------------------------------------------------------------
(* Players change maps, log out and log in.                                *)

\* Who arrives at a battleground is a member of it if he was invited.
Arrives(p) ==
  /\ where[p] = "far"
  /\ Live(bgOf[p])
  /\ \E t \in Types : slot[p][t] = bgOf[p]

\* HandleMoveWorldportAckOpcode.
HandleMoveWorldportAck(p) ==
  /\ where[p] = "far"
  /\ where' = [where EXCEPT ![p] = "world"]
  /\ members' = IF Arrives(p) THEN [members EXCEPT ![bgOf[p]][p] = "in"] ELSE members
  /\ UNCHANGED <<slot, bgOf, events, queue, scheduled, bg, offline, freeQueue>>

\* The player goes to another map: out of a battleground if he is in one
\* (HandleLeaveBattlefieldOpcode, or any other teleport), or elsewhere.
TeleportTo(p) ==
  /\ where[p] = "world"
  /\ p \in Leavers
  /\ where' = [where EXCEPT ![p] = "far"]
  /\ LeaveCurrent(p)
  /\ bgOf' = [bgOf EXCEPT ![p] = NoBg]
  /\ UNCHANGED <<events, queue, offline>>

\* Mutant: the queues are left after the slots are cleared, and not at all.
LogoutQueuesLate(p) == {}
\* The queues that LogoutPlayer takes the player out of.
LogoutQueues(p) == {t \in Types : slot[p][t] # NoSlot}

\* LogoutPlayer: EventPlayerLoggedOut, then pending far teleports are
\* finished, then the player leaves the queues.  No update is scheduled.
LogoutPlayer(p) ==
  /\ where[p] # "off"
  /\ p \in Leavers
  /\ where' = [where EXCEPT ![p] = "off"]
  /\ IF Live(bgOf[p])
       THEN /\ members' = [members EXCEPT ![bgOf[p]][p] = IF Arrives(p) THEN "in" ELSE "away"]
            /\ offline' = [offline EXCEPT ![bgOf[p]] = Append(@, p)]
       ELSE UNCHANGED <<members, offline>>
  /\ slot' = [slot EXCEPT ![p] = [t \in Types |-> NoSlot]]
  /\ queue' = [t \in Types |-> IF t \in LogoutQueues(p) THEN Dequeued(t, p) ELSE queue[t]]
  /\ bg' = GivesBack(p, LogoutQueues(p))
  /\ events' = [events EXCEPT ![p] = {}]
  /\ UNCHANGED <<bgOf, scheduled, freeQueue>>

\* Player::LoadFromDB: back into the battleground, unless it is over.
LoadFromDB(p) ==
  LET b == bgOf[p]
      playerAtBg == Live(b) /\ members[b][p] # "out"
      back == playerAtBg /\ bg[b].status # "wait leave"
  IN /\ where[p] = "off"
     /\ where' = [where EXCEPT ![p] = "world"]
     /\ IF back
          THEN /\ slot' = [slot EXCEPT ![p][bg[b].type] = b]
               /\ members' = [members EXCEPT ![b][p] = "in"]
               /\ offline' = [offline EXCEPT ![b] = Kept(@, Players \ {p})]
               /\ UNCHANGED <<bgOf, bg, scheduled, freeQueue>>
          ELSE /\ IF playerAtBg
                    THEN RemovePlayerAtLeave({p}, b)
                    ELSE UNCHANGED <<members, bg, slot, scheduled, freeQueue>>
               /\ bgOf' = [bgOf EXCEPT ![p] = NoBg]
               /\ UNCHANGED offline
     /\ UNCHANGED <<events, queue>>

-----------------------------------------------------------------------------
(* BattleGroundQueue::Update.                                              *)

\* The groups of a list that AddGroup puts in a selection pool that holds
\* have players: each one not yet invited that fits, until there are enough.
Pool(list, have, desired, enough) ==
  LET pool[i \in 0..Len(list)] ==
        IF i = 0 THEN [groups |-> {}, count |-> have]
        ELSE LET before == pool[i - 1]
                 size == Cardinality(list[i].players)
             IN IF /\ before.count < enough
                   /\ list[i].invited = NoBg
                   /\ before.count + size <= desired
                  THEN [groups |-> before.groups \cup {i}, count |-> before.count + size]
                  ELSE before
  IN pool[Len(list)]

\* A time that no invitation to b, and no event left from one, has.
NewTime(b) ==
  LET used == {e.time : e \in {f \in UNION Range(events) : f.bg = b}} \cup
              {g.time : g \in {h \in UNION {GroupsOf(t) : t \in Types} : h.invited = b}}
  IN CHOOSE n \in 1..(Cardinality(used) + 1) : n \notin used

\* InviteGroupToBG of the groups at these places of a list.
InviteGroups(list, groups, b) ==
  [i \in DOMAIN list |->
     IF i \in groups THEN [list[i] EXCEPT !.invited = b, !.time = NewTime(b)] ELSE list[i]]

\* Mutant: places of those who are invited count as free.
FreeSlotsInside(b, team) ==
  MaxPlayersPerTeam[bg[b].type] -
    Cardinality({p \in Players : members[b][p] # "out" /\ TeamOf[p] = team})
GetFreeSlotsForTeam(b, team) ==
  LET max == MaxPlayersPerTeam[bg[b].type]
  IN IF bg[b].invited[team] < max THEN max - bg[b].invited[team] ELSE 0

\* FillPlayersToBG, with invitations in the order of the queue
\* (CONFIG_UINT32_BATTLEGROUND_INVITATION_TYPE = 0).
FillPlayersToBG(b, lists) ==
  [l \in Lists |->
     LET free == GetFreeSlotsForTeam(b, l[2]) IN
     IF l[1] = "normal"
       THEN InviteGroups(lists[l], Pool(lists[l], 0, free, free).groups, b)
       ELSE lists[l]]

\* The places in a list of groups that nobody has invited yet.
Uninvited(list) == {i \in DOMAIN list : list[i].invited = NoBg}
First(places) == CHOOSE i \in places : \A j \in places : i <= j

\* CheckPremadeMatch: both teams have a premade group to start with.
PremadesMeet(lists) == \A team \in Teams : Uninvited(lists[<<"premade", team>>]) # {}

\* The premade groups are invited, and others up to the size of the larger one.
InvitePremadeMatch(lists, b) ==
  LET group(team) == First(Uninvited(lists[<<"premade", team>>]))
      size(team) == Cardinality(lists[<<"premade", team>>][group(team)].players)
      maxPlayers == CHOOSE n \in {size(team) : team \in Teams} :
                      \A team \in Teams : size(team) <= n
  IN [l \in Lists |->
        IF l[1] = "premade"
          THEN InviteGroups(lists[l], {group(l[2])}, b)
          ELSE InviteGroups(lists[l],
                 Pool(lists[l], size(l[2]), maxPlayers, maxPlayers).groups, b)]

\* Else the first premade group of a team that has waited long enough, or
\* has become too small, goes to the front of the normal queue.
MovePremades(lists, waited, min) ==
  LET moves(team) == LET list == lists[<<"premade", team>>] IN
        /\ list # <<>>
        /\ list[1].invited = NoBg
        /\ team \in waited \/ Cardinality(list[1].players) < min
  IN [l \in Lists |->
        IF ~moves(l[2]) THEN lists[l]
        ELSE IF l[1] = "premade" THEN Tail(lists[l])
        ELSE <<Head(lists[<<"premade", l[2]>>])>> \o lists[l]]

\* CheckNormalMatch, and the invitations to the new battleground.
NormalPool(lists, team, t) ==
  Pool(lists[<<"normal", team>>], 0, MaxPlayersPerTeam[t], MinPlayersPerTeam[t])
NormalsMeet(lists, t) ==
  \A team \in Teams : NormalPool(lists, team, t).count >= MinPlayersPerTeam[t]
InviteNormalMatch(lists, t, b) ==
  [l \in Lists |->
     IF l[1] = "normal" THEN InviteGroups(lists[l], NormalPool(lists, l[2], t).groups, b)
                        ELSE lists[l]]

\* Instances that are not in use, nor known to any player.
NewBGs(t) == {b \in InstancesOf[t] :
  /\ ~Live(b)
  /\ \A p \in Players : bgOf[p] # b /\ \A e \in events[p] : e.bg # b}

\* FillPlayersToBG for each battleground with free places, in their order.
Filled(t) ==
  LET filled[i \in 0..Len(freeQueue[t])] ==
        IF i = 0 THEN queue[t] ELSE FillPlayersToBG(freeQueue[t][i], filled[i - 1])
  IN filled[Len(freeQueue[t])]

\* Where those are invited whom InviteGroupToBG finds when queue[t] becomes after.
Reached(t, after) ==
  LET invited == (UNION {Range(after[l]) : l \in Lists}) \ GroupsOf(t)
  IN [p \in Players |->
        IF where[p] = "world" /\ \E g \in invited : p \in g.players
          THEN (CHOOSE g \in invited : p \in g.players).invited ELSE NoBg]

\* All invitations of an update, some of them to battlegrounds just created.
Invites(t, after, created) ==
  LET reached == Reached(t, after)
      count(b, team) == Cardinality({p \in Players : reached[p] = b /\ TeamOf[p] = team})
  IN /\ queue' = [queue EXCEPT ![t] = after]
     /\ bg' = [b \in BGs |->
          IF b \in Range(created)
            THEN [status |-> "running", type |-> t,
                  invited |-> [team \in Teams |-> count(b, team)]]
            ELSE [bg[b] EXCEPT !.invited = [team \in Teams |-> @[team] + count(b, team)]]]
     /\ slot' = [p \in Players |->
          IF reached[p] # NoBg THEN [slot[p] EXCEPT ![t] = reached[p]] ELSE slot[p]]
     /\ events' = [p \in Players |->
          IF reached[p] # NoBg
            THEN events[p] \cup {[type |-> t, bg |-> reached[p], time |-> NewTime(reached[p])]}
            ELSE events[p]]
     /\ freeQueue' = [freeQueue EXCEPT
          ![t] = created \o Kept(@, {b \in BGs : Size(b) < 2 * MaxPlayersPerTeam[t]})]

\* BattleGroundQueue::Update.  CalmTravel leaves out that one of those who
\* wait is between two maps: sObjectMgr.GetPlayer does not find him, and
\* InviteGroupToBG skips him.
UpdateQueue(t) ==
  \E waited \in SUBSET {team \in Teams : queue[t][<<"premade", team>>] # <<>>} :
    LET before == Filled(t)
        premade == PremadesMeet(before)
        premadeBg == CHOOSE b \in NewBGs(t) : TRUE
        between == IF premade THEN InvitePremadeMatch(before, premadeBg)
                              ELSE MovePremades(before, waited, MinPlayersPerTeam[t])
        normal == NormalsMeet(between, t)
        unused == IF premade THEN NewBGs(t) \ {premadeBg} ELSE NewBGs(t)
        normalBg == CHOOSE b \in unused : TRUE
    IN /\ premade => NewBGs(t) # {}
       /\ normal => unused # {}
       /\ Invites(t,
            IF normal THEN InviteNormalMatch(between, t, normalBg) ELSE between,
            (IF normal THEN <<normalBg>> ELSE <<>>) \o
              (IF premade THEN <<premadeBg>> ELSE <<>>))

\* BattleGroundMgr::Update, one queue of those scheduled.
UpdateScheduled(t) ==
  /\ t \in scheduled
  /\ CalmTravel => \A p \in Players : Queued(p, t) => where[p] = "world"
  /\ scheduled' = scheduled \ {t}
  /\ IF GroupsOf(t) = {}
       THEN UNCHANGED <<slot, events, queue, bg, freeQueue>>
       ELSE UpdateQueue(t)
  /\ UNCHANGED <<where, bgOf, members, offline>>

-----------------------------------------------------------------------------
(* BattleGround::Update.  When several things are due in one update they   *)
(* are these steps in a row.                                               *)

OutOfFreeQueue(b) ==
  freeQueue' = [t \in Types |-> Kept(freeQueue[t], BGs \ {b})]

\* Nobody is in it and nobody may come.
DeleteBattle(b) ==
  /\ Live(b) /\ Size(b) = 0
  /\ \A team \in Teams : bg[b].invited[team] = 0
  /\ bg' = [bg EXCEPT ![b] = NoBattle]
  /\ OutOfFreeQueue(b)
  /\ offline' = [offline EXCEPT ![b] = <<>>]
  /\ UNCHANGED <<where, slot, bgOf, events, queue, scheduled, members>>

\* The players in leave are removed by the battleground, which sends those
\* it finds to where they came from.
Expel(leave, b) ==
  /\ RemovePlayerAtLeave(leave, b)
  /\ bgOf' = [p \in Players |-> IF p \in Found(leave) THEN NoBg ELSE bgOf[p]]
  /\ where' = [p \in Players |-> IF p \in Found(leave) THEN "far" ELSE where[p]]
  /\ UNCHANGED <<events, queue>>

\* OfflineRemoveTime of the first in m_OfflineQueue is over.
RemoveOffline(b) ==
  /\ Live(b)
  /\ offline[b] # <<>>
  /\ members[b][Head(offline[b])] # "out"
  /\ Expel({Head(offline[b])}, b)
  /\ offline' = [offline EXCEPT ![b] = Tail(@)]

\* EndBattleGround: somebody wins, or a team has too few players; or EndNow:
\* it cannot be set up for the first who arrives.
EndBattle(b) ==
  /\ bg[b].status = "running" /\ Size(b) > 0
  /\ bg' = [bg EXCEPT ![b].status = "wait leave"]
  /\ OutOfFreeQueue(b)
  /\ UNCHANGED <<where, slot, bgOf, events, queue, scheduled, members, offline>>

\* Two minutes after the end everybody is removed.
CloseBattle(b) ==
  /\ bg[b].status = "wait leave" /\ Size(b) > 0
  /\ Expel({p \in Players : members[b][p] # "out"}, b)
  /\ UNCHANGED offline

-----------------------------------------------------------------------------

Next ==
  \/ \E e \in UNION Entries : HandleBattlemasterJoinOpcode(e[1], e[2])
  \/ \E e \in UNION Entries : JoinRefused(e[1], e[2])
  \/ \E p \in Players, t \in Types : Enter(p, t)
  \/ \E p \in Players, t \in Types : LeaveQueue(p, t)
  \/ \E p \in Players : \E e \in events[p] : RemoveEventExecutes(p, e)
  \/ \E p \in Players : HandleMoveWorldportAck(p)
  \/ \E p \in Players : TeleportTo(p)
  \/ \E p \in Players : LogoutPlayer(p)
  \/ \E p \in Players : LoadFromDB(p)
  \/ \E t \in Types : UpdateScheduled(t)
  \/ \E b \in BGs : DeleteBattle(b)
  \/ \E b \in BGs : RemoveOffline(b)
  \/ \E b \in BGs : EndBattle(b)
  \/ \E b \in BGs : CloseBattle(b)

Spec == Init /\ [][Next]_vars

-----------------------------------------------------------------------------
(* Properties.                                                             *)

\* Of team, those who have a place in battleground b: they are invited, on
\* the way to it, or in it.
InvitedIn(b, team) == UNION {g.players : g \in
  {h \in GroupsOf(bg[b].type) : h.invited = b /\ h.team = team}}
OnTheWay(p, b) == where[p] = "far" /\ bgOf[p] = b /\ members[b][p] = "out"
PlacesTaken(b, team) ==
  InvitedIn(b, team) \cup
  {p \in Players : TeamOf[p] = team /\ (OnTheWay(p, b) \/ members[b][p] # "out")}

\* The count of invited players that a battleground keeps, and that the
\* queue, the handlers and the battleground change in turn, is the number of
\* places taken (BattleGround::m_InvitedAlliance and m_InvitedHorde).
InvitedCounted ==
  \A b \in BGs : Live(b) =>
    \A team \in Teams : bg[b].invited[team] = Cardinality(PlacesTaken(b, team))

\* No team has more players than fit, those counted who are invited, on the
\* way or offline (FillPlayersToBG asks for free places of each team).
NoTeamOverfull ==
  \A b \in BGs : Live(b) =>
    \A team \in Teams : Cardinality(PlacesTaken(b, team)) <= MaxPlayersPerTeam[bg[b].type]

\* The slots a player has and the queues agree: no slot, no place in the
\* queue; one group that waits, or one invitation, for each slot; and a slot
\* with an invitation that is in no queue belongs to the battleground in
\* which the player is, or to which he goes.  Who is offline waits nowhere,
\* and nobody is in two battlegrounds (the comments of BGQueueRemoveEvent
\* count on it).
SlotsMatchQueue ==
  \A p \in Players :
    /\ \A t \in Types :
         LET groups == {g \in GroupsOf(t) : p \in g.players} IN
         /\ Cardinality(groups) <= 1
         /\ slot[p][t] = NoSlot => groups = {}
         /\ slot[p][t] = Waiting => \E g \in groups : g.invited = NoBg
         /\ slot[p][t] \in BGs =>
              /\ Live(slot[p][t]) /\ bg[slot[p][t]].type = t
              /\ \/ \E g \in groups : g.invited = slot[p][t]
                 \/ groups = {} /\ bgOf[p] = slot[p][t]
    /\ where[p] = "off" => \A t \in Types : ~Queued(p, t)
    /\ \A b \in BGs : members[b][p] # "out" => bgOf[p] = b

\* A player who is invited and stays in the world loses his invitation by
\* his own answer or by the timer of this invitation, never by one left from
\* an earlier invitation (the five cases at BGQueueRemoveEvent::Execute).
OnlyOwnTimerRemoves ==
  [][\A t \in Types : \A g \in GroupsOf(t) : \A p \in g.players :
       (g.invited # NoBg /\ ~Queued(p, t)' /\ where'[p] = "world") =>
         events[p] \ events'[p] \subseteq
           {[type |-> t, bg |-> g.invited, time |-> g.time]}]_vars

\* Who is invited and can be found has the timer of this very invitation, so
\* that he does not keep his place for ever: whatever became of earlier
\* timers, of the battleground, and of the others of his group
\* (InviteGroupToBG adds it, BGQueueRemoveEvent::Execute uses it up).
InvitationTimed ==
  \A t \in Types : \A g \in GroupsOf(t) : \A p \in g.players :
    g.invited # NoBg =>
      [type |-> t, bg |-> g.invited, time |-> g.time] \in events[p]
=============================================================================
