--------------------------- MODULE GroupMembership ---------------------------
(***************************************************************************)
(* Which group a device is in, in three places: its row in the database    *)
(* (group.service.ts), the broker's access lists (dynamic security), and   *)
(* the agent, which keeps a list, subscribes to the broadcast topics on it *)
(* and saves it (mqttc/client.go). handlers.ts pushes the row's group to   *)
(* the agent at every online status. One device; a group's name and the    *)
(* audit log are left out. A broker command may fail, and may be reported  *)
(* as failed although the broker ran it.                                   *)
(***************************************************************************)
EXTENDS Naturals, FiniteSets

CONSTANTS
  Groups,
  Editors,       \* requests of group.service.ts under way at once
  Pushers,       \* executions of handleStatus under way at once
  Updaters,      \* executions of UpdateGroups under way at once in the agent
  EditLimit,     \* bound on the requests that move the device or delete a group
  FaultLimit,    \* bound on lost connections and restarts of the agent
  NoGroup

ASSUME GroupsAssumption ==
  EditLimit \in Nat /\ FaultLimit \in Nat /\ NoGroup \notin Groups

VARIABLES
  groupRow,      \* per group: "none", "present", "deleted", or "failed"
  groupOf,       \* the device's group in the database
  brokerRoles, brokerGroups, \* at the broker
  brokerMember,  \* groups the broker has the device in
  editor,        \* per request: kind, step, and the groups it goes from and to
  pusher,        \* per execution of handleStatus: the list it is about to push
  connected,
  pushed,        \* lists on their way to the agent
  agentGroups,   \* c.groups
  subscribedTo,  \* broadcast topics the agent's session is subscribed to
  savedGroups,   \* the agent's config file
  updater,       \* per execution of UpdateGroups: step, previous list, new list
  edits, groupFaults,
  \* history
  hastened       \* groups whose deletion began while they were being created

groupVars == <<groupRow, groupOf, brokerRoles, brokerGroups, brokerMember, editor,
               pusher, connected, pushed, agentGroups, subscribedTo, savedGroups,
               updater, edits, groupFaults, hastened>>
groupRowVars == <<groupRow, groupOf>>
accessVars == <<brokerRoles, brokerGroups, brokerMember>>
sessionVars == <<connected, pushed, subscribedTo>>
subscriberVars == <<agentGroups, savedGroups, updater>>
countVars == <<edits, groupFaults, hastened>>

Lists == {{}} \cup {{g} : g \in Groups}
GroupChoice == Groups \cup {NoGroup}
ListOf(g) == IF g = NoGroup THEN {} ELSE {g}
Unedited == [kind |-> "none", step |-> "idle", from |-> NoGroup, to |-> NoGroup]
NotUpdating == [step |-> "idle", old |-> {}, new |-> {}]

GroupsTypeOK ==
  /\ groupRow \in [Groups -> {"none", "present", "deleted", "failed"}]
  /\ groupOf \in GroupChoice
  /\ brokerRoles \subseteq Groups /\ brokerGroups \subseteq Groups
  /\ brokerMember \subseteq Groups
  /\ editor \in [Editors ->
       [kind : {"none", "create", "delete", "move"},
        step : {"idle", "role", "group", "remove", "add", "dropGroup", "dropRole",
                "row", "undo", "notify"},
        from : GroupChoice, to : GroupChoice]]
  /\ pusher \in [Pushers -> Lists \cup {NoGroup}]
  /\ connected \in BOOLEAN /\ pushed \subseteq Lists
  /\ agentGroups \in Lists /\ savedGroups \in Lists
  /\ subscribedTo \subseteq Groups
  /\ updater \in [Updaters ->
       [step : {"idle", "drop", "add", "save"}, old : Lists, new : Lists]]
  /\ edits \in 0..EditLimit /\ groupFaults \in 0..FaultLimit
  /\ hastened \subseteq Groups

GroupsInit ==
  /\ groupRow = [g \in Groups |-> "none"] /\ groupOf = NoGroup
  /\ brokerRoles = {} /\ brokerGroups = {} /\ brokerMember = {}
  /\ editor = [e \in Editors |-> Unedited]
  /\ pusher = [p \in Pushers |-> NoGroup]
  /\ connected = FALSE /\ pushed = {} /\ subscribedTo = {}
  /\ agentGroups = {} /\ savedGroups = {}
  /\ updater = [k \in Updaters |-> NotUpdating]
  /\ edits = 0 /\ groupFaults = 0 /\ hastened = {}

-----------------------------------------------------------------------------
(* The session. The broker drops a client whose access it changes; the     *)
(* session is clean, so nothing is queued for its return.                  *)

EndSession == connected' = FALSE /\ pushed' = {} /\ subscribedTo' = {}

SetMembers(new) ==
  /\ brokerMember' = new
  /\ IF new = brokerMember THEN UNCHANGED sessionVars ELSE EndSession

SendList(list) ==
  /\ pushed' = IF connected THEN pushed \cup {list} ELSE pushed
  /\ UNCHANGED <<connected, subscribedTo>>

-----------------------------------------------------------------------------
(* group.service.ts, call by call.                                         *)

EditorAt(e, kind, step) == editor[e].kind = kind /\ editor[e].step = step
Go(e, step) == editor' = [editor EXCEPT ![e].step = step]
Stop(e) == editor' = [editor EXCEPT ![e] = Unedited]

Begin(e, kind, step, from, to) ==
  /\ editor[e].step = "idle"
  /\ IF kind = "create" THEN UNCHANGED edits
     ELSE edits < EditLimit /\ edits' = edits + 1
  /\ editor' = [editor EXCEPT ![e] =
                  [kind |-> kind, step |-> step, from |-> from, to |-> to]]
  /\ UNCHANGED <<groupOf, accessVars, sessionVars, groupFaults>>

\* createGroup: the row; provisionBrokerGroup; on an error the row goes again.
BeginCreate(e, g) ==
  /\ groupRow[g] = "none"
  /\ groupRow' = [groupRow EXCEPT ![g] = "present"]
  /\ Begin(e, "create", "role", NoGroup, g)
  /\ UNCHANGED hastened

ProvisionRole(e) ==
  /\ EditorAt(e, "create", "role")
  /\ \/ brokerRoles' = brokerRoles \cup {editor[e].to} /\ Go(e, "group")
     \/ /\ brokerRoles' \in {brokerRoles, brokerRoles \cup {editor[e].to}}
        /\ Go(e, "undo")
  /\ UNCHANGED <<groupRowVars, brokerGroups, brokerMember, sessionVars, countVars>>

ProvisionGroup(e) ==
  /\ EditorAt(e, "create", "group")
  /\ \/ brokerGroups' = brokerGroups \cup {editor[e].to} /\ Stop(e)
     \/ /\ brokerGroups' \in {brokerGroups, brokerGroups \cup {editor[e].to}}
        /\ Go(e, "undo")
  /\ UNCHANGED <<groupRowVars, brokerRoles, brokerMember, sessionVars, countVars>>

\* Deleting a row of device_groups sets the group of its devices to null.
DropRow(g, state) ==
  /\ groupRow' = [groupRow EXCEPT ![g] = state]
  /\ groupOf' = IF groupOf = g THEN NoGroup ELSE groupOf

UndoCreate(e) ==
  /\ EditorAt(e, "create", "undo") /\ groupRow[editor[e].to] = "present"
  /\ DropRow(editor[e].to, "failed")
  /\ Stop(e)
  /\ UNCHANGED <<accessVars, sessionVars, countVars>>

\* setDeviceGroup reads the row; deleteGroup the devices of the group.
BeginMove(e, to) ==
  /\ to # NoGroup => groupRow[to] = "present"
  /\ Begin(e, "move", IF groupOf = to THEN "row"
                      ELSE IF groupOf = NoGroup THEN "add" ELSE "remove", groupOf, to)
  /\ UNCHANGED <<groupRow, hastened>>

BeingCreated(g) ==
  \E c \in Editors : editor[c].kind = "create" /\ editor[c].to = g
BeginDelete(e, g) ==
  /\ groupRow[g] = "present"
  /\ Begin(e, "delete", IF groupOf = g THEN "remove" ELSE "dropGroup",
           g, NoGroup)
  /\ hastened' = IF BeingCreated(g) THEN hastened \cup {g} ELSE hastened
  /\ UNCHANGED groupRow

\* removeFromBrokerGroup: "not found" is no error; deleteGroup goes on after one.
RemoveFromBroker(e) ==
  /\ editor[e].step = "remove"
  /\ \/ /\ SetMembers(brokerMember \ {editor[e].from})
        /\ Go(e, IF editor[e].kind = "delete" THEN "dropGroup"
                 ELSE IF editor[e].to = NoGroup THEN "row" ELSE "add")
     \/ /\ \E new \in {brokerMember, brokerMember \ {editor[e].from}} : SetMembers(new)
        /\ IF editor[e].kind = "delete" THEN Go(e, "dropGroup") ELSE Stop(e)
  /\ UNCHANGED <<groupRowVars, brokerRoles, brokerGroups, countVars>>

AddToBroker(e) ==
  LET added == IF editor[e].to \in brokerGroups THEN {editor[e].to} ELSE {} IN
  /\ editor[e].step = "add"
  /\ \/ added # {} /\ SetMembers(brokerMember \cup added) /\ Go(e, "row")
     \/ /\ \E new \in {brokerMember, brokerMember \cup added} : SetMembers(new)
        /\ Stop(e)
  /\ UNCHANGED <<groupRowVars, brokerRoles, brokerGroups, countVars>>

\* Mutated: an error of the broker is ignored.
DropBrokerGroupOrNot(e) ==
  LET g == editor[e].from IN
  /\ editor[e].step = "dropGroup"
  /\ \/ brokerGroups' = brokerGroups \ {g} /\ SetMembers(brokerMember \ {g})
     \/ UNCHANGED <<brokerGroups, brokerMember, sessionVars>>
  /\ Go(e, "dropRole")
  /\ UNCHANGED <<groupRowVars, brokerRoles, countVars>>

DropBrokerGroup(e) ==
  LET g == editor[e].from IN
  /\ editor[e].step = "dropGroup"
  /\ \/ /\ brokerGroups' = brokerGroups \ {g} /\ SetMembers(brokerMember \ {g})
        /\ Go(e, "dropRole") \/ Stop(e)
     \/ UNCHANGED <<brokerGroups, brokerMember, sessionVars>> /\ Stop(e)
  /\ UNCHANGED <<groupRowVars, brokerRoles, countVars>>

DropBrokerRole(e) ==
  /\ editor[e].step = "dropRole"
  /\ \/ brokerRoles' = brokerRoles \ {editor[e].from} /\ (Go(e, "row") \/ Stop(e))
     \/ UNCHANGED brokerRoles /\ Stop(e)
  /\ UNCHANGED <<groupRowVars, brokerGroups, brokerMember, sessionVars, countVars>>

WriteRow(e) ==
  /\ editor[e].step = "row"
  /\ IF editor[e].kind = "delete"
     THEN groupRow[editor[e].from] = "present" /\ DropRow(editor[e].from, "deleted")
     ELSE /\ editor[e].to # NoGroup => groupRow[editor[e].to] = "present"
          /\ groupOf' = editor[e].to /\ UNCHANGED groupRow
  /\ Go(e, "notify")
  /\ UNCHANGED <<accessVars, sessionVars, countVars>>

\* Best effort. deleteGroup notifies only the devices it has read.
NotifyAgent(e) ==
  /\ editor[e].step = "notify"
  /\ SendList(ListOf(editor[e].to)) \/ UNCHANGED sessionVars
  /\ Stop(e)
  /\ UNCHANGED <<groupRowVars, accessVars, countVars>>

\* A database call fails, or the web process goes down.
FailEdit(e) ==
  /\ editor[e].step # "idle"
  /\ Stop(e)
  /\ UNCHANGED <<groupRowVars, accessVars, sessionVars, countVars>>

EditorStep(e) ==
  \/ ProvisionRole(e) \/ ProvisionGroup(e) \/ UndoCreate(e) \/ RemoveFromBroker(e)
  \/ AddToBroker(e) \/ DropBrokerGroup(e) \/ DropBrokerRole(e) \/ WriteRow(e)
  \/ NotifyAgent(e) \/ FailEdit(e)

Edit(e) ==
  /\ \/ EditorStep(e) \/ BeginMove(e, NoGroup)
     \/ \E g \in Groups : BeginCreate(e, g) \/ BeginMove(e, g) \/ BeginDelete(e, g)
  /\ UNCHANGED <<pusher, subscriberVars>>

-----------------------------------------------------------------------------
(* handleStatus for an online status: the group is read with the device,   *)
(* and pushed after the update.                                            *)

ReadGroup(p) ==
  /\ connected /\ pusher[p] = NoGroup
  /\ pusher' = [pusher EXCEPT ![p] = ListOf(groupOf)]
  /\ UNCHANGED <<groupRowVars, accessVars, editor, sessionVars, subscriberVars,
                 countVars>>

\* Mutated: a device without a group is sent nothing.
PushGroupsIfAny(p) ==
  /\ pusher[p] # NoGroup
  /\ IF pusher[p] = {} THEN UNCHANGED sessionVars ELSE SendList(pusher[p])
  /\ pusher' = [pusher EXCEPT ![p] = NoGroup]
  /\ UNCHANGED <<groupRowVars, accessVars, editor, subscriberVars, countVars>>

PushGroups(p) ==
  /\ pusher[p] # NoGroup
  /\ SendList(pusher[p])
  /\ pusher' = [pusher EXCEPT ![p] = NoGroup]
  /\ UNCHANGED <<groupRowVars, accessVars, editor, subscriberVars, countVars>>

-----------------------------------------------------------------------------
(* The agent. Messages are handled concurrently (SetOrderMatters(false)).  *)

\* OnConnect; a subscription the broker denies is logged.
Reconnect ==
  /\ ~connected
  /\ connected' = TRUE
  /\ subscribedTo' = agentGroups \cap brokerMember
  /\ UNCHANGED <<groupRowVars, accessVars, editor, pusher, pushed, subscriberVars,
                 countVars>>

\* UpdateGroups, up to the end of its critical section.
Receive(list) ==
  /\ list \in pushed
  /\ pushed' = pushed \ {list}
  /\ \E k \in Updaters :
       /\ updater[k].step = "idle"
       /\ updater' = [updater EXCEPT ![k] =
                        [step |-> "drop", old |-> agentGroups, new |-> list]]
  /\ agentGroups' = list
  /\ UNCHANGED <<groupRowVars, accessVars, editor, pusher, connected, subscribedTo,
                 savedGroups, countVars>>

DropTopics(k) ==
  /\ updater[k].step = "drop"
  /\ subscribedTo' = subscribedTo \ (updater[k].old \ updater[k].new)
  /\ updater' = [updater EXCEPT ![k].step = "add"]
  /\ UNCHANGED <<groupRowVars, accessVars, editor, pusher, connected, pushed,
                 agentGroups, savedGroups, countVars>>

\* An error ends UpdateGroups.
SubscribeNew(k) ==
  LET new == updater[k].new \ updater[k].old
      refused == new # {} /\ ~(connected /\ new \subseteq brokerMember) IN
  /\ updater[k].step = "add"
  /\ subscribedTo' = IF refused THEN subscribedTo ELSE subscribedTo \cup new
  /\ updater' = [updater EXCEPT ![k] =
                   IF refused THEN NotUpdating ELSE [@ EXCEPT !.step = "save"]]
  /\ UNCHANGED <<groupRowVars, accessVars, editor, pusher, connected, pushed,
                 agentGroups, savedGroups, countVars>>

\* Calls share c.cfg without a lock: one may save the list of another. Saving
\* may fail.
SaveGroups(k) ==
  /\ updater[k].step = "save"
  /\ \/ \E j \in Updaters : updater[j].step = "save" /\ savedGroups' = updater[j].new
     \/ UNCHANGED savedGroups
  /\ updater' = [updater EXCEPT ![k] = NotUpdating]
  /\ UNCHANGED <<groupRowVars, accessVars, editor, pusher, sessionVars, agentGroups,
                 countVars>>

LoseSession ==
  /\ connected /\ groupFaults < FaultLimit
  /\ groupFaults' = groupFaults + 1
  /\ EndSession
  /\ UNCHANGED <<groupRowVars, accessVars, editor, pusher, subscriberVars, edits,
                 hastened>>

RestartAgentProcess ==
  /\ groupFaults < FaultLimit
  /\ groupFaults' = groupFaults + 1
  /\ EndSession
  /\ agentGroups' = savedGroups
  /\ updater' = [k \in Updaters |-> NotUpdating]
  /\ UNCHANGED <<groupRowVars, accessVars, editor, pusher, savedGroups, edits, hastened>>

UpdaterStep(k) == DropTopics(k) \/ SubscribeNew(k) \/ SaveGroups(k)

GroupsNext ==
  \/ \E e \in Editors : Edit(e)
  \/ \E p \in Pushers : ReadGroup(p) \/ PushGroups(p)
  \/ Reconnect \/ LoseSession \/ RestartAgentProcess
  \/ \E list \in Lists : Receive(list)
  \/ \E k \in Updaters : UpdaterStep(k)

GroupsSpec == GroupsInit /\ [][GroupsNext]_groupVars

-----------------------------------------------------------------------------
(* Properties.                                                             *)

Wanted == ListOf(groupOf)

\* A group that was deleted has no group at the broker and no members there,
\* whoever was adding the device or deleting the group meanwhile and whichever
\* call failed: nobody goes on hearing the broadcasts of a deleted group
\* (deleteGroup). Not so if the row was there to be deleted before the broker had
\* the group: createGroup writes the row first, and provisions it all the same.
DeletedGroupIsGone ==
  \A g \in Groups :
    groupRow[g] = "deleted" /\ g \notin hastened =>
      g \notin brokerGroups \cup brokerMember

\* After the last change the agent's list comes to be the one in the database,
\* whatever was lost, overtaken or pushed stale on the way (pushGroups).
ListConverges == <>[](agentGroups = Wanted)
============================================================================
