------------------------------- MODULE Consoles -------------------------------
(***************************************************************************)
(* The two consoles of the dashboard, each a page of one operator: the     *)
(* command console, and the assistant's, which drafts commands that the    *)
(* operator approves by number. Both choose targets the same way; both     *)
(* call runCommandAction and wait for its answer while the page stays      *)
(* usable. The assistant's reply arrives as a stream from /api/ai/chat,    *)
(* into a scrollback that may be cleared at any time.                      *)
(*                                                                         *)
(* Of the scrollback the model keeps prompts, replies and runs; notes,     *)
(* which nothing reads, are left out. A reply is a sequence of blocks:     *)
(* prose, or a fenced command, which is not whole until its fence closes.  *)
(***************************************************************************)
EXTENDS Integers, Sequences, FiniteSets

CONSTANTS
  Hosts,            \* devices the page was loaded with
  Broadcasts,       \* broadcast groups
  HostsOf,          \* [Broadcasts -> SUBSET Hosts]
  ShellCommands,    \* command lines
  Prose,            \* the content of a block that is not a command
  NotChosen,        \* the operator has not chosen targets
  NoBroadcast,
  LineLimit,        \* bound on lines typed
  EntryLimit,       \* bound on entries
  BlockLimit,       \* bound on the blocks of a reply
  MaxMessages,      \* messages /api/ai/chat accepts (40)
  MaxMessageBlocks, \* blocks a message of it may have (8000 characters)
  HistoryTurns,     \* turns the provider is given (24)
  AiPerHour         \* AI_RATE_LIMIT_PER_HOUR

ASSUME ConsolesAssumption ==
  /\ HostsOf \in [Broadcasts -> SUBSET Hosts]
  /\ NoBroadcast \notin Broadcasts /\ Prose \notin ShellCommands
  /\ {LineLimit, EntryLimit, BlockLimit, MaxMessages, MaxMessageBlocks,
      HistoryTurns, AiPerHour} \subseteq Nat \ {0}

VARIABLES
  console,       \* "none" until a page is loaded, then "command" or "ai"
  canExecute,    \* the operator holds command:execute
  online,        \* devices shown online
  chosen,        \* what the operator chose, or NotChosen
  broadcast,     \* the group commands go out to, or NoBroadcast
  lines,         \* lines typed so far
  busy,          \* Enter is ignored
  entries,       \* the scrollback
  nextId,
  proposals,     \* commands by proposal number
  calls,         \* calls of runCommandAction under way
  question,      \* the question being answered, or NoQuestion
  aiBudget       \* tokens of the rate limit of the assistant

targetVars  == <<chosen, broadcast>>
serverVars  == <<online, aiBudget>>
consoleVars == <<console, canExecute, targetVars, lines, busy, entries, nextId,
                 proposals, calls, question, serverVars>>

Blocks == [content : ShellCommands \cup {Prose}, whole : BOOLEAN]

PromptEntry(id) == [id |-> id, kind |-> "prompt"]
ReplyEntry(id)  ==
  [id |-> id, kind |-> "reply", text |-> <<>>, numbers |-> <<>>, error |-> FALSE]
RunEntry(id, n, block, outcome) ==
  [id |-> id, kind |-> "run", proposal |-> n, command |-> block, outcome |-> outcome]

\* segments: the commands of a text. An open fence ends with the text.
CommandBlocks(text) ==
  LET upTo[n \in 0..Len(text)] ==
        IF n = 0 THEN <<>>
        ELSE IF text[n].content = Prose THEN upTo[n - 1]
        ELSE Append(upTo[n - 1], text[n])
  IN  upTo[Len(text)]

\* Of a question: its reply, the turns and the targets that go with it, how far
\* it is, and what has arrived.
NoQuestion == [reply |-> 0, turns |-> <<>>, scope |-> {}, at |-> "none", text |-> <<>>]

ConsolesTypeOK ==
  /\ console \in {"none", "command", "ai"} /\ canExecute \in BOOLEAN /\ busy \in BOOLEAN
  /\ online \subseteq Hosts
  /\ chosen \in (SUBSET Hosts) \cup {NotChosen}
  /\ broadcast \in Broadcasts \cup {NoBroadcast}
  /\ lines \in 0..LineLimit
  /\ nextId \in 1..EntryLimit + 1
  /\ \A i \in 1..Len(entries) :
       /\ entries[i].id < nextId
       /\ entries[i].kind \in {"prompt", "reply", "run"}
       /\ \A j \in 1..i - 1 : entries[j].id # entries[i].id
  /\ \A n \in 1..Len(proposals) : proposals[n] \in Blocks
  /\ calls \subseteq [entry : 1..EntryLimit, command : Blocks]
  /\ console = "ai" => busy = (question # NoQuestion)
  /\ aiBudget \in 0..AiPerHour

ConsolesInit ==
  /\ console = "none" /\ canExecute = FALSE /\ online = {}
  /\ chosen = NotChosen /\ broadcast = NoBroadcast
  /\ lines = 0 /\ busy = FALSE /\ entries = <<>> /\ nextId = 1 /\ proposals = <<>>
  /\ calls = {} /\ question = NoQuestion
  /\ aiBudget = AiPerHour

\* The page of a console, with the devices and the permission of that moment.
LoadConsole ==
  /\ console = "none"
  /\ console' \in {"command", "ai"} /\ canExecute' \in BOOLEAN
  /\ online' \in SUBSET Hosts
  /\ UNCHANGED <<targetVars, lines, busy, entries, nextId, proposals, calls, question,
                 aiBudget>>

-----------------------------------------------------------------------------
(* Targets. *)

\* The devices chosen: until then a lone online device is preselected.
ChosenHosts ==
  IF chosen # NotChosen THEN chosen
  ELSE IF Cardinality(online) = 1 THEN online ELSE {}

\* The assistant's console selects the members of the group instead.
AiSelected == IF broadcast # NoBroadcast THEN HostsOf[broadcast] ELSE ChosenHosts

SelectHosts(S)  == chosen' = S /\ broadcast' = NoBroadcast
SelectGroup(g)  == chosen' = {} /\ broadcast' = g
PressGroup(g)   ==
  /\ broadcast' = IF broadcast = g THEN NoBroadcast ELSE g
  /\ chosen' = {}

\* A device of the picker can be pressed while it is online. The group stays.
PressHost(d) ==
  /\ d \in online
  /\ chosen' = IF d \in ChosenHosts THEN ChosenHosts \ {d} ELSE ChosenHosts \cup {d}
  /\ UNCHANGED broadcast

\* "use": a group, every online device, none, a device, or a name nobody has.
UseLine ==
  \/ \E g \in Broadcasts : SelectGroup(g)
  \/ SelectHosts(online)
  \/ SelectHosts({})
  \/ \E d \in Hosts : SelectHosts({d})
  \/ UNCHANGED targetVars

CommandPicker ==
  /\ console = "command"
  /\ \/ SelectHosts(online)
     \/ (ChosenHosts # {} \/ broadcast # NoBroadcast) /\ SelectHosts({})
     \/ \E g \in Broadcasts : PressGroup(g)
     \/ \E d \in Hosts : PressHost(d)
  /\ UNCHANGED <<console, canExecute, lines, busy, entries, nextId, proposals, calls,
                 question, serverVars>>

AiPicker ==
  /\ console = "ai"
  /\ \/ SelectHosts(online)
     \/ (AiSelected # {} \/ broadcast # NoBroadcast) /\ SelectHosts({})
     \/ \E g \in Broadcasts : PressGroup(g)
     \/ \E d \in Hosts : PressHost(d)
  /\ UNCHANGED <<console, canExecute, lines, busy, entries, nextId, proposals, calls,
                 question, serverVars>>

-----------------------------------------------------------------------------
(* Typing. *)

\* onKeyDown, Enter: any line, typed or recalled by the arrows, unless busy.
Enter == ~busy /\ lines < LineLimit /\ lines' = lines + 1

\* Ctrl+L and "Clear output", busy or not. Proposals keep their numbers.
ClearOutput ==
  /\ entries # <<>>
  /\ entries' = <<>>
  /\ UNCHANGED <<console, canExecute, targetVars, lines, busy, nextId, proposals, calls,
                 question, serverVars>>

-----------------------------------------------------------------------------
(* The command console. *)

\* A line that reaches no device: "clear", "use", a line that only adds notes, or
\* a command without permission or target.
CommandBuiltin ==
  /\ console = "command" /\ canExecute /\ Enter
  /\ \/ entries' = <<>> /\ UNCHANGED targetVars
     \/ UseLine /\ UNCHANGED entries
  /\ UNCHANGED <<console, canExecute, busy, nextId, proposals, calls, question, serverVars>>

\* submit calls runCommandAction and waits; the entry comes with the answer.
Submit(c) ==
  /\ console = "command" /\ canExecute /\ Enter
  /\ ChosenHosts # {} \/ broadcast # NoBroadcast
  /\ nextId <= EntryLimit
  /\ busy' = TRUE
  /\ calls' = calls \cup {[entry |-> nextId, command |-> [content |-> c, whole |-> TRUE]]}
  /\ UNCHANGED <<console, canExecute, targetVars, entries, nextId, proposals, question,
                 serverVars>>

\* The action has answered: dispatched to some devices, or refused.
SubmitAnswered(call, outcome) ==
  /\ console = "command"
  /\ calls' = calls \ {call}
  /\ busy' = FALSE
  /\ nextId' = nextId + 1
  /\ entries' = Append(entries, RunEntry(nextId, 0, call.command, outcome))
  /\ UNCHANGED <<console, canExecute, targetVars, lines, proposals, question, serverVars>>

\* The action rejects (the server cannot be reached, or requirePermission
\* throws): nothing catches it, and the input stays busy.
SubmitLost(call) ==
  /\ console = "command"
  /\ calls' = calls \ {call}
  /\ UNCHANGED <<console, canExecute, targetVars, lines, busy, entries, nextId,
                 proposals, question, serverVars>>

-----------------------------------------------------------------------------
(* Runs of proposals. *)

\* runProposal: the entry first, then the action, which does not make the input
\* busy. Without proposal, permission or target it only adds a note.
RunProposal(n, shown, id) ==
  LET runs == n \in 1..Len(proposals) /\ canExecute /\ AiSelected # {}
  IN  /\ entries' = IF runs THEN Append(shown, RunEntry(id, n, proposals[n], "waits"))
                    ELSE shown
      /\ calls' = IF runs THEN calls \cup {[entry |-> id, command |-> proposals[n]]}
                  ELSE calls
      /\ nextId' = IF runs THEN id + 1 ELSE id

\* The lines of submit that ask nothing: "clear", "use", "run", and those that
\* only add notes. All but "clear" are echoed as a prompt.
AiBuiltin ==
  /\ console = "ai" /\ Enter /\ nextId < EntryLimit
  /\ \/ entries' = <<>> /\ UNCHANGED <<targetVars, nextId, calls>>
     \/ /\ UseLine
        /\ entries' = Append(entries, PromptEntry(nextId))
        /\ nextId' = nextId + 1
        /\ UNCHANGED calls
     \/ /\ \E n \in 1..Len(proposals) + 1 :
             RunProposal(n, Append(entries, PromptEntry(nextId)), nextId + 1)
        /\ UNCHANGED targetVars
  /\ UNCHANGED <<console, canExecute, busy, proposals, question, serverVars>>

\* The button under a numbered command.
PressRun(n) ==
  /\ console = "ai" /\ nextId <= EntryLimit
  /\ \E i \in 1..Len(entries) :
       /\ entries[i].kind = "reply"
       /\ \E k \in 1..Len(entries[i].numbers) : entries[i].numbers[k] = n
  /\ canExecute /\ AiSelected # {}
  /\ RunProposal(n, entries, nextId)
  /\ UNCHANGED <<console, canExecute, targetVars, lines, busy, proposals, question,
                 serverVars>>

\* setEntries with an update of the entry "id", if it is still there.
Updated(id, field, value) ==
  [i \in 1..Len(entries) |->
    IF entries[i].id = id THEN [entries[i] EXCEPT ![field] = value] ELSE entries[i]]

RunAnswered(call, outcome) ==
  /\ console = "ai"
  /\ calls' = calls \ {call}
  /\ entries' = Updated(call.entry, "outcome", outcome)
  /\ UNCHANGED <<console, canExecute, targetVars, lines, busy, nextId, proposals,
                 question, serverVars>>

\* The action rejects: the entry waits for ever.
RunLost(call) ==
  /\ console = "ai"
  /\ calls' = calls \ {call}
  /\ UNCHANGED <<console, canExecute, targetVars, lines, busy, entries, nextId,
                 proposals, question, serverVars>>

-----------------------------------------------------------------------------
(* Questions to the assistant. *)

\* The turns of the conversation on the screen, as numbers of blocks. Lines that
\* asked nothing count as turns of the user; empty replies do not.
PriorTurns ==
  LET turns == SelectSeq(entries, LAMBDA e : e.kind = "prompt" \/
                                             (e.kind = "reply" /\ e.text # <<>>))
  IN  [i \in 1..Len(turns) |-> IF turns[i].kind = "prompt" THEN 1 ELSE Len(turns[i].text)]

AskAssistant ==
  /\ console = "ai" /\ Enter /\ nextId < EntryLimit
  /\ entries' = entries \o <<PromptEntry(nextId), ReplyEntry(nextId + 1)>>
  /\ nextId' = nextId + 2
  /\ busy' = TRUE
  /\ question' = [reply |-> nextId + 1, turns |-> Append(PriorTurns, 1),
                  scope |-> AiSelected, at |-> "route", text |-> <<>>]
  /\ UNCHANGED <<console, canExecute, targetVars, proposals, calls, serverVars>>

\* bodySchema
Fits(turns) ==
  /\ Len(turns) <= MaxMessages
  /\ \A i \in 1..Len(turns) : turns[i] <= MaxMessageBlocks

\* streamChat: the last turns go to the provider.
LastTurns(turns) ==
  SubSeq(turns, (IF Len(turns) > HistoryTurns THEN Len(turns) - HistoryTurns ELSE 0) + 1,
         Len(turns))

\* buildDeviceRoster and the others: the devices selected that the team still has,
\* or, if there are none, all its devices.
Context(targets, team) == IF targets \cap team = {} THEN team ELSE targets \cap team

\* POST: a token is taken only for a request that may be answered.
AcceptQuestion ==
  /\ question # NoQuestion /\ question.at = "route"
  /\ Fits(question.turns) /\ aiBudget > 0
  /\ aiBudget' = aiBudget - 1
  /\ \E team \in SUBSET Hosts :
       question' = [question EXCEPT !.at = "stream", !.turns = LastTurns(@),
                                    !.scope = Context(@, team)]
  /\ UNCHANGED <<console, canExecute, targetVars, lines, busy, entries, nextId,
                 proposals, calls, online>>

\* ask ends: finally makes the input usable again.
Finish(shown) ==
  /\ entries' = shown
  /\ busy' = FALSE
  /\ question' = NoQuestion
  /\ UNCHANGED <<console, canExecute, targetVars, lines, nextId, calls, serverVars>>

\* 401, 403, 400 or 429, or the connection is lost, even in the midst of a reply:
\* what has arrived stays, without numbers.
QuestionFails ==
  /\ question # NoQuestion
  /\ Finish(Updated(question.reply, "error", TRUE))
  /\ UNCHANGED proposals

\* A delta of the provider, shown at once: the rest of an open fence, or else prose
\* or a fence that opens.
IsOpen(text)    == text # <<>> /\ ~text[Len(text)].whole
WithProse(text) == Append(text, [content |-> Prose, whole |-> TRUE])
Grown(text) ==
  IF IsOpen(text) THEN {[text EXCEPT ![Len(text)].whole = TRUE]}
  ELSE IF Len(text) = BlockLimit THEN {}
  ELSE {WithProse(text)} \cup
       {Append(text, [content |-> c, whole |-> FALSE]) : c \in ShellCommands}

ReplyGrows ==
  /\ question # NoQuestion /\ question.at = "stream"
  /\ \E text \in Grown(question.text) :
       /\ question' = [question EXCEPT !.text = text]
       /\ entries' = Updated(question.reply, "text", text)
  /\ UNCHANGED <<console, canExecute, targetVars, lines, busy, nextId, proposals, calls,
                 serverVars>>

\* The commands of the reply, if it is still on the screen.
RepliedCommands(shown) ==
  LET places == {i \in 1..Len(shown) : shown[i].id = question.reply}
  IN  IF places = {} THEN <<>> ELSE CommandBlocks(shown[CHOOSE i \in places : TRUE].text)

\* They get the numbers from "first" on.
WithNumbers(shown, first) ==
  [i \in 1..Len(shown) |->
    IF shown[i].id = question.reply
    THEN [shown[i] EXCEPT !.numbers =
            [k \in 1..Len(RepliedCommands(shown)) |-> first + k - 1]]
    ELSE shown[i]]

\* Mutated: every reply numbers its commands from 1.
NumberedFromOne(shown) ==
  LET commands == RepliedCommands(shown)
  IN  /\ Finish(WithNumbers(shown, 1))
      /\ proposals' = commands \o SubSeq(proposals, Len(commands) + 1, Len(proposals))

\* The next numbers, after those of all replies before.
Numbered(shown) ==
  /\ Finish(WithNumbers(shown, Len(proposals) + 1))
  /\ proposals' = proposals \o RepliedCommands(shown)

\* The stream closes: the provider is done, has cut the reply at its limit, or
\* failed; then the route adds a message, inside the fence if one is open.
ReplyEnds ==
  /\ question # NoQuestion /\ question.at = "stream"
  /\ \/ Numbered(entries)
     \/ /\ ~IsOpen(question.text) /\ Len(question.text) < BlockLimit
        /\ Numbered(Updated(question.reply, "text", WithProse(question.text)))

-----------------------------------------------------------------------------
(* What the pages do not decide. *)

\* The event stream brings the status of a device, and the rate limit of the
\* assistant recovers.
ServerMoves ==
  /\ console # "none"
  /\ \/ /\ \E d \in Hosts : online' = IF d \in online THEN online \ {d} ELSE online \cup {d}
        /\ UNCHANGED aiBudget
     \/ /\ aiBudget < AiPerHour
        /\ aiBudget' = aiBudget + 1
        /\ UNCHANGED online
  /\ UNCHANGED <<console, canExecute, targetVars, lines, busy, entries, nextId, proposals,
                 calls, question>>

ConsolesNext ==
  \/ LoadConsole
  \/ CommandPicker \/ AiPicker \/ ClearOutput
  \/ CommandBuiltin \/ AiBuiltin \/ AskAssistant
  \/ \E c \in ShellCommands : Submit(c)
  \/ \E call \in calls, outcome \in {"dispatched", "refused"} :
       SubmitAnswered(call, outcome) \/ RunAnswered(call, outcome)
  \/ \E call \in calls : SubmitLost(call) \/ RunLost(call)
  \/ \E n \in 1..Len(proposals) : PressRun(n)
  \/ AcceptQuestion \/ ReplyGrows \/ ReplyEnds \/ QuestionFails
  \/ ServerMoves

ConsolesSpec == ConsolesInit /\ [][ConsolesNext]_consoleVars

-----------------------------------------------------------------------------
(* Properties. *)

\* "run n" and the button: whatever number the screen shows, it stands for the
\* command shown beside it, all of it, and a run shows the command of its number;
\* in spite of replies that stop halfway and a scrollback cleared meanwhile.
NumbersMeanWhatIsShown ==
  \A i \in 1..Len(entries) :
    LET e == entries[i]
    IN  /\ e.kind = "reply" /\ e.numbers # <<>> =>
             /\ Len(e.numbers) = Len(CommandBlocks(e.text))
             /\ \A k \in 1..Len(e.numbers) :
                  /\ e.numbers[k] \in 1..Len(proposals)
                  /\ proposals[e.numbers[k]] = CommandBlocks(e.text)[k]
        /\ e.kind = "run" /\ console = "ai" => proposals[e.proposal] = e.command
=============================================================================
