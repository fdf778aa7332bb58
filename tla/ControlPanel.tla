---------------------------- MODULE ControlPanel ----------------------------
(***************************************************************************)
(* The demo control panel: the facade that joins the WebSocket client to   *)
(* the board (panel/facade.js), with the parts of the view, of the panels  *)
(* and of the parser that keep state.                                      *)
(*                                                                         *)
(* What is on the page is state here: the cards of the board in document   *)
(* order with the rows of the tables, the ids in use, the list of tables.  *)
(* A callback is an operator from a panel to the panel it leaves behind,   *)
(* with the requests it made (calls) and whether an exception ended it     *)
(* (thrown); what comes after an exception is not done.  Left out: what    *)
(* the cards show (values, times, status icons), the counters of the list, *)
(* the menus of the dialog (a menu of any variable may be open at any      *)
(* time), and array variables, which are never listed.                     *)
(***************************************************************************)
EXTENDS BrowserClient

CONSTANTS
  DefaultTools,   \* settings.json: the tools shown at first, per variable
  MaxCards,       \* the card ids there are: 64 in the code
  MaxRows,        \* the rows of a table: 4 in the code
  MaxTools,       \* bound: the tools of a variable the user asks for
  MaxRequests,    \* bound: the user is idle while so many answers wait
  Table,          \* the owner of a table card, no variable
  NoTool          \* null

VARIABLES
  panel,     \* [tools, board, cardIds, tableList, calls, thrown, lost], see PanelInit
  init,      \* the default display is still to be made
  missed     \* history: the variables for which what is shown and what is
             \* monitored may have parted, see MissedBy

panelVars == <<panel, init>>
vars == <<clientVars, serverVars, toClient, panelVars, missed>>

Ids == 0 .. (MaxCards - 1)
ToolTypes == {"TABLE", "CARD"}
Tools == [type : ToolTypes, id : Ids] \cup {NoTool}

\* What an entry of tools.json can be: a table or a card; a card without a
\* size ("UNSIZED"), or one whose gauge cannot be built ("UNBUILT").  The
\* entries the repository ships all have a size.
Kinds == ToolTypes \cup {"UNSIZED", "UNBUILT"}

ASSUME BoardAssumption ==
  /\ MaxCards \in Nat /\ MaxRows \in Nat \ {0}
  /\ Table \notin Variables
  /\ NoTool \notin Ids /\ NoTool \notin [type : ToolTypes, id : Ids]

ASSUME SettingsAssumption == \A v \in DOMAIN DefaultTools : DefaultTools[v] \in Seq(Kinds)

-----------------------------------------------------------------------------
(* Looking at a panel.                                                     *)

Listed(p) == DOMAIN p.tools
Shown(p)  == {v \in Listed(p) : p.tools[v] # <<>>}
Broken(p) == {v \in Listed(p) : NoTool \in Range(p.tools[v])}

\* The card with this id: document.getElementById("variable_div_board_" + id).
CardAt(p, id) == CHOOSE i \in DOMAIN p.board : p.board[i].id = id

RowsOf(p, id) == p.board[CardAt(p, id)].rows

\* The first card with a row of the variable: all rows of a variable have the
\* same element id, and the document gives the first of them.
RowCard(p, v) == SelectInSeq(p.board, LAMBDA c : v \in Range(c.rows))

\* F(p), with p evaluated once: the operators below use their panel often.
Of(p, F(_)) == CHOOSE q \in {F(x) : x \in {p}} : TRUE

Throw(p) == [p EXCEPT !.thrown = TRUE]
Call(p, request) == [p EXCEPT !.calls = Append(@, request)]

-----------------------------------------------------------------------------
(* Cards and tables.                                                       *)

FreeIds(p) == Ids \ p.cardIds

\* generateNewCardId: the first slot of the array that is free.
generateNewCardId(p) == CHOOSE id \in FreeIds(p) : \A other \in FreeIds(p) : id <= other

AddCard(p, card) ==
  [p EXCEPT !.cardIds = @ \cup {card.id}, !.board = Append(@, card)]

\* The elements of a sequence of cards or tools that have another id.
Without(list, id) == Keep(list, {x \in Range(list) : x.id # id})

\* Fault: the card leaves the board and its id stays taken.
RemoveCardOnly(p, id) == [p EXCEPT !.board = Without(@, id)]

removeCard(p, id) == [p EXCEPT !.cardIds = @ \ {id}, !.board = Without(@, id)]

\* findTable: the first table with room, else a new one.  NoTool when no card
\* id is left.
findTable(p) ==
  LET open == SelectInSeq(p.tableList, LAMBDA id : Len(RowsOf(p, id)) < MaxRows) IN
  IF open # 0 THEN [panel |-> p, id |-> p.tableList[open]]
  ELSE IF FreeIds(p) = {} THEN [panel |-> p, id |-> NoTool]
  ELSE LET id == generateNewCardId(p) IN
       [panel |-> [AddCard(p, [id |-> id, owner |-> Table, rows |-> <<>>])
                     EXCEPT !.tableList = Append(@, id)],
        id |-> id]

removeTable(p, id) ==
  IF RowsOf(p, id) # <<>> THEN p
  ELSE [removeCard(p, id) EXCEPT !.tableList = Keep(@, Ids \ {id})]

\* TablePanel.removeVariable: the document's first row of the variable is
\* removed from the table, an exception when it is in another table.
RemoveRow(p, id, v) ==
  LET i == RowCard(p, v) IN
  IF i = 0 \/ p.board[i].id # id THEN Throw(p)
  ELSE [p EXCEPT !.board[i].rows = RemoveFirst(@, v)]

-----------------------------------------------------------------------------
(* Building a tool.                                                        *)

PushTool(p, v, tool) == [p EXCEPT !.tools[v] = Append(@, tool)]

\* addVariableToTable: null when the variable is in a table already (a second
\* choice of TABLE), or when no card id is left for a table; an exception on
\* a null tool before that.
addVariableToTable(p, v) ==
  LET first == SelectInSeq(p.tools[v], LAMBDA t : t = NoTool \/ t.type = "TABLE")
      table == findTable(p) IN
  IF first # 0 THEN
    IF p.tools[v][first] = NoTool THEN Throw(p) ELSE PushTool(p, v, NoTool)
  ELSE IF table.id = NoTool THEN PushTool(p, v, NoTool)
  ELSE LET i == CardAt(table.panel, table.id) IN
       PushTool([table.panel EXCEPT !.board[i].rows = Append(@, v)],
                v, [type |-> "TABLE", id |-> table.id])

\* createCard and ToolFactory.create, which throws when there is no card: the
\* board is full, or the card has no size and its id, taken before, is lost.
\* It also throws when the gauge cannot be built, with its card on the board.
createCard(p, v, type) ==
  IF FreeIds(p) = {} THEN Throw(p)
  ELSE LET id == generateNewCardId(p)
           added == AddCard(p, [id |-> id, owner |-> v, rows |-> <<>>]) IN
       CASE type = "CARD"    -> PushTool(added, v, [type |-> "CARD", id |-> id])
         [] type = "UNBUILT" -> Throw(added)
         [] type = "UNSIZED" -> Throw([p EXCEPT !.cardIds = @ \cup {id}, !.lost = @ \cup {id}])

\* setStatusOnCards: an exception when one of the tools is null.
setStatusOnCards(p, v) == IF v \in Broken(p) THEN Throw(p) ELSE p

\* Only the first tool of a variable starts its monitoring.
StartIfFirst(p, v) ==
  IF ~p.thrown /\ Len(p.tools[v]) = 1 THEN Call(p, StartRequest(v)) ELSE p

\* buildCard, of a tool whose configuration is known: nothing for a variable
\* that is not listed any more (getConfigObj returns undefined).
buildCard(p, v, type) ==
  IF p.thrown \/ v \notin Listed(p) THEN p
  ELSE LET built == IF type = "TABLE" THEN addVariableToTable(p, v) ELSE createCard(p, v, type) IN
       Of(built, LAMBDA q : IF q.thrown THEN q
                            ELSE StartIfFirst(setStatusOnCards(q, v), v))

-----------------------------------------------------------------------------
(* Removing a tool.                                                        *)

\* Fault: the monitoring goes on when the last tool is gone.
RemoveToolSilently(p, v, id) ==
  IF p.thrown THEN p
  ELSE IF v \notin Listed(p) \/ v \in Broken(p) THEN Throw(p)
  ELSE [p EXCEPT !.tools[v] = Without(@, id)]

\* removeToolFromVariable: throws for a variable that is not listed and on a
\* null tool, then with nothing removed.
removeToolFromVariable(p, v, id) ==
  IF p.thrown THEN p
  ELSE IF v \notin Listed(p) \/ v \in Broken(p) THEN Throw(p)
  ELSE LET kept == Without(p.tools[v], id)
           rest == [p EXCEPT !.tools[v] = kept] IN
       IF kept = <<>> THEN Call(rest, StopRequest(v)) ELSE rest

\* Fault: the card is closed and its tool stays with the variable.
CloseCardOnly(p, v, id) == removeCard(p, id)

handleClickCloseCard(p, v, id) == removeToolFromVariable(removeCard(p, id), v, id)

handleClickCloseTableRow(p, v, id) ==
  IF v \notin Listed(p) THEN Throw(p)
  ELSE LET removed == RemoveRow(p, id, v) IN
       IF removed.thrown THEN removed
       ELSE removeToolFromVariable(removeTable(removed, id), v, id)

-----------------------------------------------------------------------------
(* A new variable list.                                                    *)

\* mergeToolsIntoNewList: a variable that is still there keeps its tools.
mergeToolsIntoNewList(p, new) ==
  [v \in new |-> IF v \in Listed(p) THEN p.tools[v] ELSE <<>>]

CloseTool(p, v, tool) ==
  IF p.thrown \/ tool = NoTool THEN Throw(p)
  ELSE IF tool.type = "CARD" THEN removeCard(p, tool.id)
  ELSE LET removed == RemoveRow(p, tool.id, v) IN
       IF removed.thrown THEN removed ELSE removeTable(removed, tool.id)

\* removeOldCards: the condition (!length != 0) selects the variables that
\* vanished and have no tools, so that no card is ever closed.
removeOldCards(p, new) ==
  LET gone == {v \in Listed(p) \ new : p.tools[v] = <<>>}
      CloseAll(q, v) == FoldLeft(LAMBDA r, tool : CloseTool(r, v, tool), q, p.tools[v])
  IN FoldLeft(CloseAll, p, SetToSeq(gone))

\* The tools of settings.json of one variable.
displayVariable(p, v) ==
  IF v \in DOMAIN DefaultTools
  THEN FoldLeft(LAMBDA r, type : Of(r, LAMBDA x : buildCard(x, v, type)), p, DefaultTools[v])
  ELSE p

\* defaultDisplay: once, for all variables.
defaultDisplay(p) == IF init THEN FoldLeft(displayVariable, p, SetToSeq(Listed(p))) ELSE p

\* callbackReveiceFromServer, VALUEINFO_RESPONSE.
NewVariableList(p, new) ==
  LET closed == removeOldCards(p, new) IN
  IF closed.thrown THEN closed
  ELSE defaultDisplay([closed EXCEPT !.tools = mergeToolsIntoNewList(p, new)])

-----------------------------------------------------------------------------
(* The connection status callback goes over all tools of all variables; a  *)
(* null tool ends it with an exception, and with it the client's handler.  *)
StatusChangeThrows(p) == Broken(p) # {}

PanelInit ==
  /\ panel = [tools     |-> <<>>,    \* variableList_: the tools of each variable
              board     |-> <<>>,    \* the cards in document order
              cardIds   |-> {},      \* the slots taken in cardIds
              tableList |-> <<>>,    \* tableList_
              calls     |-> <<>>,    \* requests of the running callback
              thrown    |-> FALSE,   \* the running callback has thrown
              lost      |-> {}]      \* history: ids taken for cards without a size
  /\ init = TRUE
  /\ missed = {}

-----------------------------------------------------------------------------
(* History: the variables for which what is shown and what is monitored    *)
(* may part, because a request was dropped (the socket was not open), a    *)
(* stop overtook the restart of the old monitors, an answer was lost with  *)
(* the connection, or the parser left out a variable that has tools while  *)
(* the client restarted its monitor.                                       *)

Overtaken(request) == request.type = "MONITORSTOP_REQUEST" /\ Handshaking

MissedBy(calls) ==
  {r.variable : r \in {c \in Range(calls) : readyState # "OPEN" \/ Overtaken(c)}}

Unsettled ==
  {v \in Variables : (v \in Range(monitoringVariableList)) # (v \in Shown(panel))}

-----------------------------------------------------------------------------
(* The WebSocket's events.                                                 *)

Init == ClientInit /\ PanelInit

\* Fault: the requests of a callback are not taken away.
FinishWithCalls(p) == panel' = [p EXCEPT !.thrown = FALSE]

\* The callback has left p behind: its requests are sent.
Finish(p) == panel' = [p EXCEPT !.calls = <<>>, !.thrown = FALSE]

webSocket_onopen ==
  /\ readyState = "CONNECTING"
  /\ connections < MaxConnections
  /\ readyState' = "OPEN"
  /\ connections' = connections + 1
  /\ Sends(toClient, "OPEN", <<ValueListRequest>>)
  /\ UNCHANGED <<monitoringVariableList, served, panelVars, missed>>

ValueListReceived ==
  /\ Receives("VALUELIST_RESPONSE")
  /\ LET value == Head(toClient).variables IN
       /\ monitoringVariableList' = checkOldMonitorVariables(monitoringVariableList, value)
       /\ Sends(Tail(toClient), readyState, <<ValueInfoRequest(value)>>)
  /\ UNCHANGED <<readyState, connections, served, panelVars, missed>>

\* The new list has the variables that buildVariables can read; the client has
\* started its old monitors again before, those of the other variables too.
ListBuilt(readable) ==
  LET new == NewVariableList(panel, readable) IN
  /\ Finish(new)
  /\ Sends(Tail(toClient), readyState,
           startOldMonitorVariables(monitoringVariableList) \o new.calls)
  /\ missed' = missed \cup (Shown(panel) \cap (Head(toClient).variables \ readable))

ValueInfoReceived ==
  /\ Receives("VALUEINFO_RESPONSE")
  /\ \E readable \in SUBSET Head(toClient).variables : ListBuilt(readable)
  /\ init' = FALSE
  /\ UNCHANGED <<clientVars, served>>

StartReceived ==
  /\ Receives("MONITORSTART_RESPONSE")
  /\ monitoringVariableList' = RecordStart(monitoringVariableList, Head(toClient))
  /\ toClient' = Tail(toClient)
  /\ UNCHANGED <<readyState, connections, serverVars, panelVars, missed>>

StopReceived ==
  /\ Receives("MONITORSTOP_RESPONSE")
  /\ monitoringVariableList' =
       removeMonitoringVariableFromArray(monitoringVariableList, Head(toClient).variable)
  /\ toClient' = Tail(toClient)
  /\ UNCHANGED <<readyState, connections, serverVars, panelVars, missed>>

webSocket_onmessage ==
  ValueListReceived \/ ValueInfoReceived \/ StartReceived \/ StopReceived

\* The server closes the connection; the socket is not open any more and its
\* close event is still to come.
ServerCloses ==
  /\ readyState = "OPEN"
  /\ connections < MaxConnections
  /\ readyState' = "CLOSING"
  /\ UNCHANGED <<monitoringVariableList, connections, serverVars, toClient, panelVars, missed>>

\* The next socket is created at once, unless the status callback throws:
\* then the handler ends before it comes to reconnect().
AfterClose == IF StatusChangeThrows(panel) THEN "CLOSED" ELSE "CONNECTING"

webSocket_onclose ==
  /\ readyState' = AfterClose
  /\ toClient' = <<>>
  /\ monitors' = {}
  /\ missed' = missed \cup Unsettled
  /\ UNCHANGED <<monitoringVariableList, connections, served, panelVars>>

CloseCompletes == readyState = "CLOSING" /\ webSocket_onclose

\* The connection breaks, or cannot be made.
ConnectionLost ==
  /\ \/ readyState = "OPEN" /\ connections < MaxConnections
     \/ readyState = "CONNECTING"
  /\ webSocket_onclose

-----------------------------------------------------------------------------
(* The user.                                                               *)

\* A callback of a click: the requests are sent, the panel is what it left.
Clicked(p) ==
  /\ Len(toClient) < MaxRequests
  /\ Finish(p)
  /\ Sends(toClient, readyState, p.calls)
  /\ missed' = missed \cup MissedBy(p.calls)
  /\ UNCHANGED <<clientVars, served, init>>

\* A choice in the menu of a variable, which can be older than the variable
\* list: the dialog stays open when the list changes.
callbackFromDialog(v, type) ==
  /\ v \in Listed(panel) => Len(panel.tools[v]) < MaxTools
  /\ Clicked(buildCard(panel, v, type))

CloseCard(i) ==
  /\ panel.board[i].owner # Table
  /\ Clicked(handleClickCloseCard(panel, panel.board[i].owner, panel.board[i].id))

CloseRow(i, v) ==
  /\ v \in Range(panel.board[i].rows)
  /\ Clicked(handleClickCloseTableRow(panel, v, panel.board[i].id))

User ==
  \/ \E v \in Variables, type \in Kinds : callbackFromDialog(v, type)
  \/ \E i \in DOMAIN panel.board : CloseCard(i) \/ \E v \in Variables : CloseRow(i, v)

Restart == ServerRestart /\ UNCHANGED <<panelVars, missed>>

Next ==
  \/ webSocket_onopen \/ webSocket_onmessage
  \/ ServerCloses \/ CloseCompletes \/ ConnectionLost
  \/ Restart \/ User

Spec == Init /\ [][Next]_vars

\* Connecting, delivery and closing go on; nobody has to click, and the
\* connection need not break.
FairSpec ==
  /\ Spec
  /\ WF_vars(webSocket_onopen)
  /\ WF_vars(webSocket_onmessage)
  /\ WF_vars(CloseCompletes)

-----------------------------------------------------------------------------
(* Properties.                                                             *)

Cards == [id : Ids, owner : Variables \cup {Table}, rows : Seq(Variables)]

\* The type invariant of the panel and of its client.
TypeOK ==
  /\ ClientTypeOK
  /\ Listed(panel) \subseteq Variables
  /\ \A v \in Listed(panel) : panel.tools[v] \in Seq(Tools)
  /\ panel.board \in Seq(Cards)
  /\ panel.cardIds \subseteq Ids /\ panel.lost \subseteq Ids
  /\ panel.tableList \in Seq(Ids)
  /\ panel.calls = <<>> /\ panel.thrown = FALSE
  /\ init \in BOOLEAN
  /\ missed \subseteq Variables

BoardIds == {panel.board[i].id : i \in DOMAIN panel.board}
TableIds == {panel.board[i].id : i \in {j \in DOMAIN panel.board : panel.board[j].owner = Table}}

\* The ids in use, the list of tables and the board of the page tell the same,
\* whatever callback was cut short by an exception: every id in use has one
\* card, but for the ids taken for a card without a size, which never have
\* one; tableList has the tables that are on the board, and a table has
\* between one row and as many as it has room for.
BoardAgrees ==
  /\ panel.cardIds = BoardIds \cup panel.lost /\ BoardIds \cap panel.lost = {}
  /\ Len(panel.board) = Cardinality(BoardIds)
  /\ Range(panel.tableList) = TableIds
  /\ Len(panel.tableList) = Cardinality(TableIds)
  /\ \A id \in TableIds : Len(RowsOf(panel, id)) \in 1 .. MaxRows

\* Every tool of a variable is on the board: a card of its own, or a row of
\* the table it names.  (Not so for a variable with a null tool, whose cards
\* can be closed without its tools being removed.)
ToolsHaveCards ==
  \A v \in Listed(panel) \ Broken(panel) :
    \A tool \in Range(panel.tools[v]) :
      /\ tool.id \in BoardIds
      /\ LET card == panel.board[CardAt(panel, tool.id)] IN
           IF tool.type = "TABLE" THEN card.owner = Table /\ v \in Range(card.rows)
           ELSE card.owner = v

\* Client and server agree when nothing is on its way: the variables of
\* monitoringVariableList are the monitors of the channel, after any number of
\* reconnects and restarts of the server; and an entry is there at most once
\* for each connection.
ListAgrees ==
  /\ Quiet => Range(monitoringVariableList) = monitors
  /\ \A v \in Variables : Count(monitoringVariableList, v) <= connections

\* When nothing is on its way, the variables that have a tool are the ones the
\* server monitors, except where a request was dropped or overtaken, an answer
\* was lost with the connection, or the parser left out a variable that had
\* tools (missed), or a tool is null.
ShownIsMonitored ==
  Quiet => \A v \in Variables \ (missed \cup Broken(panel)) :
             v \in Shown(panel) <=> v \in monitors

\* After a lost connection a variable of the list is monitored again, unless
\* it leaves the list (the server does not have it any more, or the user
\* closed its last tool), or the panel cannot reconnect at all.
OldMonitorsResume ==
  \A v \in Variables :
    (v \in Range(monitoringVariableList) /\ readyState = "CONNECTING")
      ~> \/ v \in monitors
         \/ v \notin Range(monitoringVariableList)
         \/ readyState = "CLOSED"

\* What webSocket_onclose logs (client/asneg-ws-client.js:343): a closed
\* connection is being rebuilt.  It is not after an exception in the status
\* callback.
ClosedIsReopened == readyState # "CLOSED"
=============================================================================
