---------------------------- MODULE PanelDisplay ----------------------------
(***************************************************************************)
(* What the control panel shows of one variable: from the loading of its   *)
(* configuration files (panel/config.js) to the gauges, the chart and the  *)
(* table row that show the updates of the server (panel/facade.js, view.js,*)
(* panel.js, gauge.js, utility/model.js).                                  *)
(*                                                                         *)
(* ControlPanel has the board and the monitoring; here the variable is one *)
(* that stays on the server, its tools are not closed, and an update or an *)
(* answer comes whenever the connection lets it.  An animated gauge is its *)
(* position and where it goes; a chart the last point it has drawn and the *)
(* value it draws next.  Left out: the limits a gauge cuts values to, the  *)
(* labels of the chart's points, time stamps, the write box of the table.  *)
(***************************************************************************)
EXTENDS PanelTools

CONSTANTS
  valueName,        \* the variable
  Tools,            \* tools.json: [toolType, params], in order
  VariableTools,    \* variables.json: the ids of the tools of the variable
  DefaultTools,     \* settings.json: the ids of the tools shown at first
  MetaData,         \* what the server may tell of the variable
  Values,           \* the values of updates
  Failures,         \* status codes other than Success
  MaxTools,         \* bound: the tools of the variable
  MaxConnections    \* bound: how often the connection is opened

ASSUME SettingsAssumption ==
  DOMAIN DefaultTools = 1 .. Len(DefaultTools) /\ Len(DefaultTools) \in Nat

ASSUME NullAssumption == Null \notin {"CONNECTING", "OPEN"}

VARIABLES
  files,        \* the configuration files, loadJSON
  interval,     \* the timer of checkInitComplete runs
  clients,      \* the ASNeG_Clients created
  status,       \* of the connection, as the client has told it; Null before
  connections,  \* how often the connection was opened
  served,       \* the metadata the server has
  variable,     \* the entry of variableList_; Null before there is one
  waiting,      \* the answers of this connection that are still to come
  monitored,    \* the variable is in the client's list of monitored variables
  resumed,      \* the start of the monitoring was answered on this connection
  menu,         \* the ids of the tools the dialog offers
  last          \* history: the last good value that came

startVars == <<files, interval, clients>>
linkVars == <<status, connections, served, waiting, monitored, resumed>>
vars == <<startVars, linkVars, variable, menu, last>>

Files == {"tools", "variables", "settings", "design"}

-----------------------------------------------------------------------------
(* Start: the four files are loaded in any order, or not at all.           *)

AllLoaded == \A f \in Files : files[f] = "loaded"

\* readJSON and createJSON: the callback of loadJSON is called for status 200
\* only, and throws on a text that cannot be parsed.
readJSON(f) ==
  /\ files[f] = "pending"
  /\ \E outcome \in {"loaded", "failed"} : files' = [files EXCEPT ![f] = outcome]
  /\ UNCHANGED <<interval, clients, linkVars, variable, menu, last>>

\* Fault: the timer goes on after it has found the files.
CompleteAndGoOn ==
  /\ interval /\ AllLoaded
  /\ clients < 2
  /\ clients' = clients + 1 /\ status' = "CONNECTING"
  /\ UNCHANGED <<files, interval, connections, served, waiting, monitored, resumed, variable,
                 menu, last>>

\* checkInitComplete, of the timer: the client is created when all files are
\* there.  Before that nothing changes, however often it is called: every call
\* of the timer has the counter 1 of the first one.
checkInitComplete ==
  /\ interval /\ AllLoaded
  /\ interval' = FALSE
  /\ clients' = clients + 1 /\ status' = "CONNECTING"
  /\ UNCHANGED <<files, connections, served, waiting, monitored, resumed, variable,
                 menu, last>>

-----------------------------------------------------------------------------
(* Tools.                                                                  *)

ParamsWith(id) ==
  {p \in UNION {{<<i, j>> : j \in DOMAIN Tools[i].params} : i \in DOMAIN Tools} :
     Tools[p[1]].params[p[2]].id = id}

\* The first tool with parameters of this id.
Found(id) ==
  CHOOSE p \in ParamsWith(id) :
    \A q \in ParamsWith(id) : p[1] < q[1] \/ (p[1] = q[1] /\ p[2] <= q[2])

findTypeInConfigTools(id) == IF ParamsWith(id) = {} THEN Null ELSE Tools[Found(id)[1]].toolType

findIdInConfigTools(id) ==
  IF ParamsWith(id) = {} THEN Null ELSE Tools[Found(id)[1]].params[Found(id)[2]]

\* getDisplayToolList: the ids the dialog offers.
getDisplayToolList == {id \in Range(VariableTools) : findIdInConfigTools(id) # Null}

getConfigObj(v, id) == createConfigObj(v, findTypeInConfigTools(id), findIdInConfigTools(id))

\* setStatusOnCards: the cards of the variable, not its row in a table.
setStatusOnCards(tools, code) ==
  [i \in DOMAIN tools |->
     IF tools[i].type = "TABLE" THEN tools[i] ELSE [tools[i] EXCEPT !.icon = code]]

ToolObj(v, config, id) ==
  LET made == IF config.toolType = "TABLE" THEN [params |-> <<>>, design |-> <<>>]
              ELSE create(config)
  IN [type |-> config.toolType, id |-> id, params |-> made.params, design |-> made.design,
      icon |-> Null, shown |-> Null, target |-> Null, passed |-> FALSE]

\* buildCard: the tool joins the variable's, and all its cards get the status
\* of the variable; nothing for an id that tools.json does not have.
\* (untold: the cards have not been told the status, see UpdateReceived.)
buildCard(v, id) ==
  LET config == getConfigObj(v, id) IN
  IF config = Null THEN v
  ELSE [v EXCEPT !.tools = setStatusOnCards(Append(@, ToolObj(v, config, id)), v.status),
                 !.untold = FALSE]

HasTable(v) == \E t \in Range(v.tools) : t.type = "TABLE"

\* defaultDisplay, when the variable is listed for the first time.
defaultDisplay(v) == FoldLeft(buildCard, v, DefaultTools)

\* handleClickFromListPanel: the menu of the variable is shown; what it had is
\* still there when it was open.
handleClickFromListPanel ==
  /\ variable # Null
  /\ menu' = menu \cup getDisplayToolList
  /\ UNCHANGED <<startVars, linkVars, variable, last>>

closeChooseMenu == menu # {} /\ menu' = {} /\ UNCHANGED <<startVars, linkVars, variable, last>>

\* callbackFromDialog.  (For a second row in a table see ControlPanel.)
callbackFromDialog(id) ==
  /\ id \in menu /\ Len(variable.tools) < MaxTools
  /\ findTypeInConfigTools(id) = "TABLE" => ~HasTable(variable)
  /\ menu' = {}
  /\ variable' = buildCard(variable, id)
  /\ UNCHANGED <<startVars, linkVars, last>>

-----------------------------------------------------------------------------
(* Values.                                                                 *)

Animated == {"COMPASS", "LEVEL", "CLOCK", "ALTIMETER", "ODOMETER", "LINEAR", "LINEAR_BARGRAPH",
             "RADIAL", "RADIAL_BARGRAPH", "RADIAL_VERTICAL"}

\* Types that want an object with parts, or a command: a plain value changes
\* nothing they show.
Compound == {"WINDDIRECTION", "HORIZON", "STOPWATCH", "TRAFFICLIGHT"}

\* Fault: a gauge that moves is not told of a new value.
SetValueAtRest(tool, value) ==
  IF tool.type \in Animated /\ tool.shown # tool.target THEN tool
  ELSE [tool EXCEPT !.target = value, !.passed = FALSE]

\* The setValue of a tool.  An animated gauge is left alone when the position
\* it has at the moment is the new value; it may be on its way elsewhere
\* (passed).
setValue(tool, value) ==
  IF tool.type \in Compound THEN tool
  ELSE IF tool.type = "LINE" THEN [tool EXCEPT !.target = value]
  ELSE IF tool.type \notin Animated THEN [tool EXCEPT !.target = value, !.shown = value]
  ELSE IF tool.shown = value THEN [tool EXCEPT !.passed = @ \/ tool.target # value]
  ELSE [tool EXCEPT !.target = value, !.passed = FALSE]

\* A gauge moves: to its target or to a position on the way.  A chart draws the
\* next point.
Draw(i) ==
  LET tool == variable.tools[i]
      Between == {p \in Values \ {tool.shown, tool.target} :
                    (tool.shown < p) <=> (p < tool.target)} IN
  /\ tool.shown # tool.target
  /\ \E p \in {tool.target} \cup (IF tool.type = "LINE" \/ tool.shown = Null THEN {} ELSE Between) :
       variable' = [variable EXCEPT !.tools[i].shown = p]
  /\ UNCHANGED <<startVars, linkVars, menu, last>>

-----------------------------------------------------------------------------
(* The connection.                                                         *)

\* callbackASNeGClientConnectionStatus: the cards show the status of the
\* connection, "Success" when it is open.
StatusChange(code) ==
  /\ status' = code
  /\ variable' = IF variable = Null THEN Null
                 ELSE [variable EXCEPT !.tools =
                         setStatusOnCards(@, IF code = "OPEN" THEN "Success" ELSE code)]

Opened ==
  /\ status = "CONNECTING" /\ connections < MaxConnections
  /\ StatusChange("OPEN")
  /\ connections' = connections + 1
  /\ waiting' = {"VALUEINFO"}
  /\ UNCHANGED <<startVars, served, monitored, resumed, menu, last>>

\* Closed, and the next socket created.
Closed ==
  /\ status = "OPEN" /\ connections < MaxConnections
  /\ StatusChange("CONNECTING")
  /\ waiting' = {}
  /\ resumed' = FALSE
  /\ UNCHANGED <<startVars, connections, served, monitored, menu, last>>

Receives(answer) == status = "OPEN" /\ answer \in waiting

\* A variable that has tools keeps them and its status.
mergeToolsIntoNewList(old, new) ==
  IF old.tools = <<>> THEN new ELSE [old EXCEPT !.metadata = new.metadata]

\* VALUEINFO_RESPONSE: the variable list is built anew.  The client starts the
\* monitoring again of what is in its list, the panel that of a first tool.
ValueInfoReceived ==
  /\ Receives("VALUEINFO")
  /\ LET parsed == buildVariable(valueName, served)
         fresh == [valueName |-> valueName, metadata |-> parsed.metadata, status |-> Null,
                   untold |-> FALSE, tools |-> <<>>]
     IN variable' = IF parsed = Null THEN Null
                    ELSE IF variable = Null THEN defaultDisplay(fresh)
                    ELSE mergeToolsIntoNewList(variable, fresh)
  /\ waiting' = (waiting \ {"VALUEINFO"})
                  \cup IF monitored \/ (variable = Null /\ variable' # Null) THEN {"START"} ELSE {}
  /\ UNCHANGED <<startVars, status, connections, served, monitored, resumed, menu, last>>

\* Fault: the status is recorded and the cards are not told.
ForgetIcons(v, code) == [v EXCEPT !.status = code, !.untold = FALSE]

\* The status of the value is recorded and shown.
SetStatus(v, code) ==
  [v EXCEPT !.status = code, !.tools = setStatusOnCards(@, code), !.untold = FALSE]

\* The status of an update that is not good is recorded; then the cards are
\* looked for by a variable that only a good update sets, which throws.
RecordStatus(v, code) ==
  IF v.status = code THEN v ELSE [v EXCEPT !.status = code, !.untold = TRUE]

StartReceived ==
  /\ Receives("START")
  /\ \E code \in {"Success"} \cup Failures :
       /\ variable' = SetStatus(variable, code)
       /\ monitored' = (monitored \/ code = "Success")
  /\ waiting' = waiting \ {"START"}
  /\ resumed' = TRUE
  /\ UNCHANGED <<startVars, status, connections, served, menu, last>>

\* Only a status that differs from the last one is shown.
NewStatus(v, code) == IF v.status # code THEN SetStatus(v, code) ELSE v

\* A message whose header has an error: the answer to a poll that failed, or to
\* a write that was refused.
ErrorReceived ==
  /\ status = "OPEN" /\ variable # Null
  /\ \E code \in Failures : variable' = NewStatus(variable, code)
  /\ UNCHANGED <<startVars, linkVars, menu, last>>

\* MONITORUPDATE_MESSAGE: all tools get a good value, in order; then the
\* status is looked at.
UpdateReceived ==
  /\ status = "OPEN" /\ variable # Null /\ "VALUEINFO" \notin waiting
  /\ \/ \E raw \in Values :
          LET value == cast(valueName, raw)
              told == [variable EXCEPT !.tools =
                         [i \in DOMAIN variable.tools |-> setValue(variable.tools[i], value)]]
          IN variable' = NewStatus(told, "Success") /\ last' = value
     \/ \E code \in Failures : variable' = RecordStatus(variable, code) /\ UNCHANGED last
  /\ UNCHANGED <<startVars, linkVars, menu>>

callbackReveiceFromServer ==
  ValueInfoReceived \/ StartReceived \/ ErrorReceived \/ UpdateReceived

-----------------------------------------------------------------------------
Init ==
  /\ files = [f \in Files |-> "pending"]
  /\ interval = TRUE
  /\ clients = 0
  /\ status = Null
  /\ connections = 0
  /\ served \in MetaData
  /\ variable = Null
  /\ waiting = {}
  /\ monitored = FALSE /\ resumed = FALSE
  /\ menu = {}
  /\ last = Null

User ==
  \/ handleClickFromListPanel
  \/ closeChooseMenu
  \/ \E id \in Range(VariableTools) : callbackFromDialog(id)

Next ==
  \/ \E f \in Files : readJSON(f)
  \/ checkInitComplete
  \/ Opened \/ Closed \/ callbackReveiceFromServer
  \/ User
  \/ variable # Null /\ \E i \in DOMAIN variable.tools : Draw(i)

\* The timer goes on; that a file comes is not promised.
Spec == Init /\ [][Next]_vars /\ WF_vars(checkInitComplete)

-----------------------------------------------------------------------------
(* Properties.                                                             *)

\* checkInitComplete: one client is created when all four files are there, in
\* whatever order they came, and none if one of them does not come; the timer
\* that waits for them ends then.
StartsOnce ==
  /\ [](clients <= 1 /\ (clients = 1 => AllLoaded /\ ~interval))
  /\ AllLoaded ~> clients = 1

\* What the server tells of the variable under this name, if it does.
Told(name) ==
  CASE name = "minValue"     -> Limit(served, "Min")
    [] name = "maxValue"     -> Limit(served, "Max")
    [] name = "unitString"   -> Info(served, "Unit")
    [] name = "detailString" -> Info(served, "Detail")
    [] name \in {"titleString", "headerString"} -> Info(served, "Header")
    [] name = "threshold"    -> Get(served, "Threshold")
    [] OTHER                 -> Null

\* The parameters the builder reads from fields that are never set.
NeverSet == {<<"DISPLAY_MULTI", "detailStringVisible">>, <<"RADIAL_BARGRAPH", "useSectionColors">>,
             <<"LINEAR_BARGRAPH", "valueGradient">>, <<"RADIAL_BARGRAPH", "valueGradient">>}

Whole(section) ==
  Len(section) = 3 /\ \A i \in 1 .. 3 : Null \notin {section[i].min, section[i].max, section[i].color}

\* From tools.json and the server's metadata through parser, configuration and
\* builder: what the server tells of the variable is what a gauge shows, and
\* the tool's own parameter where it tells nothing; three whole sections or
\* none, if they are the server's; every parameter is one the configuration of
\* the type has, but for NeverSet; and every design value is known.
WidgetFollowsMetadata ==
  variable # Null =>
    \A t \in Range(variable.tools) :
      LET own == findIdInConfigTools(t.id)
          config == getConfigObj(variable, t.id) IN
      /\ \A name \in DOMAIN t.params :
           /\ Told(name) # Null => t.params[name] = Told(name)
           /\ Told(name) = Null /\ name \in DOMAIN Sources \ {"minValue", "maxValue", "section", "area",
                                                              "valueGradient"}
                => t.params[name] = Get(own, name)
           /\ name = "section" =>
                \/ t.params[name] = Null \/ Whole(t.params[name])
                \/ parseSections(served) = Null /\ t.params[name] = Get(own, name)
           /\ name \in DOMAIN config
                \/ name = "glowColor" \/ <<t.type, name>> \in NeverSet
      /\ \A part \in DOMAIN t.design : t.design[part] # Null

\* The tools of a variable agree: each that has got a value shows, when it is
\* at rest, the last good one, but for an animated gauge that happened to pass
\* it when it came.
ToolsShowUpdate ==
  variable # Null =>
    \A t \in Range(variable.tools) :
      t.target # Null /\ t.shown = t.target => t.shown = last \/ t.passed

\* The icons of the cards tell the status of the value from the answer to the
\* start of its monitoring on, though a status is only shown when it differs
\* from the last one, and the connection has overwritten what was shown.  Not
\* so after an update whose own status is not good: RecordStatus.
IconsTellStatus ==
  resumed /\ ~variable.untold =>
    \A t \in Range(variable.tools) : t.type = "TABLE" \/ t.icon = variable.status
=============================================================================
