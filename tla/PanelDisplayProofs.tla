------------------------- MODULE PanelDisplayProofs -------------------------
(***************************************************************************)
(* What the control panel shows of a variable, for any configuration files *)
(* and any metadata: the start, the values and the icons of its tools, and *)
(* what its gauges are made of.                                            *)
(***************************************************************************)
EXTENDS PanelDisplay, TLAPS

-----------------------------------------------------------------------------
(* Start.                                                                  *)

StartInv ==
  /\ files \in [Files -> {"pending", "loaded", "failed"}]
  /\ interval \in BOOLEAN
  /\ clients = IF interval THEN 0 ELSE 1
  /\ clients = 1 => AllLoaded

LEMMA StartStep == StartInv /\ [Next]_vars => StartInv'
<1> SUFFICES ASSUME StartInv, [Next]_vars PROVE StartInv'
  OBVIOUS
<1>1. ASSUME NEW f \in Files, readJSON(f)
      PROVE  StartInv'
  BY <1>1 DEF StartInv, readJSON, AllLoaded
<1>2. CASE checkInitComplete
  <2>1. interval' = FALSE /\ clients' = 1 /\ files' = files /\ AllLoaded
    BY <1>2 DEF StartInv, checkInitComplete
  <2> QED
    BY <2>1 DEF StartInv, AllLoaded
<1>3. CASE UNCHANGED startVars
  BY <1>3 DEF StartInv, startVars, AllLoaded
<1>4. CASE Opened \/ Closed \/ callbackReveiceFromServer
  BY <1>3, <1>4 DEF Opened, Closed, callbackReveiceFromServer, ValueInfoReceived,
     StartReceived, ErrorReceived, UpdateReceived
<1>5. CASE User
  BY <1>3, <1>5 DEF User, handleClickFromListPanel, closeChooseMenu, callbackFromDialog
<1>6. ASSUME NEW i \in DOMAIN variable.tools, Draw(i)
      PROVE  StartInv'
  BY <1>3, <1>6 DEF Draw
<1>7. CASE UNCHANGED vars
  BY <1>3, <1>7 DEF vars
<1> QED
  BY <1>1, <1>2, <1>4, <1>5, <1>6, <1>7 DEF Next

\* The client is created once, after all four files have come, and the timer
\* that waited for them has ended then: the safety part of StartsOnce.
THEOREM ClientIsCreatedOnce ==
  Spec => [](clients <= 1 /\ (clients = 1 => AllLoaded /\ ~interval))
<1>1. Init => StartInv
  BY DEF Init, StartInv
<1>2. StartInv => clients <= 1 /\ (clients = 1 => AllLoaded /\ ~interval)
  BY DEF StartInv
<1> QED
  BY <1>1, <1>2, StartStep, PTL DEF Spec

-----------------------------------------------------------------------------
(* A tool.                                                                 *)

ToolFields == {"type", "id", "params", "design", "icon", "shown", "target", "passed"}

\* Values come to a tool one after the other: the last one is where it goes,
\* but for a gauge that had it for its position and is going elsewhere.
FollowsValues(t, l) ==
  /\ DOMAIN t = ToolFields
  /\ t.passed \in BOOLEAN
  /\ t.type \in Compound => t.target = Null
  /\ t.target # Null => t.target = l \/ t.passed

\* The configuration of a tool: of the variable it depends on the metadata only.
Config(meta, id) == getConfigObj([metadata |-> MetaDataObj(meta)], id)

\* What a tool was made of.
MadeOf(t, meta) ==
  /\ Config(meta, t.id) # Null
  /\ LET made == ToolObj(Null, Config(meta, t.id), t.id)
     IN  t.type = made.type /\ t.params = made.params /\ t.design = made.design

GoodTool(t, meta, l) == FollowsValues(t, l) /\ MadeOf(t, meta)

\* Two tools that differ in what they show only.
SameMake(t, u) ==
  /\ u.type = t.type /\ u.id = t.id /\ u.params = t.params /\ u.design = t.design

LEMMA SetValueFollows ==
  ASSUME NEW t, NEW l, NEW value, NEW meta, GoodTool(t, meta, l)
  PROVE  GoodTool(setValue(t, value), meta, value) /\ setValue(t, value).icon = t.icon
         /\ SameMake(t, setValue(t, value))
<1>1. DOMAIN t = ToolFields /\ t.passed \in BOOLEAN
  BY DEF GoodTool, FollowsValues
<1>2. SameMake(t, setValue(t, value)) /\ setValue(t, value).icon = t.icon
  BY <1>1 DEF setValue, SameMake, ToolFields
<1>3. FollowsValues(setValue(t, value), value)
  <2>1. CASE t.type \in Compound
    BY <2>1 DEF GoodTool, FollowsValues, setValue
  <2>2. CASE t.type \notin Compound /\ (t.type = "LINE" \/ t.type \notin Animated)
    BY <1>1, <2>2 DEF FollowsValues, setValue, ToolFields
  <2>3. CASE t.type \notin Compound /\ t.type # "LINE" /\ t.type \in Animated
    BY <1>1, <2>3 DEF FollowsValues, setValue, ToolFields
  <2> QED
    BY <2>1, <2>2, <2>3
<1>4. MadeOf(setValue(t, value), meta)
  BY <1>2 DEF GoodTool, MadeOf, SameMake
<1> QED
  BY <1>2, <1>3, <1>4 DEF GoodTool

-----------------------------------------------------------------------------
(* Lists of tools.                                                         *)

\* The tools of a variable the server tells meta of.
GoodTools(tools, meta, l) == \E A : tools \in Seq(A) /\ \A t \in A : GoodTool(t, meta, l)

\* The icons of the cards tell the status.
IconsAgree(v) ==
  \A i \in DOMAIN v.tools : v.tools[i].type = "TABLE" \/ v.tools[i].icon = v.status

LEMMA StatusKeepsTools ==
  ASSUME NEW tools, NEW meta, NEW l, NEW code, GoodTools(tools, meta, l)
  PROVE  /\ GoodTools(setStatusOnCards(tools, code), meta, l)
         /\ \A i \in DOMAIN setStatusOnCards(tools, code) :
              LET t == setStatusOnCards(tools, code)[i] IN t.type = "TABLE" \/ t.icon = code
<1>1. PICK A : tools \in Seq(A) /\ \A t \in A : GoodTool(t, meta, l)
  BY DEF GoodTools
<1> DEFINE B == {[t EXCEPT !.icon = code] : t \in A}
<1>2. setStatusOnCards(tools, code) \in Seq(A \cup B)
  BY <1>1 DEF setStatusOnCards
<1>3. ASSUME NEW t \in A
      PROVE  GoodTool([t EXCEPT !.icon = code], meta, l)
  <2>1. GoodTool(t, meta, l) /\ DOMAIN t = ToolFields
    BY <1>1 DEF GoodTool, FollowsValues
  <2> DEFINE u == [t EXCEPT !.icon = code]
  <2>2. DOMAIN u = ToolFields /\ SameMake(t, u) /\ u.target = t.target /\ u.passed = t.passed
    BY <2>1 DEF SameMake, ToolFields
  <2> HIDE DEF u
  <2>3. FollowsValues(u, l)
    BY <2>1, <2>2 DEF GoodTool, FollowsValues, SameMake
  <2>4. MadeOf(u, meta)
    BY <2>1, <2>2 DEF GoodTool, MadeOf, SameMake
  <2> QED
    BY <2>3, <2>4 DEF GoodTool, u
<1>4. GoodTools(setStatusOnCards(tools, code), meta, l)
  <2>1. \A t \in A \cup B : GoodTool(t, meta, l)
    BY <1>1, <1>3
  <2> QED
    BY <1>2, <2>1 DEF GoodTools
<1>5. ASSUME NEW i \in DOMAIN setStatusOnCards(tools, code)
      PROVE  LET t == setStatusOnCards(tools, code)[i] IN t.type = "TABLE" \/ t.icon = code
  <2>1. i \in DOMAIN tools /\ tools[i] \in A
    BY <1>1 DEF setStatusOnCards
  <2>2. DOMAIN tools[i] = ToolFields
    BY <1>1, <2>1 DEF GoodTool, FollowsValues
  <2> QED
    BY <2>1, <2>2 DEF setStatusOnCards, ToolFields
<1> QED
  BY <1>4, <1>5

LEMMA ValueKeepsTools ==
  ASSUME NEW tools, NEW meta, NEW l, NEW value, GoodTools(tools, meta, l)
  PROVE  GoodTools([i \in DOMAIN tools |-> setValue(tools[i], value)], meta, value)
<1>1. PICK A : tools \in Seq(A) /\ \A t \in A : GoodTool(t, meta, l)
  BY DEF GoodTools
<1> DEFINE B == {setValue(t, value) : t \in A}
<1>2. [i \in DOMAIN tools |-> setValue(tools[i], value)] \in Seq(B)
  BY <1>1
<1>3. \A t \in B : GoodTool(t, meta, value)
  BY <1>1, SetValueFollows
<1> HIDE DEF B
<1> QED
  BY <1>2, <1>3 DEF GoodTools

\* Drawing changes the position of one tool.
LEMMA DrawKeepsTools ==
  ASSUME NEW tools, NEW meta, NEW l, NEW i \in DOMAIN tools, NEW p, GoodTools(tools, meta, l)
  PROVE  GoodTools([tools EXCEPT ![i].shown = p], meta, l)
<1>1. PICK A : tools \in Seq(A) /\ \A t \in A : GoodTool(t, meta, l)
  BY DEF GoodTools
<1> DEFINE u == [tools[i] EXCEPT !.shown = p]
<1>2. tools[i] \in A
  BY <1>1
<1>3. GoodTool(u, meta, l)
  <2>1. GoodTool(tools[i], meta, l) /\ DOMAIN tools[i] = ToolFields
    BY <1>1, <1>2 DEF GoodTool, FollowsValues
  <2>2. DOMAIN u = ToolFields /\ SameMake(tools[i], u) /\ u.target = tools[i].target
        /\ u.passed = tools[i].passed
    BY <2>1 DEF SameMake, ToolFields
  <2> HIDE DEF u
  <2>3. FollowsValues(u, l)
    BY <2>1, <2>2 DEF GoodTool, FollowsValues, SameMake
  <2>4. MadeOf(u, meta)
    BY <2>1, <2>2 DEF GoodTool, MadeOf, SameMake
  <2> QED
    BY <2>3, <2>4 DEF GoodTool
<1>4. [tools EXCEPT ![i].shown = p] \in Seq(A \cup {u})
  BY <1>1
<1>5. \A t \in A \cup {u} : GoodTool(t, meta, l)
  BY <1>1, <1>3
<1> HIDE DEF u
<1> QED
  BY <1>4, <1>5 DEF GoodTools

-----------------------------------------------------------------------------
(* The variable.                                                           *)

\* A variable the server tells meta of, and whose last good value is l.
VariableGood(v, meta, l) ==
  /\ DOMAIN v = {"valueName", "metadata", "status", "untold", "tools"}
  /\ v.untold \in BOOLEAN
  /\ buildVariable(valueName, meta) # Null
  /\ v.metadata = MetaDataObj(meta)
  /\ GoodTools(v.tools, meta, l)

\* Of the variable, a configuration depends on the metadata only.
LEMMA ConfigOfVariable ==
  ASSUME NEW v, NEW meta, NEW id, v.metadata = MetaDataObj(meta)
  PROVE  getConfigObj(v, id) = Config(meta, id)
<1> DEFINE w == [metadata |-> MetaDataObj(meta)]
<1>1. w.metadata = v.metadata
  OBVIOUS
<1> HIDE DEF w
<1>2. \A p, f : ChosenValue(v, p, f) = ChosenValue(w, p, f)
  BY <1>1 DEF ChosenValue
<1>3. getConfigObj(v, id) = getConfigObj(w, id)
  BY <1>2 DEF getConfigObj, createConfigObj
<1> QED
  BY <1>3 DEF Config, w

LEMMA NewToolIsGood ==
  ASSUME NEW v, NEW meta, NEW l, NEW id, v.metadata = MetaDataObj(meta),
         getConfigObj(v, id) # Null
  PROVE  GoodTool(ToolObj(v, getConfigObj(v, id), id), meta, l)
<1> DEFINE c == Config(meta, id)
<1>1. getConfigObj(v, id) = c /\ c # Null
  BY ConfigOfVariable
<1> DEFINE t == ToolObj(v, c, id)
<1>2. DOMAIN t = ToolFields /\ t.id = id /\ t.target = Null /\ t.passed = FALSE
  BY DEF ToolObj, ToolFields
<1>3. t = ToolObj(Null, c, id)
  BY DEF ToolObj
<1>4. FollowsValues(t, l)
  <2> HIDE DEF t
  <2> QED
    BY <1>2 DEF FollowsValues
<1>5. MadeOf(t, meta)
  <2> HIDE DEF t
  <2> QED
    BY <1>1, <1>2, <1>3 DEF MadeOf
<1> HIDE DEF t, c
<1>6. GoodTool(t, meta, l)
  BY <1>4, <1>5 DEF GoodTool
<1> QED
  BY <1>1, <1>6 DEF t

LEMMA BuildCardGood ==
  ASSUME NEW v, NEW meta, NEW l, NEW id, VariableGood(v, meta, l)
  PROVE  /\ VariableGood(buildCard(v, id), meta, l)
         /\ buildCard(v, id) # v => ~buildCard(v, id).untold /\ IconsAgree(buildCard(v, id))
<1>1. CASE getConfigObj(v, id) = Null
  BY <1>1 DEF buildCard
<1>2. CASE getConfigObj(v, id) # Null
  <2> DEFINE t == ToolObj(v, getConfigObj(v, id), id)
             tools == setStatusOnCards(Append(v.tools, t), v.status)
             w == [v EXCEPT !.tools = tools, !.untold = FALSE]
  <2>1. GoodTool(t, meta, l)
    BY <1>2, NewToolIsGood DEF VariableGood
  <2> HIDE DEF t
  <2>2. GoodTools(Append(v.tools, t), meta, l)
    <3>1. PICK A : v.tools \in Seq(A) /\ \A u \in A : GoodTool(u, meta, l)
      BY DEF VariableGood, GoodTools
    <3>2. Append(v.tools, t) \in Seq(A \cup {t})
      BY <3>1
    <3> QED
      BY <2>1, <3>1, <3>2 DEF GoodTools
  <2>3. /\ GoodTools(tools, meta, l)
        /\ \A i \in DOMAIN tools : tools[i].type = "TABLE" \/ tools[i].icon = v.status
    BY <2>2, StatusKeepsTools
  <2>4. buildCard(v, id) = w
    BY <1>2 DEF buildCard, t
  <2> HIDE DEF tools
  <2>5. /\ DOMAIN w = {"valueName", "metadata", "status", "untold", "tools"}
        /\ w.tools = tools /\ w.untold = FALSE /\ w.status = v.status /\ w.metadata = v.metadata
    BY DEF VariableGood
  <2> HIDE DEF w
  <2>6. VariableGood(w, meta, l) /\ IconsAgree(w)
    BY <2>3, <2>5 DEF VariableGood, IconsAgree
  <2> QED
    BY <2>4, <2>5, <2>6
<1> QED
  BY <1>1, <1>2

BuildStep(c, v, id) == buildCard(v, id)
BuildGood(c, i, v) == VariableGood(v, c.meta, c.l)

Building == INSTANCE FoldInduction WITH Step <- BuildStep, Good <- BuildGood

\* defaultDisplay gives the variable the tools of settings.json, one after the
\* other.
LEMMA DefaultDisplayGood ==
  ASSUME NEW v, NEW meta, NEW l, VariableGood(v, meta, l)
  PROVE  VariableGood(defaultDisplay(v), meta, l)
<1> DEFINE c == [meta |-> meta, l |-> l]
           n == Len(DefaultTools)
<1>1. defaultDisplay(v) = Building!Fold(c, v, DefaultTools)
  BY DEF defaultDisplay, Building!Fold, FoldLeft, MapThenFoldSet, Building!FoldLeft,
     Building!MapThenFoldSet, BuildStep, Max, Building!Max
<1>2. c.meta = meta /\ c.l = l
  OBVIOUS
<1> HIDE DEF c
<1>3. BuildGood(c, 0, v)
  BY <1>2 DEF BuildGood
<1>4. ASSUME NEW r, NEW i \in 1 .. n, BuildGood(c, i - 1, r)
      PROVE  BuildGood(c, i, BuildStep(c, r, DefaultTools[i]))
  BY <1>4, BuildCardGood DEF BuildGood, BuildStep
<1>5. n \in Nat /\ DOMAIN DefaultTools = 1 .. n
  BY SettingsAssumption
<1> HIDE DEF n
<1>6. BuildGood(c, n, Building!Fold(c, v, DefaultTools))
  BY <1>3, <1>4, <1>5, Building!FoldKeeps
<1> QED
  BY <1>1, <1>2, <1>6 DEF BuildGood

-----------------------------------------------------------------------------
(* The invariant.                                                          *)

Good(v) == VariableGood(v, served, last)

\* There is a variable when the dialog is open, when it is monitored, and when
\* the answer to the start of its monitoring is awaited or has come.
VariableInv ==
  /\ variable = Null \/ Good(variable)
  /\ menu # {} \/ monitored \/ resumed \/ "START" \in waiting => Good(variable)

\* The monitoring is started when the connection is open and its variables are
\* known; there is no connection before there is a client.
LinkInv ==
  /\ monitored \in BOOLEAN /\ resumed \in BOOLEAN
  /\ interval => status = Null
  /\ resumed => status = "OPEN" /\ "VALUEINFO" \notin waiting
  /\ "START" \in waiting => "VALUEINFO" \notin waiting

\* What the icons tell may be the status of the connection before that.
IconsInv == resumed /\ ~variable.untold => IconsAgree(variable)

DisplayInv == VariableInv /\ LinkInv /\ IconsInv

\* A new status, recorded and shown.
LEMMA SetStatusGood ==
  ASSUME NEW v, NEW meta, NEW l, NEW code, VariableGood(v, meta, l)
  PROVE  VariableGood(SetStatus(v, code), meta, l) /\ IconsAgree(SetStatus(v, code))
<1> DEFINE tools == setStatusOnCards(v.tools, code)
           w == SetStatus(v, code)
<1>1. /\ GoodTools(tools, meta, l)
      /\ \A i \in DOMAIN tools : tools[i].type = "TABLE" \/ tools[i].icon = code
  BY StatusKeepsTools DEF VariableGood
<1>2. /\ DOMAIN w = {"valueName", "metadata", "status", "untold", "tools"}
      /\ w.tools = tools /\ w.untold = FALSE /\ w.status = code /\ w.metadata = v.metadata
  BY DEF VariableGood, SetStatus
<1> HIDE DEF tools, w
<1>3. VariableGood(w, meta, l) /\ IconsAgree(w)
  BY <1>1, <1>2 DEF VariableGood, IconsAgree
<1> QED
  BY <1>3 DEF w

LEMMA WithTools ==
  ASSUME NEW v, NEW meta, NEW l, NEW newL, NEW tools,
         VariableGood(v, meta, l), GoodTools(tools, meta, newL)
  PROVE  /\ VariableGood([v EXCEPT !.tools = tools], meta, newL)
         /\ [v EXCEPT !.tools = tools].untold = v.untold
         /\ [v EXCEPT !.tools = tools].status = v.status
         /\ [v EXCEPT !.tools = tools].tools = tools
<1> DEFINE w == [v EXCEPT !.tools = tools]
<1>1. /\ DOMAIN w = {"valueName", "metadata", "status", "untold", "tools"}
      /\ w.tools = tools /\ w.untold = v.untold /\ w.status = v.status
      /\ w.metadata = v.metadata
  BY DEF VariableGood
<1> HIDE DEF w
<1>2. VariableGood(w, meta, newL)
  BY <1>1 DEF VariableGood
<1> QED
  BY <1>1, <1>2 DEF w

LEMMA InitDisplay == Init => DisplayInv
BY DEF Init, DisplayInv, VariableInv, LinkInv, IconsInv

\* Actions of the files, of the dialog and of the user's clicks that leave the
\* variable alone.
LEMMA IdleStep ==
  ASSUME DisplayInv,
         \/ \E f \in Files : readJSON(f)
         \/ checkInitComplete
         \/ handleClickFromListPanel
         \/ closeChooseMenu
         \/ UNCHANGED vars
  PROVE  DisplayInv'
<1>1. UNCHANGED <<variable, served, last, waiting, monitored, resumed>>
  BY DEF readJSON, checkInitComplete, handleClickFromListPanel, closeChooseMenu, linkVars, vars
<1>2. Good(variable)' <=> Good(variable)
  BY <1>1 DEF Good
<1>3. menu' # {} => menu # {} \/ variable # Null
  BY DEF readJSON, checkInitComplete, handleClickFromListPanel, closeChooseMenu, vars
<1>4. VariableInv'
  BY <1>1, <1>2, <1>3 DEF DisplayInv, VariableInv
<1>5. LinkInv'
  <2>1. CASE checkInitComplete
    <3>1. status = Null
      BY <2>1 DEF DisplayInv, LinkInv, checkInitComplete
    <3>2. Null # "OPEN"
      BY NullAssumption
    <3>3. ~resumed
      BY <3>1, <3>2 DEF DisplayInv, LinkInv
    <3>4. interval' = FALSE
      BY <2>1 DEF checkInitComplete
    <3> QED
      BY <1>1, <3>3, <3>4 DEF DisplayInv, LinkInv
  <2>2. CASE UNCHANGED <<interval, status>>
    BY <1>1, <2>2 DEF DisplayInv, LinkInv
  <2> QED
    BY <2>1, <2>2 DEF readJSON, handleClickFromListPanel, closeChooseMenu, linkVars, startVars, vars
<1>6. IconsInv'
  BY <1>1 DEF DisplayInv, IconsInv, IconsAgree
<1> QED
  BY <1>4, <1>5, <1>6 DEF DisplayInv

LEMMA CardStep ==
  ASSUME DisplayInv, NEW id, callbackFromDialog(id)
  PROVE  DisplayInv'
<1>1. Good(variable)
  BY DEF DisplayInv, VariableInv, callbackFromDialog
<1>2. /\ variable' = buildCard(variable, id)
      /\ UNCHANGED <<served, last, waiting, monitored, resumed, status, interval>>
  BY DEF callbackFromDialog, startVars, linkVars
<1>3. Good(variable)' /\ (variable' # variable => ~variable'.untold /\ IconsAgree(variable'))
  BY <1>1, <1>2, BuildCardGood DEF Good
<1>4. VariableInv' /\ LinkInv'
  BY <1>2, <1>3 DEF DisplayInv, VariableInv, LinkInv
<1>5. IconsInv'
  BY <1>2, <1>3 DEF DisplayInv, IconsInv, IconsAgree
<1> QED
  BY <1>4, <1>5 DEF DisplayInv

LEMMA DrawStep ==
  ASSUME DisplayInv, variable # Null, NEW i \in DOMAIN variable.tools, Draw(i)
  PROVE  DisplayInv'
<1>1. Good(variable)
  BY DEF DisplayInv, VariableInv
<1>2. PICK p : variable' = [variable EXCEPT !.tools[i].shown = p]
  BY DEF Draw
<1> DEFINE tools == [variable.tools EXCEPT ![i].shown = p]
<1>3. UNCHANGED <<served, last, waiting, monitored, resumed, status, interval, menu>>
  BY DEF Draw, startVars, linkVars
<1>4. GoodTools(tools, served, last)
  BY <1>1, DrawKeepsTools DEF Good, VariableGood
<1>5. variable' = [variable EXCEPT !.tools = tools]
  BY <1>1, <1>2 DEF Good, VariableGood
<1>6. \A j \in DOMAIN tools :
        /\ j \in DOMAIN variable.tools
        /\ tools[j].type = variable.tools[j].type /\ tools[j].icon = variable.tools[j].icon
  <2>1. PICK A : variable.tools \in Seq(A) /\ \A u \in A : GoodTool(u, served, last)
    BY <1>1 DEF Good, VariableGood, GoodTools
  <2>2. \A j \in DOMAIN variable.tools : DOMAIN variable.tools[j] = ToolFields
    BY <2>1 DEF GoodTool, FollowsValues
  <2> QED
    BY <2>2 DEF ToolFields
<1> HIDE DEF tools
<1>7. /\ VariableGood(variable', served, last) /\ variable'.tools = tools
      /\ variable'.untold = variable.untold /\ variable'.status = variable.status
  BY <1>1, <1>4, <1>5, WithTools DEF Good
<1>8. Good(variable)'
  BY <1>3, <1>7 DEF Good
<1>9. VariableInv' /\ LinkInv'
  BY <1>3, <1>8 DEF DisplayInv, VariableInv, LinkInv
<1>10. IconsInv'
  BY <1>3, <1>6, <1>7 DEF DisplayInv, IconsInv, IconsAgree
<1> QED
  BY <1>9, <1>10 DEF DisplayInv

\* The connection is opened and closed, and what it tells is shown.
LEMMA StatusStep ==
  ASSUME DisplayInv, Opened \/ Closed
  PROVE  DisplayInv'
<1>1. PICK code : StatusChange(code) /\ code \in {"OPEN", "CONNECTING"}
  BY DEF Opened, Closed
<1>2. UNCHANGED <<served, last, monitored, interval, menu>>
  BY DEF Opened, Closed, startVars
<1>3. "START" \notin waiting' /\ resumed' \in BOOLEAN /\ ~resumed'
  <2>1. CASE Opened
    <3>1. resumed = FALSE
      BY <2>1 DEF Opened, DisplayInv, LinkInv
    <3> QED
      BY <2>1, <3>1 DEF Opened
  <2>2. CASE Closed
    BY <2>2 DEF Closed
  <2> QED
    BY <2>1, <2>2
<1>4. variable = Null => variable' = Null
  BY <1>1 DEF StatusChange
<1>5. variable # Null => Good(variable)'
  <2> SUFFICES ASSUME variable # Null PROVE Good(variable)'
    OBVIOUS
  <2>1. Good(variable)
    BY DEF DisplayInv, VariableInv
  <2> DEFINE tools == setStatusOnCards(variable.tools, IF code = "OPEN" THEN "Success" ELSE code)
  <2>2. GoodTools(tools, served, last)
    BY <2>1, StatusKeepsTools DEF Good, VariableGood
  <2>3. variable' = [variable EXCEPT !.tools = tools]
    BY <1>1 DEF StatusChange
  <2> HIDE DEF tools
  <2> QED
    BY <1>2, <2>1, <2>2, <2>3, WithTools DEF Good
<1>6. variable = Null /\ Good(variable) => Good(variable)'
  BY <1>2, <1>4 DEF Good
<1>7. VariableInv'
  BY <1>2, <1>3, <1>4, <1>5, <1>6 DEF DisplayInv, VariableInv
<1>8. ~interval
  BY NullAssumption DEF Opened, Closed, DisplayInv, LinkInv
<1>9. LinkInv'
  BY <1>2, <1>3, <1>8 DEF DisplayInv, LinkInv
<1>10. IconsInv'
  BY <1>3 DEF IconsInv
<1> QED
  BY <1>7, <1>9, <1>10 DEF DisplayInv

LEMMA ValueInfoStep ==
  ASSUME DisplayInv, ValueInfoReceived
  PROVE  DisplayInv'
<1> DEFINE parsed == buildVariable(valueName, served)
           fresh == [valueName |-> valueName, metadata |-> parsed.metadata, status |-> Null,
                     untold |-> FALSE, tools |-> <<>>]
<1>1. UNCHANGED <<served, last, monitored, resumed, status, interval, menu>>
  BY DEF ValueInfoReceived, startVars
<1>2. "VALUEINFO" \in waiting /\ "VALUEINFO" \notin waiting'
  BY DEF ValueInfoReceived, Receives
<1>3. ~resumed /\ "START" \notin waiting
  BY <1>2 DEF DisplayInv, LinkInv
<1>4. variable' = IF parsed = Null THEN Null
                  ELSE IF variable = Null THEN defaultDisplay(fresh)
                  ELSE mergeToolsIntoNewList(variable, fresh)
  BY DEF ValueInfoReceived
<1>5. ASSUME parsed # Null
      PROVE  Good(variable)'
  <2>1. parsed.metadata = MetaDataObj(served)
    BY <1>5 DEF buildVariable
  <2>2. GoodTools(<<>>, served, last)
    <3> DEFINE A == {t \in {Null} : GoodTool(t, served, last)}
    <3>1. <<>> \in Seq(A) /\ \A t \in A : GoodTool(t, served, last)
      OBVIOUS
    <3> HIDE DEF A
    <3> QED
      BY <3>1 DEF GoodTools
  <2>3. VariableGood(fresh, served, last)
    BY <1>5, <2>1, <2>2 DEF VariableGood
  <2>4. fresh.metadata = MetaDataObj(served)
    BY <2>1
  <2> HIDE DEF parsed, fresh
  <2>5. CASE variable = Null
    BY <1>1, <1>4, <1>5, <2>3, <2>5, DefaultDisplayGood DEF Good
  <2>6. CASE variable # Null
    <3>1. Good(variable)
      BY <2>6 DEF DisplayInv, VariableInv
    <3>2. variable' = mergeToolsIntoNewList(variable, fresh)
      BY <1>4, <1>5, <2>6
    <3>3. VariableGood([variable EXCEPT !.metadata = fresh.metadata], served, last)
      BY <2>4, <3>1 DEF Good, VariableGood
    <3> QED
      BY <1>1, <2>3, <3>2, <3>3 DEF Good, mergeToolsIntoNewList
  <2> QED
    BY <2>5, <2>6
<1>6. ASSUME parsed = Null
      PROVE  /\ variable' = Null /\ ~Good(variable) /\ variable = Null
             /\ menu = {} /\ monitored = FALSE
  <2>1. ~Good(variable)
    BY <1>6 DEF Good, VariableGood
  <2> QED
    BY <1>4, <1>6, <2>1 DEF DisplayInv, VariableInv, LinkInv
<1>7. "START" \in waiting' => monitored \/ variable' # Null
  BY <1>3 DEF ValueInfoReceived
<1> HIDE DEF parsed, fresh
<1>8. VariableInv'
  BY <1>1, <1>3, <1>5, <1>6, <1>7 DEF VariableInv
<1>9. LinkInv' /\ IconsInv'
  BY <1>1, <1>2, <1>3 DEF DisplayInv, LinkInv, IconsInv
<1> QED
  BY <1>8, <1>9 DEF DisplayInv

LEMMA StartAnswerStep ==
  ASSUME DisplayInv, StartReceived
  PROVE  DisplayInv'
<1>1. PICK code : variable' = SetStatus(variable, code) /\ monitored' = (monitored \/ code = "Success")
  BY DEF StartReceived
<1>2. /\ UNCHANGED <<served, last, status, interval, menu>> /\ resumed' = TRUE
      /\ status = "OPEN" /\ "START" \in waiting /\ waiting' \subseteq waiting
  BY DEF StartReceived, Receives, startVars
<1>3. Good(variable) /\ "VALUEINFO" \notin waiting
  BY <1>2 DEF DisplayInv, VariableInv, LinkInv
<1>4. Good(variable)' /\ IconsAgree(variable')
  BY <1>1, <1>2, <1>3, SetStatusGood DEF Good
<1>5. monitored' \in BOOLEAN
  BY <1>1
<1>6. VariableInv' /\ IconsInv'
  BY <1>4 DEF VariableInv, IconsInv, IconsAgree
<1>7. LinkInv'
  BY <1>2, <1>3, <1>5 DEF DisplayInv, LinkInv
<1> QED
  BY <1>6, <1>7 DEF DisplayInv

LEMMA NewStatusGood ==
  ASSUME NEW v, NEW meta, NEW l, NEW code, VariableGood(v, meta, l)
  PROVE  /\ VariableGood(NewStatus(v, code), meta, l)
         /\ NewStatus(v, code) = v \/ IconsAgree(NewStatus(v, code))
BY SetStatusGood DEF NewStatus

LEMMA ErrorStep ==
  ASSUME DisplayInv, ErrorReceived
  PROVE  DisplayInv'
<1>1. PICK code : variable' = NewStatus(variable, code)
  BY DEF ErrorReceived
<1>2. /\ UNCHANGED <<served, last, status, interval, menu, waiting, monitored, resumed>>
      /\ variable # Null
  BY DEF ErrorReceived, startVars, linkVars
<1>3. Good(variable)
  BY <1>2 DEF DisplayInv, VariableInv
<1>4. Good(variable)' /\ (variable' = variable \/ IconsAgree(variable'))
  BY <1>1, <1>2, <1>3, NewStatusGood DEF Good
<1>5. VariableInv' /\ LinkInv'
  BY <1>2, <1>4 DEF DisplayInv, VariableInv, LinkInv
<1>6. IconsInv'
  BY <1>2, <1>4 DEF DisplayInv, IconsInv, IconsAgree
<1> QED
  BY <1>5, <1>6 DEF DisplayInv

LEMMA UpdateStep ==
  ASSUME DisplayInv, UpdateReceived
  PROVE  DisplayInv'
<1>1. /\ UNCHANGED <<served, status, interval, menu, waiting, monitored, resumed>>
      /\ variable # Null
  BY DEF UpdateReceived, startVars, linkVars
<1>2. Good(variable)
  BY <1>1 DEF DisplayInv, VariableInv
<1>3. ASSUME NEW value,
             variable' = NewStatus([variable EXCEPT !.tools =
                           [i \in DOMAIN variable.tools |-> setValue(variable.tools[i], value)]],
                         "Success"),
             last' = value
      PROVE  Good(variable)' /\ (IconsAgree(variable) => IconsAgree(variable'))
             /\ (IconsAgree(variable') \/ variable'.untold = variable.untold)
  <2> DEFINE tools == [i \in DOMAIN variable.tools |-> setValue(variable.tools[i], value)]
             told == [variable EXCEPT !.tools = tools]
  <2>1. GoodTools(tools, served, value)
    BY <1>2, ValueKeepsTools DEF Good, VariableGood
  <2>2. \A i \in DOMAIN tools :
          /\ i \in DOMAIN variable.tools
          /\ tools[i].type = variable.tools[i].type /\ tools[i].icon = variable.tools[i].icon
    <3>1. PICK A : variable.tools \in Seq(A) /\ \A u \in A : GoodTool(u, served, last)
      BY <1>2 DEF Good, VariableGood, GoodTools
    <3>2. ASSUME NEW i \in DOMAIN tools
          PROVE  /\ i \in DOMAIN variable.tools
                 /\ tools[i].type = variable.tools[i].type
                 /\ tools[i].icon = variable.tools[i].icon
      <4> DEFINE t == variable.tools[i]
      <4>1. i \in DOMAIN variable.tools /\ tools[i] = setValue(t, value)
        OBVIOUS
      <4>2. GoodTool(t, served, last)
        BY <3>1, <4>1
      <4> HIDE DEF t
      <4>3. setValue(t, value).icon = t.icon /\ SameMake(t, setValue(t, value))
        BY <4>2, SetValueFollows
      <4> QED
        BY <4>1, <4>3 DEF SameMake, t
    <3> QED
      BY <3>2
  <2> HIDE DEF tools
  <2>3. /\ VariableGood(told, served, value) /\ told.tools = tools
        /\ told.untold = variable.untold /\ told.status = variable.status
    BY <1>2, <2>1, WithTools DEF Good
  <2> HIDE DEF told
  <2>4. variable' = NewStatus(told, "Success")
    BY <1>3 DEF told, tools
  <2>5. IconsAgree(variable) => IconsAgree(told)
    BY <2>2, <2>3 DEF IconsAgree
  <2>6. VariableGood(variable', served, value) /\ (variable' = told \/ IconsAgree(variable'))
    BY <2>3, <2>4, NewStatusGood
  <2> QED
    BY <1>1, <1>3, <2>3, <2>5, <2>6 DEF Good
<1>4. ASSUME NEW code, variable' = RecordStatus(variable, code), last' = last
      PROVE  Good(variable)' /\ (variable' = variable \/ variable'.untold)
  BY <1>1, <1>2, <1>4 DEF Good, VariableGood, RecordStatus
<1>5. Good(variable)' /\ IconsInv'
  <2>1. ASSUME NEW raw \in Values,
               LET value == cast(valueName, raw)
                   told == [variable EXCEPT !.tools =
                         [i \in DOMAIN variable.tools |-> setValue(variable.tools[i], value)]]
               IN variable' = NewStatus(told, "Success") /\ last' = value
        PROVE  Good(variable)' /\ IconsInv'
    BY <1>1, <1>3, <2>1 DEF DisplayInv, IconsInv, IconsAgree
  <2>2. ASSUME NEW code, variable' = RecordStatus(variable, code), last' = last
        PROVE  Good(variable)' /\ IconsInv'
    BY <1>1, <1>4, <2>2 DEF DisplayInv, IconsInv, IconsAgree
  <2> QED
    BY <2>1, <2>2 DEF UpdateReceived
<1>6. VariableInv' /\ LinkInv'
  BY <1>1, <1>5 DEF DisplayInv, VariableInv, LinkInv
<1> QED
  BY <1>5, <1>6 DEF DisplayInv

LEMMA DisplayStep == DisplayInv /\ [Next]_vars => DisplayInv'
<1> SUFFICES ASSUME DisplayInv, [Next]_vars PROVE DisplayInv'
  OBVIOUS
<1>1. CASE \E f \in Files : readJSON(f)
  BY <1>1, IdleStep
<1>2. CASE checkInitComplete
  BY <1>2, IdleStep
<1>3. CASE Opened \/ Closed
  BY <1>3, StatusStep
<1>4. CASE callbackReveiceFromServer
  BY <1>4, ValueInfoStep, StartAnswerStep, ErrorStep, UpdateStep DEF callbackReveiceFromServer
<1>5. CASE User
  <2>1. CASE handleClickFromListPanel \/ closeChooseMenu
    BY <2>1, IdleStep
  <2>2. ASSUME NEW id \in Range(VariableTools), callbackFromDialog(id)
        PROVE  DisplayInv'
    BY <2>2, CardStep
  <2> QED
    BY <1>5, <2>1, <2>2 DEF User
<1>6. ASSUME variable # Null, NEW i \in DOMAIN variable.tools, Draw(i)
      PROVE  DisplayInv'
  BY <1>6, DrawStep
<1>7. CASE UNCHANGED vars
  BY <1>7, IdleStep
<1> QED
  BY <1>1, <1>2, <1>3, <1>4, <1>5, <1>6, <1>7 DEF Next

LEMMA DisplayIsGood == Spec => []DisplayInv
BY InitDisplay, DisplayStep, PTL DEF Spec

-----------------------------------------------------------------------------
(* Values and icons.                                                       *)

\* Whatever updates, drawings, interruptions of the connection and new tools
\* come in between, a tool at rest that has got a value shows the last good
\* one, or passed it when it came (setValue of gauge.js).
THEOREM ToolsShowTheUpdate == Spec => []ToolsShowUpdate
<1>1. DisplayInv => ToolsShowUpdate
  <2> SUFFICES ASSUME DisplayInv, variable # Null, NEW t \in Range(variable.tools),
                      t.target # Null, t.shown = t.target
               PROVE  t.shown = last \/ t.passed
    BY DEF ToolsShowUpdate
  <2>1. Good(variable)
    BY DEF DisplayInv, VariableInv
  <2>2. PICK A : variable.tools \in Seq(A) /\ \A u \in A : GoodTool(u, served, last)
    BY <2>1 DEF Good, VariableGood, GoodTools
  <2>3. GoodTool(t, served, last)
    BY <2>2 DEF Range
  <2> QED
    BY <2>3 DEF GoodTool, FollowsValues
<1> QED
  BY <1>1, DisplayIsGood, PTL

\* The icons of the cards tell the status of the value once the start of the
\* monitoring is answered, but for RecordStatus (facade.js).
THEOREM IconsTellTheStatus == Spec => []IconsTellStatus
<1>1. DisplayInv => IconsTellStatus
  BY DEF DisplayInv, IconsInv, IconsAgree, IconsTellStatus, Range
<1> QED
  BY <1>1, DisplayIsGood, PTL

-----------------------------------------------------------------------------
(* What a gauge is made of.                                                *)

SectionStep(meta, list, n) ==
  IF Has(meta.Section, n) THEN AddSection(list, meta.Section[n]) ELSE list

SectionSet(meta) == {SectionObj(meta.Section[n]) : n \in {"Low", "Normal", "High"}}

SectionGood(meta, i, list) == list \in Seq(SectionSet(meta))

Sectioning == INSTANCE FoldInduction WITH Step <- SectionStep, Good <- SectionGood

LEMMA SectionsAreAList ==
  ASSUME NEW meta
  PROVE  SectionsOf(meta) \in Seq(SectionSet(meta))
<1>1. SectionsOf(meta) = Sectioning!Fold(meta, <<>>, SectionNames)
  BY DEF SectionsOf, SectionStep, Sectioning!Fold, FoldLeft, MapThenFoldSet, Sectioning!FoldLeft,
     Sectioning!MapThenFoldSet, Max, Sectioning!Max
<1>2. SectionGood(meta, 0, <<>>)
  BY DEF SectionGood
<1>3. DOMAIN SectionNames = 1 .. 3
  BY DEF SectionNames
<1>4. ASSUME NEW list, NEW i \in 1 .. 3, SectionGood(meta, i - 1, list)
      PROVE  SectionGood(meta, i, SectionStep(meta, list, SectionNames[i]))
  <2>1. SectionNames[i] \in {"Low", "Normal", "High"}
    BY DEF SectionNames
  <2>2. SectionObj(meta.Section[SectionNames[i]]) \in SectionSet(meta)
    BY <2>1 DEF SectionSet
  <2> QED
    BY <1>4, <2>2 DEF SectionGood, SectionStep, AddSection
<1>5. SectionGood(meta, 3, Sectioning!Fold(meta, <<>>, SectionNames))
  BY <1>2, <1>3, <1>4, Sectioning!FoldKeeps
<1> QED
  BY <1>1, <1>5 DEF SectionGood

\* Sections of the server that three are of are whole: the parser refuses others.
LEMMA SectionsAreWhole ==
  ASSUME NEW meta, ~SectionFails(meta), parseSections(meta) # Null
  PROVE  getSection(parseSections(meta)) = Null \/ Whole(getSection(parseSections(meta)))
<1> DEFINE list == SectionsOf(meta)
<1>1. Has(meta, "Section") /\ parseSections(meta) = list
  BY DEF parseSections
<1>2. \A i \in DOMAIN list : Null \notin {list[i].min, list[i].max, list[i].color}
  BY <1>1 DEF SectionFails
<1>3. DOMAIN list = 1 .. Len(list)
  BY SectionsAreAList
<1> HIDE DEF list
<1> QED
  BY <1>1, <1>2, <1>3 DEF getSection, Whole

Plain(meta) == [metadata |-> MetaDataObj(meta)]

\* The names under which Told tells something.
ToldNames == {"minValue", "maxValue", "titleString", "headerString", "unitString", "detailString",
              "threshold"}

LEMMA ParameterIsChosen ==
  ASSUME NEW type \in Gauges, NEW v, NEW own, NEW name \in Parameters(type) \cap ToldNames
  PROVE  Parameter(createConfigObj(v, type, own), name) = ChosenValue(v, own, name)
<1> DEFINE config == createConfigObj(v, type, own)
<1>1. name \in FieldsOf(Chosen, type) /\ name \notin DOMAIN FlagOf
      /\ name \notin {"toolType", "size", "lightBlubColor"}
  BY DEF Parameters, DialParameters, PlainParameters, ScaledParameters, SignalParameters,
     ToldNames, FieldsOf, Has, Chosen, Scale, FlagOf, Gauges, Copied
<1>2. name \in DOMAIN config /\ config[name] = ChosenValue(v, own, name)
  BY <1>1 DEF createConfigObj, ToolType, Gauges, Copied
<1> QED
  BY <1>2 DEF Parameter, ToldNames, Get, Has

LEMMA SectionIsChosen ==
  ASSUME NEW type \in Gauges, NEW v, NEW own, "section" \in Parameters(type)
  PROVE  Parameter(createConfigObj(v, type, own), "section")
           = getSection(ChosenValue(v, own, "section"))
<1> DEFINE config == createConfigObj(v, type, own)
<1>1. "section" \in FieldsOf(Chosen, type) /\ "section" \notin DOMAIN FlagOf
  BY DEF Parameters, DialParameters, PlainParameters, ScaledParameters, SignalParameters,
     FieldsOf, Has, Chosen, Scale, FlagOf, Gauges, Copied
<1>2. "section" \in DOMAIN config /\ config["section"] = ChosenValue(v, own, "section")
  BY <1>1 DEF createConfigObj, ToolType, Gauges, Copied
<1> QED
  BY <1>2 DEF Parameter, Get, Has

LEMMA ParameterIsConfigured ==
  ASSUME NEW type \in Gauges, NEW v, NEW own, NEW name \in Parameters(type)
  PROVE  \/ name \in DOMAIN createConfigObj(v, type, own)
         \/ name = "glowColor" \/ <<type, name>> \in NeverSet
BY DEF Parameters, DialParameters, PlainParameters, ScaledParameters, SignalParameters, Gauges,
   createConfigObj, ToolType, Copied, FieldsOf, Has, Chosen, Flags, Scale, NeverSet, Sized

\* What Told tells is what the parser has put into the metadata.
LEMMA ToldIsMetadata ==
  ASSUME NEW name \in ToldNames
  PROVE  /\ Told(name) = Plain(served).metadata[Sources[name][1]]
         /\ name \notin {"minValue", "maxValue"} => Sources[name][2] = name
BY DEF Told, ToldNames, Plain, MetaDataObj, Sources, parseThreshold

LEMMA DesignIsKnown ==
  ASSUME NEW type, NEW part \in DOMAIN setDesign(type, DesignObj)
  PROVE  setDesign(type, DesignObj)[part] # Null
<1>1. part \in FieldsOf(Designed, type)
  BY DEF setDesign
<1>2. part \in DOMAIN DesignObj
  BY <1>1 DEF FieldsOf, Has, Designed, Face, Needle, DesignObj
<1>3. DesignObj[part] # Null
  BY <1>2, DesignAssumption
<1>4. setDesign(type, DesignObj)[part] = DesignObj[part]
  BY <1>1, <1>2 DEF setDesign, DesignObj, Known, Numbered, TypeNames, ColorDefs, setFrameDesign,
     setBackgroundColor, setForegroundType, setPointerColor, setPointerType, setLcdColor,
     setLedColor, setPointerAvg, setPointerColorAvg, setValueColor
<1> QED
  BY <1>3, <1>4

\* A gauge's parameters, and its design.
LEMMA GaugeFollows ==
  ASSUME NEW type \in Gauges, NEW own, NEW name \in Parameters(type),
         buildVariable(valueName, served) # Null
  PROVE  LET config == createConfigObj(Plain(served), type, own)
             p      == Parameter(config, name)
         IN  /\ Told(name) # Null => p = Told(name)
             /\ Told(name) = Null /\ name \in ToldNames \ {"minValue", "maxValue"}
                  => p = Get(own, name)
             /\ name = "section" =>
                  \/ p = Null \/ Whole(p)
                  \/ parseSections(served) = Null /\ p = Get(own, name)
<1> DEFINE v == Plain(served)
           config == createConfigObj(v, type, own)
           p == Parameter(config, name)
<1>1. CASE name \in ToldNames
  <2>1. p = ChosenValue(v, own, name)
    BY <1>1, ParameterIsChosen
  <2>2. /\ Told(name) = v.metadata[Sources[name][1]]
        /\ name \notin {"minValue", "maxValue"} => Sources[name][2] = name
    BY <1>1, ToldIsMetadata
  <2>3. name # "section"
    BY <1>1 DEF ToldNames
  <2> HIDE DEF p, v
  <2>4. /\ Told(name) # Null => p = Told(name)
        /\ Told(name) = Null /\ name \notin {"minValue", "maxValue"} => p = Get(own, name)
    BY <2>1, <2>2 DEF ChosenValue, choose
  <2> QED
    BY <2>3, <2>4 DEF p, v
<1>2. CASE name = "section"
  <2>1. p = getSection(ChosenValue(v, own, "section"))
    BY <1>2, SectionIsChosen
  <2>2. ChosenValue(v, own, "section") = choose(parseSections(served), Get(own, "section"))
    BY DEF ChosenValue, Sources, Plain, MetaDataObj
  <2>3. CASE parseSections(served) # Null
    <3>1. ~SectionFails(served)
      BY DEF buildVariable
    <3>2. p = getSection(parseSections(served))
      BY <2>1, <2>2, <2>3 DEF choose
    <3>3. p = Null \/ Whole(p)
      BY <2>3, <3>1, <3>2, SectionsAreWhole
    <3> QED
      BY <1>2, <3>3 DEF Told, ToldNames
  <2>4. CASE parseSections(served) = Null
    <3>1. p = getSection(Get(own, "section"))
      BY <2>1, <2>2, <2>4 DEF choose
    <3>2. p = Null \/ p = Get(own, "section")
      BY <3>1 DEF getSection
    <3> QED
      BY <1>2, <2>4, <3>2 DEF Told, ToldNames
  <2> QED
    BY <2>3, <2>4
<1>3. CASE name \notin ToldNames /\ name # "section"
  BY <1>3 DEF Told, ToldNames
<1> QED
  BY <1>1, <1>2, <1>3

\* What a tool that the configuration has a type for is made with.
LEMMA ToolFollows ==
  ASSUME NEW t, MadeOf(t, served), buildVariable(valueName, served) # Null
  PROVE  LET own == findIdInConfigTools(t.id)
             config == Config(served, t.id)
         IN  /\ \A name \in DOMAIN t.params :
                   /\ Told(name) # Null => t.params[name] = Told(name)
                   /\ Told(name) = Null /\ name \in ToldNames \ {"minValue", "maxValue"}
                        => t.params[name] = Get(own, name)
                   /\ name = "section" =>
                        \/ t.params[name] = Null \/ Whole(t.params[name])
                        \/ parseSections(served) = Null /\ t.params[name] = Get(own, name)
                   /\ name \in DOMAIN config
                        \/ name = "glowColor" \/ <<t.type, name>> \in NeverSet
             /\ \A part \in DOMAIN t.design : t.design[part] # Null
<1> DEFINE own == findIdInConfigTools(t.id)
           type == findTypeInConfigTools(t.id)
           config == createConfigObj(Plain(served), type, own)
<1>1. config = Config(served, t.id)
  BY DEF Config, getConfigObj, Plain
<1>2. /\ config # Null
      /\ LET made == ToolObj(Null, config, t.id)
         IN  t.type = made.type /\ t.params = made.params /\ t.design = made.design
  BY <1>1 DEF MadeOf
<1>3. type \in ToolType
  BY <1>2 DEF createConfigObj
<1> HIDE DEF own, type
<1>4. config.toolType = type
  <2>1. "toolType" \notin DOMAIN FlagOf \cup FieldsOf(Chosen, type)
    BY DEF FlagOf, FieldsOf, Has, Chosen, Scale
  <2> QED
    BY <1>3, <2>1 DEF createConfigObj
<1>5. t.type = type
  BY <1>2, <1>4 DEF ToolObj
<1>6. CASE type = "TABLE"
  BY <1>2, <1>4, <1>6 DEF ToolObj
<1>7. CASE type = "LINE"
  <2>1. t.params = createLine(config) /\ t.design = <<>>
    BY <1>2, <1>4, <1>7 DEF ToolObj, create
  <2>2. ASSUME NEW name \in DOMAIN t.params
        PROVE  name \in DOMAIN config /\ name \notin ToldNames /\ name # "section"
    BY <1>7, <2>1 DEF createLine, createConfigObj, ToolType, Copied, ToldNames
  <2>3. \A name : name \notin ToldNames => Told(name) = Null
    BY DEF Told, ToldNames
  <2> HIDE DEF config
  <2> QED
    BY <1>1, <2>1, <2>2, <2>3 DEF own
<1>8. CASE type \in Gauges
  <2>1. /\ t.params = [name \in Parameters(type) |-> Parameter(config, name)]
        /\ t.design = setDesign(type, DesignObj)
    BY <1>2, <1>4, <1>8 DEF ToolObj, create, Gauges, Copied
  <2>2. ASSUME NEW name \in Parameters(type)
        PROVE  /\ Told(name) # Null => t.params[name] = Told(name)
               /\ Told(name) = Null /\ name \in ToldNames \ {"minValue", "maxValue"}
                    => t.params[name] = Get(own, name)
               /\ name = "section" =>
                    \/ t.params[name] = Null \/ Whole(t.params[name])
                    \/ parseSections(served) = Null /\ t.params[name] = Get(own, name)
    BY <1>8, <2>1, GaugeFollows
  <2>3. \A name \in Parameters(type) :
          name \in DOMAIN config \/ name = "glowColor" \/ <<t.type, name>> \in NeverSet
    BY <1>5, <1>8, ParameterIsConfigured
  <2>4. \A part \in DOMAIN t.design : t.design[part] # Null
    BY <2>1, DesignIsKnown
  <2> HIDE DEF config
  <2> QED
    BY <1>1, <2>1, <2>2, <2>3, <2>4 DEF own
<1> QED
  BY <1>3, <1>6, <1>7, <1>8 DEF ToolType, Gauges

\* What the server tells of the variable is what its gauges are made with, for
\* any configuration files and any metadata (parser.js, config.js, gauge.js).
THEOREM WidgetFollowsTheMetadata == Spec => []WidgetFollowsMetadata
<1>1. DisplayInv => WidgetFollowsMetadata
  <2> SUFFICES ASSUME DisplayInv, variable # Null PROVE WidgetFollowsMetadata
    BY DEF WidgetFollowsMetadata
  <2>1. Good(variable)
    BY DEF DisplayInv, VariableInv
  <2>2. PICK A : variable.tools \in Seq(A) /\ \A u \in A : GoodTool(u, served, last)
    BY <2>1 DEF Good, VariableGood, GoodTools
  <2>3. DOMAIN Sources \ {"minValue", "maxValue", "section", "area", "valueGradient"}
          = ToldNames \ {"minValue", "maxValue"}
    BY DEF Sources, ToldNames
  <2>4. ASSUME NEW t \in Range(variable.tools)
        PROVE  MadeOf(t, served) /\ getConfigObj(variable, t.id) = Config(served, t.id)
    <3>1. MadeOf(t, served)
      BY <2>2 DEF Range, GoodTool
    <3> QED
      BY <2>1, <3>1, ConfigOfVariable DEF Good, VariableGood
  <2>5. buildVariable(valueName, served) # Null
    BY <2>1 DEF Good, VariableGood
  <2> QED
    BY <2>3, <2>4, <2>5, ToolFollows DEF WidgetFollowsMetadata
<1> QED
  BY <1>1, DisplayIsGood, PTL

=============================================================================
