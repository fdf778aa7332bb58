--------------------------- MODULE MCPanelDisplay ---------------------------
(* PanelDisplay for TLC: a tool of every type, and metadata that has all,  *)
(* some or none of what the parser knows, or that it refuses.              *)
EXTENDS PanelDisplay

Size(w, h) == [width |-> w, height |-> h]

\* The parameters of a gauge with a scale, as in tools.json.
Scaled == [width |-> 200, height |-> 125, titleString |-> "title", unitString |-> "unit",
           threshold |-> 50, lcdVisible |-> TRUE, gaugeType |-> "TYPE2"]

Plain(type) == <<type, Size(200, 150)>>

ToolList ==
  <<Plain("ALTIMETER"), Plain("BATTERY"), Plain("CLOCK"), Plain("HORIZON"), Plain("ODOMETER"),
    Plain("STOPWATCH"), Plain("TRAFFICLIGHT"), Plain("LED"), Plain("LEVEL"), Plain("COMPASS"),
    Plain("WINDDIRECTION"),
    <<"LIGHTBLUB", [color |-> "yellow"] @@ Size(150, 200)>>,
    <<"DISPLAY_SINGLE", [unitString |-> "unit", headerString |-> "header"] @@ Size(250, 125)>>,
    <<"DISPLAY_MULTI", [unitString |-> "unit", headerString |-> "header",
                        detailString |-> "detail"] @@ Size(250, 125)>>,
    <<"LINEAR", Scaled>>, <<"LINEAR_BARGRAPH", Scaled>>, <<"RADIAL", Scaled>>,
    <<"RADIAL_BARGRAPH", Scaled>>, <<"RADIAL_VERTICAL", Scaled>>,
    <<"LINE", [trigger |-> 1000, amount |-> 100] @@ Size(600, 250)>>,
    <<"TABLE", <<>>>>>>

MCTools ==
  [i \in DOMAIN ToolList |->
     [toolType |-> ToolList[i][1],
      params |-> <<[id |-> ToolList[i][1]] @@ ToolList[i][2]>>]]

MCVariableTools == [i \in DOMAIN ToolList |-> ToolList[i][1]] \o <<"unknown">>
MCDefaultTools == <<"TABLE", "unknown", "LINE">>

Section(min, color) == [Min |-> min, Max |-> min + 105, Color |-> color]
Sections == [Low |-> Section(0, "GREEN"), Normal |-> Section(105, "YELLOW"), High |-> Section(210, "RED")]
Gradient == [Low |-> "GREEN", Medium |-> "GREEN", Normal |-> "YELLOW", High |-> "RED"]

\* All; some, with two sections and no colour of the area; none; an unknown
\* colour; a gradient that is not whole.
MCMetaData ==
  {[DisplayName |-> "name", Limits |-> [Min |-> -15, Max |-> 995],
    Info |-> [Header |-> "h", Unit |-> "u", Detail |-> "d"], Section |-> Sections,
    ValGrad |-> Gradient, Area |-> [Start |-> 0, End |-> 100, Color |-> "BLUE"], Threshold |-> 70],
   [Limits |-> [Max |-> 500], Info |-> [Unit |-> "u"],
    Section |-> [Low |-> Section(0, "GREEN"), High |-> Section(210, "RED")], Area |-> [Start |-> 0]],
   <<>>,
   [Section |-> [Low |-> Section(0, "PINK")] @@ Sections],
   [ValGrad |-> [Low |-> "GREEN"]]}
=============================================================================
