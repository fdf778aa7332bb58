----------------------------- MODULE PanelTools -----------------------------
(***************************************************************************)
(* How a tool of the control panel comes to be: the variable the parser    *)
(* builds from the server's metadata (panel/parser.js), the configuration  *)
(* object of a tool for it (panel/config.js), and the gauge or chart that  *)
(* is built from that (panel/toolfactory.js, panel/gauge.js,               *)
(* panel/chart.js).  Pure operators; PanelDisplay gives them their life.   *)
(*                                                                         *)
(* An object of JavaScript is a function on the properties it has; what    *)
(* it does not have, and what is null or undefined, is Null.  Numbers are  *)
(* in tenths, texts have no white space (the parser removes it), colours   *)
(* are their names until they are turned into red, green and blue.         *)
(***************************************************************************)
EXTENDS Integers, Sequences, SequencesExt

CONSTANT Null

Has(obj, key) == key \in DOMAIN obj                    \* hasOwnProperty
Get(obj, key) == IF Has(obj, key) THEN obj[key] ELSE Null

-----------------------------------------------------------------------------
(* Parser: values.                                                         *)

\* parseInt: the fraction is cut off.
valueToInt(x) == IF x < 0 THEN -((-x) - ((-x) % 10)) ELSE x - (x % 10)

Rgb == [GREEN |-> <<0, 220, 0>>, RED |-> <<220, 0, 0>>, BLUE |-> <<0, 0, 220>>,
        YELLOW |-> <<220, 220, 0>>, TEAL |-> <<0, 220, 220>>]

\* typeToColorString: undefined for a colour it does not know.
typeToColorString(type) == Get(Rgb, type)

Integral ==
  {"Int16", "UInt16", "Int32", "UInt32", "Int64", "UInt64", "Byte", "Double", "Float"}

\* cast, by the NAME of the variable: a Double is cut to an integer when it is
\* called Double, and only then.
cast(valueName, value) ==
  IF valueName \in Integral THEN valueToInt(value)
  ELSE IF valueName = "Boolean" THEN value = 10      \* "true", "TRUE" or 1
  ELSE value

-----------------------------------------------------------------------------
(* Parser: metadata.                                                       *)

SectionNames == <<"Low", "Normal", "High">>
GradientNames == {"Low", "Medium", "Normal", "High"}

SectionObj(s) ==
  [min   |-> IF Has(s, "Min") THEN valueToInt(s.Min) ELSE Null,
   max   |-> IF Has(s, "Max") THEN valueToInt(s.Max) ELSE Null,
   color |-> IF Has(s, "Color") THEN typeToColorString(s.Color) ELSE Null]

\* The sections that are given, in order.
AddSection(list, section) == Append(list, SectionObj(section))

SectionsOf(meta) ==
  FoldLeft(LAMBDA list, n : IF Has(meta.Section, n) THEN AddSection(list, meta.Section[n]) ELSE list,
           <<>>, SectionNames)

\* parseSections throws when a section that is given lacks something.
SectionFails(meta) ==
  /\ Has(meta, "Section")
  /\ \E i \in DOMAIN SectionsOf(meta) :
       LET s == SectionsOf(meta)[i] IN Null \in {s.min, s.max, s.color}

parseSections(meta) == IF Has(meta, "Section") THEN SectionsOf(meta) ELSE Null

\* parseValGrad throws when one of the four colours is missing.
GradientFails(meta) == Has(meta, "ValGrad") /\ ~ (GradientNames \subseteq DOMAIN meta.ValGrad)

parseValGrad(meta) ==
  IF Has(meta, "ValGrad")
  THEN [low |-> meta.ValGrad.Low, medium |-> meta.ValGrad.Medium,
        normal |-> meta.ValGrad.Normal, high |-> meta.ValGrad.High]
  ELSE Null

\* parseArea: nothing unless start, end and colour are given; a colour that is
\* not known stays in it as undefined.
parseArea(meta) ==
  IF Has(meta, "Area") /\ {"Start", "End", "Color"} \subseteq DOMAIN meta.Area
  THEN <<meta.Area.Start, meta.Area.End, typeToColorString(meta.Area.Color)>>
  ELSE Null

parseThreshold(meta) == Get(meta, "Threshold")

Limit(meta, key) ==
  IF Has(meta, "Limits") /\ Has(meta.Limits, key) THEN valueToInt(meta.Limits[key]) ELSE Null

Info(meta, key) == IF Has(meta, "Info") THEN Get(meta.Info, key) ELSE Null

MetaDataObj(meta) ==
  [displayName  |-> Get(meta, "DisplayName"),
   min          |-> Limit(meta, "Min"),
   max          |-> Limit(meta, "Max"),
   headerString |-> Info(meta, "Header"),
   unitString   |-> Info(meta, "Unit"),
   detailString |-> Info(meta, "Detail"),
   section      |-> parseSections(meta),
   valGrad      |-> parseValGrad(meta),
   area         |-> parseArea(meta),
   threshold    |-> parseThreshold(meta)]

\* buildVariables, for one variable: Null when an exception drops it from the
\* list.
buildVariable(valueName, meta) ==
  IF SectionFails(meta) \/ GradientFails(meta) THEN Null
  ELSE [valueName |-> valueName, metadata |-> MetaDataObj(meta)]

-----------------------------------------------------------------------------
(* Config: the configuration object of a tool.                             *)

\* The types whose size is the longer side.
Sized == {"ALTIMETER", "BATTERY", "CLOCK", "COMPASS", "HORIZON", "LED", "LEVEL", "RADIAL",
          "RADIAL_BARGRAPH", "RADIAL_VERTICAL", "STOPWATCH", "WINDDIRECTION"}

\* Field of the configuration: property of the metadata, parameter of the tool.
Sources ==
  [minValue     |-> <<"min", "min">>,
   maxValue     |-> <<"max", "max">>,
   titleString  |-> <<"headerString", "titleString">>,
   headerString |-> <<"headerString", "headerString">>,
   unitString   |-> <<"unitString", "unitString">>,
   detailString |-> <<"detailString", "detailString">>,
   threshold    |-> <<"threshold", "threshold">>,
   section      |-> <<"section", "section">>,
   area         |-> <<"area", "area">>,
   valueGradient |-> <<"valGrad", "valueGradient">>]

Scale == {"minValue", "maxValue", "titleString", "unitString"}

\* The fields the metadata may override, by type.
Chosen ==
  [DISPLAY_MULTI   |-> {"unitString", "headerString", "detailString"},
   DISPLAY_SINGLE  |-> {"unitString", "headerString"},
   LINEAR          |-> Scale \cup {"section", "threshold"},
   LINEAR_BARGRAPH |-> Scale \cup {"threshold", "valueGradient", "section"},
   RADIAL          |-> Scale \cup {"threshold", "section", "area"},
   RADIAL_BARGRAPH |-> Scale \cup {"section", "valueGradient"},
   RADIAL_VERTICAL |-> Scale]

\* Flags that tell whether a field is there.
FlagOf == [unitStringVisible   |-> "unitString",
           headerStringVisible |-> "headerString",
           detailStringVisible |-> "detailString",
           useValueGradient    |-> "valueGradient"]

Flags ==
  [DISPLAY_MULTI   |-> {"unitStringVisible", "headerStringVisible", "detailStringVisible"},
   DISPLAY_SINGLE  |-> {"unitStringVisible", "headerStringVisible"},
   LINEAR_BARGRAPH |-> {"useValueGradient"},
   RADIAL_BARGRAPH |-> {"useValueGradient"}]

\* The fields that are copied from the tool, beside width and height.
Copied ==
  [ALTIMETER |-> {}, BATTERY |-> {}, CLOCK |-> {}, HORIZON |-> {}, ODOMETER |-> {},
   RADIAL_VERTICAL |-> {"orientation"}, STOPWATCH |-> {}, TRAFFICLIGHT |-> {},
   COMPASS         |-> {"rotateFace"},
   DISPLAY_MULTI   |-> {"linkOldValue", "oldValue"},
   DISPLAY_SINGLE  |-> {"autoScroll", "valuesNumeric"},
   LED             |-> {"blink"},
   LEVEL           |-> {"decimalsVisible"},
   LIGHTBLUB       |-> {"lightBlubColor"},
   LINEAR          |-> {"lcdVisible", "gaugeType"},
   LINEAR_BARGRAPH |-> {"lcdVisible"},
   RADIAL          |-> {"gaugeType", "lcdVisible", "lcdDecimals", "useOdometer", "odometerParams"},
   RADIAL_BARGRAPH |-> {"gaugeType", "lcdVisible"},
   WINDDIRECTION   |-> {"lcdVisible", "degreeScaleHalf", "pointSymbolsVisible"},
   LINE            |-> {"fillColor", "strokeColor", "pointColor", "pointStrokeColor",
                        "animationSteps", "scaleShowGridLines", "amount", "trigger", "modulo"}]

ToolType == DOMAIN Copied \cup {"TABLE"}
Gauges == DOMAIN Copied \ {"LINE"}

FieldsOf(table, type) == IF Has(table, type) THEN table[type] ELSE {}

\* Fault: the parameter of the tool is preferred to the metadata.
ChooseSecond(val1, val2) == IF val2 # Null THEN val2 ELSE val1

choose(val1, val2) == IF val1 # Null THEN val1 ELSE val2

check(val) == val # Null

getSize(width, height) == IF width >= height THEN width ELSE height

ChosenValue(variable, toolParam, field) ==
  choose(variable.metadata[Sources[field][1]], Get(toolParam, Sources[field][2]))

\* createConfigObj: undefined, here Null, for a type it does not know.
createConfigObj(variable, toolType, toolParam) ==
  IF toolType \notin ToolType THEN Null
  ELSE IF toolType = "TABLE" THEN [toolType |-> "TABLE"]
  ELSE LET size == IF toolType \in Sized THEN {"size"} ELSE {}
           fields == {"toolType", "width", "height"} \cup size \cup Copied[toolType]
                       \cup FieldsOf(Chosen, toolType) \cup FieldsOf(Flags, toolType) IN
       [f \in fields |->
          CASE f = "toolType"           -> toolType
            [] f = "size"               -> getSize(toolParam.width, toolParam.height)
            [] f = "lightBlubColor"     -> Get(toolParam, "color")
            [] f \in DOMAIN FlagOf      -> check(ChosenValue(variable, toolParam, FlagOf[f]))
            [] f \in FieldsOf(Chosen, toolType) -> ChosenValue(variable, toolParam, f)
            [] OTHER                    -> Get(toolParam, f)]

-----------------------------------------------------------------------------
(* GaugeBuilder: the parameters a gauge is created with.                   *)

\* The section list is for three sections or none.
getSection(section) == IF section = Null \/ Len(section) # 3 THEN Null ELSE section

getArea(area) == IF area = Null \/ Len(area) # 3 THEN Null ELSE <<area>>

\* getValGrad reads the field valGrad of the configuration, which is never set.
getValGrad(config) == IF Get(config, "valGrad") = Null THEN Null ELSE <<config.valGrad>>

getType(type) == IF type \in {"TYPE1", "TYPE2", "TYPE3", "TYPE4"} THEN type ELSE "TYPE1"

getOrientation(direction) ==
  IF direction \in {"NORTH", "SOUTH", "EAST", "WEST"} THEN direction ELSE "NORTH"

\* The parameters of steelseries' constructors that the builder names.
DialParameters ==
  [COMPASS         |-> {"size", "rotateFace"},
   WINDDIRECTION   |-> {"size", "lcdVisible", "degreeScaleHalf", "pointSymbolsVisible"},
   LEVEL           |-> {"size", "decimalsVisible"},
   HORIZON         |-> {"size"},
   DISPLAY_SINGLE  |-> {"width", "height", "autoScroll", "valuesNumeric", "unitString",
                        "unitStringVisible", "headerString", "headerStringVisible"},
   DISPLAY_MULTI   |-> {"width", "height", "unitString", "unitStringVisible", "headerString",
                        "headerStringVisible", "detailString", "detailStringVisible",
                        "linkOldValue", "oldValue"}]

PlainParameters ==
  [LED |-> {"size"}, CLOCK |-> {"size"}, BATTERY |-> {"size"}, ALTIMETER |-> {"size"},
   ODOMETER |-> {"height"}]

ScaledParameters ==
  [LINEAR          |-> Scale \cup {"width", "height", "section", "threshold", "lcdVisible",
                                   "gaugeType"},
   LINEAR_BARGRAPH |-> Scale \cup {"width", "height", "section", "threshold", "lcdVisible",
                                   "valueGradient", "useValueGradient"},
   RADIAL          |-> Scale \cup {"size", "gaugeType", "section", "area", "threshold",
                                   "lcdVisible", "lcdDecimals", "useOdometer", "odometerParams"},
   RADIAL_BARGRAPH |-> Scale \cup {"size", "gaugeType", "section", "useSectionColors",
                                   "valueGradient", "useValueGradient", "lcdVisible"},
   RADIAL_VERTICAL |-> Scale \cup {"size", "orientation"}]

SignalParameters ==
  [STOPWATCH    |-> {"size"},
   LIGHTBLUB    |-> {"width", "height", "glowColor"},
   TRAFFICLIGHT |-> {"width", "height"}]

Parameters(type) ==
  FieldsOf(DialParameters, type) \cup FieldsOf(PlainParameters, type)
    \cup FieldsOf(ScaledParameters, type) \cup FieldsOf(SignalParameters, type)

\* The parameter of a gauge, from the configuration.
Parameter(config, name) ==
  LET type == config.toolType IN
  CASE name = "section"       -> getSection(Get(config, "section"))
    [] name = "area"          -> getArea(Get(config, "area"))
    [] name = "valueGradient" -> getValGrad(config)
    [] name = "gaugeType"     -> getType(Get(config, "gaugeType"))
    [] name = "orientation"   -> getOrientation(Get(config, "orientation"))
    [] name = "glowColor"     -> config.lightBlubColor
    [] name = "size" /\ type = "LED" -> 100
    [] name \in {"width", "height"} /\ type = "LIGHTBLUB" -> config[name] \div 2
    [] name = "detailStringVisible" -> Get(config, "decimalsVisible")
    [] OTHER                  -> Get(config, name)

-----------------------------------------------------------------------------
(* GaugeDesigner: the look of a gauge.                                     *)

TypeNames == <<"TYPE1", "TYPE2", "TYPE3", "TYPE4", "TYPE5", "TYPE6", "TYPE7", "TYPE8",
               "TYPE9", "TYPE10", "TYPE11", "TYPE12", "TYPE13", "TYPE14", "TYPE15", "TYPE16">>

Numbered(n) == {TypeNames[i] : i \in 1 .. n}

ColorDefs == {"RED", "GREEN", "BLUE", "ORANGE", "YELLOW", "CYAN", "MAGENTA", "WHITE", "GRAY",
              "BLACK", "RAITH", "GREEN_LCD", "JUG_GREEN"}

\* A setter hands the library's constant of the same name to the gauge; a name
\* it does not know changes nothing.
Known(type, names) == IF type \in names THEN type ELSE Null

setFrameDesign(type) ==
  Known(type, {"BLACK_METAL", "METAL", "SHINY_METAL", "BRASS", "STEEL", "CHROME", "GOLD",
               "ANTHRACITE", "TILTED_GRAY", "TILTED_BLACK", "GLOSSY_METAL"})

setBackgroundColor(type) ==
  Known(type, {"DARK_GRAY", "SATIN_GRAY", "LIGHT_GRAY", "WHITE", "BLACK", "BEIGE", "BROWN",
               "RED", "GREEN", "BLUE", "ANTHRACITE", "MUD", "PUNCHED_SHEET", "CARBON",
               "STAINLESS", "BRUSHED_METAL", "BRUSHED_STAINLESS", "TURNED"})

setForegroundType(type) == Known(type, Numbered(5))

setPointerColor(type) == Known(type, ColorDefs)

setPointerType(type) == Known(type, Numbered(16))

setLcdColor(type) ==
  Known(type, {"BEIGE", "BLUE", "ORANGE", "RED", "YELLOW", "WHITE", "GRAY", "BLACK", "GREEN",
               "BLUE2", "BLUE_BLACK", "BLUE_DARKBLUE", "BLUE_GRAY", "STANDARD",
               "STANDARD_GREEN", "BLUE_BLUE", "RED_DARKRED", "DARKBLUE", "LILA", "BLACKRED",
               "DARKGREEN", "AMBER", "LIGHTBLUE", "SECTIONS"})

setLedColor(type) ==
  Known(type, {"RED_LED", "GREEN_LED", "BLUE_LED", "ORANGE_LED", "YELLOW_LED", "CYAN_LED",
               "MAGENTA_LED"})

setPointerAvg(type) == Known(type, Numbered(16))

setPointerColorAvg(type) == Known(type, ColorDefs)

setValueColor(type) == Known(type, ColorDefs)

\* The design ToolFactory uses: the defaults of the object, not design.json.
DesignObj ==
  [frameDesign |-> "CHROME", backgroundColor |-> "WHITE", foregroundType |-> "TYPE1",
   pointerColor |-> "RED", pointerType |-> "TYPE1", lcdColor |-> "WHITE",
   ledColor |-> "RED_LED", pointerAvg |-> "TYPE1", pointerColorAvg |-> "BLUE",
   valueColor |-> "BLACK"]

ASSUME DesignAssumption == \A part \in DOMAIN DesignObj : DesignObj[part] # Null

Face == {"frameDesign", "backgroundColor", "foregroundType"}
Needle == {"pointerColor", "pointerType"}

\* What is set by type; nothing for the types that are not here.
Designed ==
  [COMPASS |-> Face \cup Needle, CLOCK |-> Face \cup Needle,
   LINEAR          |-> {"frameDesign", "backgroundColor", "valueColor", "lcdColor", "ledColor"},
   LINEAR_BARGRAPH |-> {"frameDesign", "backgroundColor", "valueColor", "lcdColor", "ledColor"},
   RADIAL          |-> Face \cup Needle \cup {"lcdColor", "ledColor"},
   RADIAL_BARGRAPH |-> Face \cup Needle \cup {"lcdColor", "ledColor"},
   RADIAL_VERTICAL |-> Face \cup Needle \cup {"lcdColor", "ledColor"},
   WINDDIRECTION   |-> Face \cup Needle \cup {"lcdColor", "pointerAvg", "pointerColorAvg"},
   STOPWATCH |-> Face \cup {"pointerColor"}, LEVEL |-> Face \cup {"pointerColor"},
   HORIZON |-> {"frameDesign", "foregroundType"},
   DISPLAY_MULTI |-> {"lcdColor"}, DISPLAY_SINGLE |-> {"lcdColor"},
   LED |-> {"ledColor"}, ALTIMETER |-> Face \cup {"lcdColor"}]

setDesign(type, design) ==
  LET Set(part) ==
        CASE part = "frameDesign"     -> setFrameDesign(design[part])
          [] part = "backgroundColor" -> setBackgroundColor(design[part])
          [] part = "foregroundType"  -> setForegroundType(design[part])
          [] part = "pointerColor"    -> setPointerColor(design[part])
          [] part = "pointerType"     -> setPointerType(design[part])
          [] part = "lcdColor"        -> setLcdColor(design[part])
          [] part = "ledColor"        -> setLedColor(design[part])
          [] part = "pointerAvg"      -> setPointerAvg(design[part])
          [] part = "pointerColorAvg" -> setPointerColorAvg(design[part])
          [] part = "valueColor"      -> setValueColor(design[part])
  IN [part \in FieldsOf(Designed, type) |-> Set(part)]

-----------------------------------------------------------------------------
(* The tools.                                                              *)

\* createLine: a chart of that many points, all zero at first.
createLine(config) ==
  [f \in {"amount", "fillColor", "strokeColor", "pointColor", "pointStrokeColor", "width",
          "height", "animationSteps", "scaleShowGridLines", "trigger", "modulo"} |->
     Get(config, f)]

\* ToolFactory.create: what the new tool is made with, and how it looks.
create(config) ==
  LET type == config.toolType IN
  IF type = "LINE" THEN [params |-> createLine(config), design |-> <<>>]
  ELSE [params |-> [name \in Parameters(type) |-> Parameter(config, name)],
        design |-> setDesign(type, DesignObj)]
=============================================================================
