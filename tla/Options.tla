------------------------------ MODULE Options ------------------------------
(***************************************************************************)
(* The options of the server (option.c, parser.c, fileparser.c, cmdline.c, *)
(* tuner.c): set on the command line, in the defaults file, the password   *)
(* file and the map, by macros that are defined in one place and expanded  *)
(* in another, and tuned while the server runs.                            *)
(*                                                                         *)
(* Four options stand for the table of about ninety: the frame rate, which *)
(* may be set anywhere and tuned; the password, which a map may not set;   *)
(* the map itself; and the macros to expand, which are named on the        *)
(* command line.  A text is a line of a file without its letters: what it  *)
(* sets, or the way in which it is wrong.  Texts of options are numbers.   *)
(***************************************************************************)
EXTENDS Integers, SequencesExt

CONSTANTS
  Texts,       \* numbers that are written for an option
  MaxLines     \* bound on the lines and arguments

Junk == -1     \* a text that is no number

ASSUME OptionsAssumption == Texts \subseteq Nat /\ MaxLines \in Nat

VARIABLES
  stage,       \* how far Parser has come
  optNodes,    \* Option_hash_array: by name, the text, its origin and override
  given,       \* by option: what was set, in order and with its origin, if permitted
  fps,         \* the variable behind the option
  tuned,       \* the last value it was tuned to, if any
  lines        \* how many lines and arguments have been read

optionVars == <<stage, optNodes, given, fps, tuned, lines>>

Macro == "m"

\* The flags of the table: from where an option may be set.
Anywhere == {"MAP", "DEFAULTS", "COMMAND"}
Allowed == [fps      |-> Anywhere,
            mapData  |-> Anywhere,
            password |-> {"COMMAND", "DEFAULTS", "PASSWORD"},
            expand   |-> {"COMMAND"}]

Described(name) == name \in DOMAIN Allowed

\* Option_add_desc: an option starts with its default, or without a value.
DefaultFps == 50
Default(name) == CASE name = "fps" -> <<DefaultFps>> [] OTHER -> <<>>

\* The options whose settings are recorded.
Watched == {"fps", "password"}

Node(text, origin, override) == [text |-> text, origin |-> origin, override |-> override]

OptionsInit ==
  /\ stage = "COMMAND"
  /\ optNodes = [name \in DOMAIN Allowed |-> Node(Default(name), "INIT", FALSE)]
  /\ given = [name \in Watched |-> <<>>]
  /\ fps = 0 /\ tuned = <<>>
  /\ lines = 0
-----------------------------------------------------------------------------
(* Setting one option. *)

MapWins(node, override, origin) ==
  \/ origin = "COMMAND"
  \/ node.origin = "INIT"
  \/ /\ node.origin # "COMMAND"
     /\ CASE origin = "DEFAULTS" -> IF node.origin = "DEFAULTS" THEN ~node.override
                                    ELSE node.origin = "MAP" /\ override
          [] origin = "MAP"      -> node.origin # "PASSWORD"
          [] origin = "PASSWORD" -> node.origin # "PASSWORD" \/ ~node.override

\* Option_change_node: may the value in node be changed from here?
Changeable(node, override, origin) ==
  \/ origin = "COMMAND"
  \/ node.origin = "INIT"
  \/ /\ node.origin # "COMMAND"
     /\ CASE origin = "DEFAULTS" -> IF node.origin = "DEFAULTS" THEN ~node.override
                                    ELSE node.origin = "MAP" /\ override
          [] origin = "MAP"      -> node.origin # "PASSWORD" /\ ~node.override
          [] origin = "PASSWORD" -> node.origin # "PASSWORD" \/ ~node.override

\* Option_set_value, on a table and the record of what was given.
SetValue(tables, name, text, override, origin) ==
  LET known == name \in DOMAIN tables.nodes
      new   == Node(text, origin, override)
  IN IF Described(name) /\ origin \notin Allowed[name] THEN tables
     ELSE [nodes |-> IF known /\ ~Changeable(tables.nodes[name], override, origin)
                     THEN tables.nodes
                     ELSE [n \in DOMAIN tables.nodes \cup {name} |->
                             IF n = name THEN new ELSE tables.nodes[n]],
           given |-> IF name \notin Watched THEN tables.given
                     ELSE [tables.given EXCEPT ![name] = Append(@, new)]]

Tables == [nodes |-> optNodes, given |-> given]

Setting(name, text, override) == [kind |-> "set", name |-> name, text |-> text, override |-> override]
FpsSettings == {Setting("fps", <<t>>, o) : t \in Texts, o \in BOOLEAN}

\* What a line may be.  One without a value takes the next line, whatever it
\* says, for its value (skipspace has gone past the end of the line).
PlainLines ==
  FpsSettings \cup {Setting("mapData", <<1>>, FALSE)}
    \cup {Setting("password", <<t>>, o) : t \in Texts, o \in BOOLEAN}
    \cup {[kind |-> "define", body |-> s] : s \in FpsSettings}
    \cup {[kind |-> "expand"]}
WrongLines == {[kind |-> "nothing"], [kind |-> "novalue"]}

\* parseLine for a line with a name and a value; the body of a macro is one.
Plain(tables, line, origin) == SetValue(tables, line.name, line.text, line.override, origin)

\* expandKeyword: the macro counts as written where it was defined.
Expand(tables) ==
  IF Macro \notin DOMAIN tables.nodes THEN tables
  ELSE Plain(tables, tables.nodes[Macro].text, tables.nodes[Macro].origin)

\* parseLine, and how many lines it takes.
ParseLine(tables, line, origin) ==
  CASE line.kind = "set"     -> Plain(tables, line, origin)
    [] line.kind = "define"  -> SetValue(tables, Macro, line.body, FALSE, origin)
    [] line.kind = "expand"  -> Expand(tables)
    [] line.kind = "novalue" -> SetValue(tables, "fps", <<Junk>>, FALSE, origin)
    [] line.kind = "nothing" -> tables

Taken(line) == IF line.kind = "novalue" THEN 2 ELSE 1
-----------------------------------------------------------------------------
(* Parser, up to the start of the server. *)

Became(tables) == optNodes' = tables.nodes /\ given' = tables.given

Argument ==
  /\ stage = "COMMAND" /\ lines < MaxLines
  /\ lines' = lines + 1
  /\ \/ \E s \in {Setting("fps", <<t>>, TRUE) : t \in Texts \cup {Junk}}
                \cup {Setting("mapData", <<1>>, TRUE)} :
          Became(Plain(Tables, s, "COMMAND"))
     \/ Became(SetValue(Tables, "expand", <<Macro>>, TRUE, "COMMAND"))
  /\ UNCHANGED <<stage, fps, tuned>>

ReadLine ==
  /\ stage \in {"DEFAULTS", "PASSWORD", "MAP"}
  /\ \E line \in PlainLines \cup WrongLines :
       /\ lines + Taken(line) <= MaxLines
       /\ lines' = lines + Taken(line)
       /\ Became(ParseLine(Tables, line, stage))
  /\ UNCHANGED <<stage, fps, tuned>>

\* The map file is read unless there is a map already.
AfterPassword == IF optNodes["mapData"].text = <<>> THEN "MAP" ELSE "PARSE"

NextFile ==
  /\ stage \in {"COMMAND", "DEFAULTS", "PASSWORD", "MAP"}
  /\ stage' = CASE stage = "COMMAND"  -> "DEFAULTS"
                [] stage = "DEFAULTS" -> "PASSWORD"
                [] stage = "PASSWORD" -> AfterPassword
                [] stage = "MAP"      -> "PARSE"
  /\ UNCHANGED <<optNodes, given, fps, tuned, lines>>

\* Option_parse_node: what is no number leaves the default.
Converted(text) == IF text \in {<<>>, <<Junk>>} THEN DefaultFps ELSE Head(text)

\* Options_parse: the macros of the command line first.
OptionsParse ==
  /\ stage = "PARSE" /\ stage' = "RUNNING"
  /\ LET tables == IF optNodes["expand"].text = <<>> THEN Tables ELSE Expand(Tables)
     IN Became(tables) /\ fps' = Converted(tables.nodes["fps"].text)
  /\ UNCHANGED <<tuned, lines>>

\* Tune_option and tuner_fps, for an operator or the owner of the server.
MaxServerFps == 100
Limited(value) == IF value < 1 THEN 1 ELSE IF value > MaxServerFps THEN MaxServerFps ELSE value

TuneOption ==
  /\ stage = "RUNNING"
  /\ \E value \in Texts \cup {Junk, 0, MaxServerFps + 1} :
       IF value = Junk THEN UNCHANGED <<fps, tuned>>
       ELSE fps' = Limited(value) /\ tuned' = <<value>>
  /\ UNCHANGED <<stage, optNodes, given, lines>>

OptionsNext == Argument \/ ReadLine \/ NextFile \/ OptionsParse \/ TuneOption

OptionsSpec == OptionsInit /\ [][OptionsNext]_optionVars
-----------------------------------------------------------------------------
(* How strong a setting is, wherever and whenever it is made: the command  *)
(* line, then the password file, then the defaults file with an override,  *)
(* then the map, then the defaults file.                                   *)
Strength(s) ==
  CASE s.origin = "COMMAND"                  -> 6
    [] s.origin = "PASSWORD" /\ s.override   -> 5
    [] s.origin = "PASSWORD" /\ ~s.override  -> 4
    [] s.origin = "DEFAULTS" /\ s.override   -> 3
    [] s.origin = "MAP" /\ s.override        -> 2
    [] s.origin = "MAP" /\ ~s.override       -> 1
    [] s.origin = "DEFAULTS" /\ ~s.override  -> 0

Strongest(all) == {i \in DOMAIN all : \A j \in DOMAIN all : Strength(all[j]) <= Strength(all[i])}

\* Among equals the last one counts, but the first one that overrides.
Decisive(all) ==
  LET first == Min(Strongest(all))
  IN IF all[first].override /\ all[first].origin # "COMMAND"
     THEN all[first].text ELSE all[Max(Strongest(all))].text

Effective(name) == IF given[name] = <<>> THEN Default(name) ELSE Decisive(given[name])

\* The value the server runs with is that of the strongest setting, in whatever
\* order the settings are made - macros are expanded long after stronger and
\* weaker ones were read - until it is tuned (option.c:327, parser.c:472).
ValuesAreAsGiven ==
  stage = "RUNNING" =>
    /\ fps = IF tuned # <<>> THEN Limited(Head(tuned)) ELSE Converted(Effective("fps"))
    /\ optNodes["password"].text = Effective("password")
=============================================================================
