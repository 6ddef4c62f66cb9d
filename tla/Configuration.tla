----------------------------- MODULE Configuration -----------------------------
(***************************************************************************)
(* The client's configuration file, crates/novamux/src/config.rs: load_path*)
(* reads a bounded file, parse goes through its lines and stops at the     *)
(* first one it refuses.                                                   *)
(*                                                                         *)
(* A line is what parse tells apart: its shape ("blank" for an empty line  *)
(* or a comment, "bare" for one without =, "half" for one without a key or *)
(* a value, "pair"), whether it is too long, its key and its value.  The   *)
(* value of a colour is a sequence of bytes, each "hash", "hex" (a digit), *)
(* "plus", "other" ASCII, or one of a character of two bytes, "lead" and   *)
(* "cont"; a colour by its name is a sequence of that name.  An idle time  *)
(* is a number: one that is no u16 is out of its range as well.            *)
(***************************************************************************)
EXTENDS Naturals, SequencesExt

CONSTANTS MaxLines,     \* MAX_LINES, 64 in the code
          NamedColor,   \* the colours that have a name, as <<name>>
          ThemeName,    \* the built-in themes
          DefaultTheme

ASSUME ConfigurationAssumption ==
    /\ MaxLines \in Nat
    /\ DefaultTheme \in ThemeName
    /\ \A c \in NamedColor : Len(c) = 1

ColorKey == {"pane_border", "focused_border", "status", "status_background",
             "foreground", "background"}
Words == [animation |-> {"off", "subtle"},
          screensaver |-> {"off", "panda-climb", "cat-play"},
          scene_style |-> {"unicode", "ascii"}]
WordKey == DOMAIN Words
IdleSeconds == 10..3600

SettingKey == ColorKey \cup WordKey \cup {"idle_seconds"}

(* Config: a colour that is still a theme's is <<"theme", name>>. *)
Default ==
    [k \in SettingKey |->
        CASE k \in ColorKey -> <<"theme", DefaultTheme>>
          [] k = "idle_seconds" -> 300
          [] k = "scene_style" -> "unicode"
          [] OTHER -> "off"]

(* What a file may hold. *)
Shape == {"blank", "bare", "half", "pair"}
IsText(lines) ==
    /\ lines \in Seq(Range(lines))
    /\ \A line \in Range(lines) : line.shape \in Shape /\ line.long \in BOOLEAN

Loaded(config) == [verdict |-> "loaded", config |-> config]
Invalid(line) == [verdict |-> "invalid", line |-> line]
Refusal == {"io", "too_large", "panic"}
Refused(verdict) == [verdict |-> verdict]

------------------------------------------------------------------------------
(* The slice value[from + 1..to] of parse_color: a panic when it would cut  *)
(* a character; u8::from_str_radix takes a sign before the digits.          *)
Cuts(value, i) == i < Len(value) /\ value[i + 1] = "cont"
Component(value, from) ==
    /\ value[from + 1] \in {"hex", "plus"}
    /\ value[from + 2] = "hex"

ParseColor(value) ==
    IF value \in NamedColor THEN "color"
    ELSE IF Len(value) # 7 \/ value[1] # "hash" THEN "invalid"
    ELSE IF \E i \in {1, 3, 5} : Cuts(value, i) THEN "panic"
    ELSE IF \A i \in {1, 3, 5} : Component(value, i) THEN "color"
    ELSE "invalid"

(* Mutant of Themed: a theme leaves the colours set before it. *)
ThemedBelow(config, theme) ==
    [k \in SettingKey |-> IF k \in ColorKey /\ config[k][1] = "theme" THEN <<"theme", theme>>
                         ELSE config[k]]

Themed(config, theme) ==
    [k \in SettingKey |-> IF k \in ColorKey THEN <<"theme", theme>> ELSE config[k]]

(* What a pair does to the configuration so far. *)
Set(config, line, n) ==
    LET key == line.key
        value == line.value
        put == Loaded([config EXCEPT ![key] = value])
    IN  CASE key = "theme" ->
               IF value \in ThemeName
                 THEN Loaded(Themed(config, value))
                 ELSE Invalid(n)
          [] key \in WordKey -> IF value \in Words[key] THEN put ELSE Invalid(n)
          [] key = "idle_seconds" -> IF value \in IdleSeconds THEN put ELSE Invalid(n)
          [] key \in ColorKey ->
               (CASE ParseColor(value) = "color" -> put
                  [] ParseColor(value) = "panic" -> Refused("panic")
                  [] OTHER -> Invalid(n))
          [] OTHER -> Invalid(n)

(* The body of parse's loop.  A line is held against its limit before it is *)
(* known to be a comment, and a key is seen even when its value is refused. *)
Line(lines, n, config) ==
    LET line == lines[n]
        Seen(key) == \E m \in 1..(n - 1) : lines[m].shape = "pair" /\ lines[m].key = key
    IN  CASE line.long -> Invalid(n)
          [] ~line.long /\ line.shape = "blank" -> Loaded(config)
          [] ~line.long /\ line.shape \in {"bare", "half"} -> Invalid(n)
          [] ~line.long /\ line.shape = "pair" ->
               IF Seen(line.key) THEN Invalid(n) ELSE Set(config, line, n)

(* Mutant of Parse: only the settings are counted. *)
ParseCountsSettings(lines) ==
    LET settings == SelectSeq(lines, LAMBDA line : line.long \/ line.shape # "blank")
    IN  IF Len(lines) > MaxLines THEN Invalid(MaxLines + 1)
        ELSE FoldLeftDomain(LAMBDA sofar, n : IF sofar.verdict = "loaded"
                                                THEN Line(settings, n, sofar.config)
                                                ELSE sofar,
                            Loaded(Default), settings)

Parse(lines) ==
    IF Len(lines) > MaxLines THEN Invalid(MaxLines + 1)
    ELSE FoldLeftDomain(LAMBDA sofar, n : IF sofar.verdict = "loaded"
                                            THEN Line(lines, n, sofar.config)
                                            ELSE sofar,
                        Loaded(Default), lines)

(* load_path.  A file that grows after its size has been looked at is       *)
(* refused all the same, since one byte more than the limit is read.        *)
LoadPath(file) ==
    CASE file.kind = "absent" -> Loaded(Default)
      [] file.kind \in {"unreadable", "directory"} -> Refused("io")
      [] file.kind \in {"large", "grown"} -> Refused("too_large")
      [] file.kind = "not_utf8" -> Invalid(1)
      [] file.kind = "text" -> Parse(file.lines)

------------------------------------------------------------------------------
(* What the documentation says, line by line and without a parser; but what *)
(* it calls an exact #RRGGBB may have a + before the last digit of each     *)
(* component, in the place of the first.                                    *)
Pairs(lines) == {n \in DOMAIN lines : lines[n].shape = "pair"}
SixDigits(value) == Len(value) = 7 /\ value[1] = "hash"
GoodColor(value) ==
    \/ value \in NamedColor
    \/ /\ SixDigits(value)
       /\ {value[2], value[4], value[6]} \subseteq {"hex", "plus"}
       /\ {value[3], value[5], value[7]} = {"hex"}

GoodValue(line) ==
    \/ line.key = "theme" /\ line.value \in ThemeName
    \/ line.key \in WordKey /\ line.value \in Words[line.key]
    \/ line.key = "idle_seconds" /\ line.value \in IdleSeconds
    \/ line.key \in ColorKey /\ GoodColor(line.value)

GoodLine(lines, n) ==
    /\ ~lines[n].long
    /\ \/ lines[n].shape = "blank"
       \/ /\ n \in Pairs(lines)
          /\ GoodValue(lines[n])
          /\ \A m \in Pairs(lines) : m < n => lines[m].key # lines[n].key

BadLines(lines) == {n \in DOMAIN lines : ~GoodLine(lines, n)}

(* A character across two components is fatal, whichever line it is on.    *)
Fatal(outcome, line) ==
    /\ outcome = Refused("panic")
    /\ line.key \in ColorKey /\ SixDigits(line.value)
    /\ "cont" \in {line.value[2], line.value[4], line.value[6]}
==============================================================================
