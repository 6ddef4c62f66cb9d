------------------------- MODULE AttachedClient_proofs -------------------------
(* Theorems of AttachedClient, for any limits, files, names, texts, pieces  *)
(* and patience: the timeout of an attachment, what the settings say after  *)
(* a start, and what client and daemon have of each other's messages.       *)
EXTENDS AttachedClient, Codec_proofs, FiniteSetTheorems

(* A round that has begun and an event it has not read yet are the most the *)
(* two counts differ by: a round ends with an event or with a request, as   *)
(* NoEvent asks for a snapshot, below a scene as well.                      *)
Clock ==
    /\ quiet \in Nat /\ held \in Nat
    /\ quiet <= Patience
    /\ quiet <= held + 1
    /\ pc \in {"poll"} \cup Ended \/ quiet <= held

LEMMA NextClock == Clock /\ [Next]_vars => Clock'
<1> SUFFICES ASSUME Clock, [Next]_vars PROVE Clock'
  OBVIOUS
<1> USE DEF Clock, Ended
<1>1. Patience \in Nat
  BY ClientAssumption
<1>2. ASSUME UNCHANGED <<quiet, held>>,
             pc \notin {"poll"} \cup Ended \/ pc' \in {"poll"} \cup Ended
      PROVE  Clock'
  BY <1>2
<1>3. ASSUME NEW r, Write(r) PROVE Clock'
  BY <1>1, <1>3 DEF Write
<1>4. ASSUME EventRead PROVE Clock'
  BY <1>1, <1>4 DEF EventRead
<1>5. CASE UNCHANGED vars
  BY <1>2, <1>5 DEF vars, client, clock
<1>6. CASE DaemonStep \/ Carry \/ Stall
  <2>1. UNCHANGED <<pc, quiet, held>>
    BY <1>6, Zenon DEF DaemonStep, Written, ReadRequest, ReadEnds, DaemonFails, Dispatch, Serve,
       Carry, Stall, client, clock
  <2> QED
    BY <1>2, <2>1
<1>7. CASE ClientFails
  BY <1>2, <1>7 DEF ClientFails, clock
<1>8. CASE Draw
  <2>1. pc = "draw" /\ pc' \in {"poll", "failed"} /\ held' = held
    BY <1>8 DEF Draw
  <2>2. quiet' = IF quiet < Patience THEN quiet + 1 ELSE quiet
    BY <1>8 DEF Draw
  <2> QED
    BY <1>1, <2>1, <2>2
<1>9. CASE \/ Load \/ Configured \/ Receive \/ \E b \in Byte : RouteLocally(b)
  BY <1>2, <1>9 DEF Load, Configured, Receive, RouteLocally, Routed, clock
<1>10. CASE Connect \/ Enter \/ NoEvent \/ WindowResized \/ \E b \in Byte : RouteToDaemon(b)
  BY <1>3, <1>10, Zenon DEF Connect, Enter, NoEvent, WindowResized, RouteToDaemon, Ask
<1>11. CASE Dismiss \/ \E key \in Key : CopyModeKey(key) \/ Press(key)
  BY <1>4, <1>11, Zenon DEF Dismiss, CopyModeKey, Press, Consume
<1> QED
  BY <1>5, <1>6, <1>7, <1>8, <1>9, <1>10, <1>11, Zenon DEF Next, ClientStep

(* The daemon's read times out only where the client was held up, or read   *)
(* an event in every round of IO_TIMEOUT but the latest; every other end of *)
(* a connection has another reason.                                         *)
LEMMA TimeoutStep ==
    Clock /\ Next => (why = "" /\ why' = "timeout" => stalled \/ held >= Patience - 1)
<1>0. Clock /\ quiet = Patience => held >= Patience - 1
  BY ClientAssumption DEF Clock
<1> SUFFICES ASSUME Clock, Next, why = "", why' = "timeout"
             PROVE  stalled \/ held >= Patience - 1
  OBVIOUS
<1>1. CASE ClientStep \/ ClientFails \/ Stall \/ Carry
  <2>1. UNCHANGED why
    BY <1>1, Zenon DEF ClientStep, Load, Configured, Connect, Receive, Enter, Draw, NoEvent,
       WindowResized, Dismiss, CopyModeKey, Press, RouteLocally, RouteToDaemon, Ask, Consume,
       ClientFails, Stall, Carry, daemon
  <2> QED
    BY <2>1
<1>2. CASE Written \/ DaemonFails
  BY <1>2 DEF Written, DaemonFails, Drop
<1>3. CASE ReadRequest
  <2>1. why' = why \/ why' = "malformed"
    BY <1>3, Zenon DEF ReadRequest, Drop
  <2> QED
    BY <2>1
<1>4. CASE Dispatch \/ Serve
  <2>1. \A r, next : Respond(r, next) => why' = why \/ why' = "unencodable"
    BY Zenon DEF Respond, Drop
  <2>2. why' = why \/ why' = "unencodable"
    BY <1>4, <2>1, Zenon DEF Dispatch, Create, Serve
  <2> QED
    BY <2>2
<1>5. CASE ReadEnds
  <2>1. quiet = Patience \/ stalled
    BY <1>5 DEF ReadEnds, Drop
  <2> QED
    BY <1>0, <2>1, Zenon
<1> QED
  BY <1>1, <1>2, <1>3, <1>4, <1>5 DEF Next, DaemonStep

(* An undisturbed client keeps its attachment: the loop's requests come in  *)
(* time, whatever is drawn over the panes.                                  *)
THEOREM IdleAttachmentKept == Spec => KeptWhileIdle
<1>1. Init => Clock
  <2>1. Init => quiet = 0 /\ held = 0
    BY Zenon DEF Init
  <2>2. Patience \in Nat
    BY ClientAssumption
  <2> QED
    BY <2>1, <2>2 DEF Clock
<1>2. Clock /\ [Next]_vars =>
        [why = "" /\ why' = "timeout" => stalled \/ held >= Patience - 1]_vars
  BY TimeoutStep
<1> QED
  BY <1>1, <1>2, NextClock, PTL DEF Spec, KeptWhileIdle

-----------------------------------------------------------------------------
(* The settings. *)

(* What parse knows after a line, from what it knew before. *)
Step(lines, n, sofar) ==
    IF sofar.verdict = "loaded" THEN Line(lines, n, sofar.config) ELSE sofar

(* The fold of Parse over the lines, on all sets of line numbers. *)
Folds(f, lines, d, k) ==
    f = [s \in SUBSET (1..k) |->
            IF s = {} THEN Loaded(Default) ELSE Step(lines, d[Max(s)], f[s \ {Max(s)}])]

LEMMA FoldExists ==
    ASSUME NEW lines, NEW d, NEW n \in Nat
    PROVE  \E f : Folds(f, lines, d, n)
<1> DEFINE S == {k \in Nat : \E f : Folds(f, lines, d, k)}
<1>1. 0 \in S
  <2> DEFINE f == [s \in SUBSET (1..0) |-> Loaded(Default)]
  <2>1. SUBSET (1..0) = {{}}
    OBVIOUS
  <2>2. f = [s \in SUBSET (1..0) |->
              IF s = {} THEN Loaded(Default) ELSE Step(lines, d[Max(s)], f[s \ {Max(s)}])]
    BY <2>1
  <2>3. Folds(f, lines, d, 0)
    BY <2>2 DEF Folds
  <2> QED
    BY <2>3
<1>2. ASSUME NEW k \in Nat, k \in S
      PROVE  k + 1 \in S
  <2>1. PICK f : Folds(f, lines, d, k)
    BY <1>2
  <2> DEFINE g == [s \in SUBSET (1..(k + 1)) |->
                     IF k + 1 \in s THEN Step(lines, d[k + 1], f[s \ {k + 1}]) ELSE f[s]]
  <2>2. ASSUME NEW s \in SUBSET (1..(k + 1)), k + 1 \notin s
        PROVE  s \in SUBSET (1..k)
    BY <2>2
  <2>3. ASSUME NEW s \in SUBSET (1..k)
        PROVE  g[s] = f[s]
    BY <2>3
  <2>4. ASSUME NEW s \in SUBSET (1..(k + 1))
        PROVE  g[s] = IF s = {} THEN Loaded(Default) ELSE Step(lines, d[Max(s)], g[s \ {Max(s)}])
    <3>1. CASE s = {}
      <4>1. s \in SUBSET (1..k)
        BY <3>1
      <4>2. f[s] = Loaded(Default)
        BY <2>1, <3>1, <4>1 DEF Folds
      <4> QED
        BY <2>3, <3>1, <4>1, <4>2
    <3>2. CASE k + 1 \in s
      <4>1. Max(s) = k + 1
        BY <3>2, MaxOfPrefix
      <4>2. s \ {k + 1} \in SUBSET (1..k)
        OBVIOUS
      <4>3. g[s \ {k + 1}] = f[s \ {k + 1}]
        BY <2>3, <4>2
      <4> QED
        BY <3>2, <4>1, <4>3
    <3>3. CASE s # {} /\ k + 1 \notin s
      <4>1. s \in SUBSET (1..k) /\ s \ {Max(s)} \in SUBSET (1..k)
        BY <2>2, <3>3
      <4>2. f[s] = Step(lines, d[Max(s)], f[s \ {Max(s)}])
        BY <2>1, <3>3, <4>1 DEF Folds
      <4>3. g[s] = f[s] /\ g[s \ {Max(s)}] = f[s \ {Max(s)}]
        BY <2>3, <4>1
      <4> QED
        BY <3>3, <4>2, <4>3
    <3> QED
      BY <3>1, <3>2, <3>3
  <2>5. DOMAIN g = SUBSET (1..(k + 1)) /\ g = [s \in DOMAIN g |-> g[s]]
    OBVIOUS
  <2> HIDE DEF g
  <2>6. g = [s \in SUBSET (1..(k + 1)) |->
              IF s = {} THEN Loaded(Default) ELSE Step(lines, d[Max(s)], g[s \ {Max(s)}])]
    BY <2>4, <2>5, Zenon
  <2>7. Folds(g, lines, d, k + 1)
    BY <2>6, Zenon DEF Folds
  <2> QED
    BY <2>7
<1>3. n \in S
  BY <1>1, <1>2, SetInduction
<1> QED
  BY <1>3

(* How far parse gets line by line: after[n] is what it knows after the     *)
(* first n lines.                                                           *)
LineByLine(after, lines) ==
    /\ after[0] = Loaded(Default)
    /\ \A n \in 1..Len(lines) : after[n] = Step(lines, n, after[n - 1])

LEMMA ParseLineByLine ==
    ASSUME NEW L, NEW lines \in Seq(L), Len(lines) <= MaxLines
    PROVE  \E after : LineByLine(after, lines) /\ Parse(lines) = after[Len(lines)]
<1> DEFINE N == Len(lines)
           d == [i \in DOMAIN lines |-> i]
           iter == CHOOSE f : f = [s \in SUBSET (DOMAIN d) |->
                       IF s = {} THEN Loaded(Default)
                       ELSE Step(lines, d[Max(s)], f[s \ {Max(s)}])]
<1>1. MaxLines \in Nat /\ N \in Nat /\ DOMAIN lines = 1..N /\ DOMAIN d = 1..N
  BY ConfigurationAssumption
<1>2. ~(N > MaxLines)
  BY <1>1
<1>3. Parse(lines) = iter[DOMAIN d]
  BY <1>2, Zenon DEF Parse, FoldLeftDomain, FoldLeft, MapThenFoldSet, Step
<1>4. PICK f : Folds(f, lines, d, N)
  BY <1>1, FoldExists
<1>5. Folds(iter, lines, d, N)
  BY <1>1, <1>4, Zenon DEF Folds
<1> DEFINE after == [n \in 0..N |-> iter[1..n]]
<1> HIDE DEF iter
<1>6. after[0] = Loaded(Default)
  <2>1. 1..0 = {} /\ {} \in SUBSET (1..N) /\ 0 \in 0..N
    BY <1>1
  <2>2. iter[{}] = Loaded(Default)
    BY <1>5, <2>1, Zenon DEF Folds
  <2> QED
    BY <2>1, <2>2, Zenon
<1>7. ASSUME NEW n \in 1..N PROVE after[n] = Step(lines, n, after[n - 1])
  <2>1. n \in Nat /\ 1 <= n /\ n <= N
    BY <1>1
  <2>2. 1..n \in SUBSET (1..N) /\ n \in 1..n /\ n \in 0..N /\ n - 1 \in 0..N
    BY <1>1, <2>1
  <2>3. (1..n) \ {n} = 1..(n - 1)
    BY <2>1
  <2>4. Max(1..n) = n
    BY <2>1, <2>2, MaxOfPrefix
  <2>5. 1..n # {}
    BY <2>2
  <2>6. iter[1..n] = Step(lines, d[n], iter[1..(n - 1)])
    BY <1>5, <2>2, <2>3, <2>4, <2>5, Zenon DEF Folds
  <2>7. d[n] = n
    BY <1>1
  <2> QED
    BY <2>2, <2>6, <2>7
<1>8. LineByLine(after, lines)
  BY <1>6, <1>7 DEF LineByLine
<1>9. Parse(lines) = after[N]
  BY <1>1, <1>3
<1> QED
  BY <1>8, <1>9

------------------------------------------------------------------------------
(* One line.                                                                *)

LEMMA KeysDiffer ==
    /\ \A key \in ColorKey : key \notin WordKey /\ key # "idle_seconds" /\ key # "theme"
    /\ \A key \in WordKey : key \notin ColorKey /\ key # "idle_seconds" /\ key # "theme"
    /\ "idle_seconds" \notin ColorKey \cup WordKey /\ "theme" \notin ColorKey \cup WordKey
  BY DEF ColorKey, WordKey, Words

LEMMA SetTheme ==
    ASSUME NEW config, NEW line, NEW n, line.key = "theme"
    PROVE  Set(config, line, n) =
             IF line.value \in ThemeName THEN Loaded(Themed(config, line.value)) ELSE Invalid(n)
  BY KeysDiffer DEF Set

LEMMA SetWord ==
    ASSUME NEW config, NEW line, NEW n, line.key \in WordKey
    PROVE  Set(config, line, n) =
             IF line.value \in Words[line.key] THEN Loaded([config EXCEPT ![line.key] = line.value])
             ELSE Invalid(n)
  BY KeysDiffer DEF Set

LEMMA SetIdle ==
    ASSUME NEW config, NEW line, NEW n, line.key = "idle_seconds"
    PROVE  Set(config, line, n) =
             IF line.value \in IdleSeconds THEN Loaded([config EXCEPT ![line.key] = line.value])
             ELSE Invalid(n)
  BY KeysDiffer DEF Set

LEMMA SetColor ==
    ASSUME NEW config, NEW line, NEW n, line.key \in ColorKey
    PROVE  Set(config, line, n) =
             IF ParseColor(line.value) = "color" THEN Loaded([config EXCEPT ![line.key] = line.value])
             ELSE IF ParseColor(line.value) = "panic" THEN Refused("panic")
             ELSE Invalid(n)
  BY KeysDiffer DEF Set

LEMMA SetUnknown ==
    ASSUME NEW config, NEW line, NEW n, line.key \notin SettingKey \cup {"theme"}
    PROVE  Set(config, line, n) = Invalid(n)
  BY DEF Set, SettingKey

LEMMA ColorCases ==
    ASSUME NEW value
    PROVE  /\ ParseColor(value) \in {"color", "panic", "invalid"}
           /\ ParseColor(value) = "color" <=> GoodColor(value)
           /\ ParseColor(value) = "panic" =>
                SixDigits(value) /\ "cont" \in {value[2], value[4], value[6]}
<1> DEFINE cut == \E i \in {1, 3, 5} : Cuts(value, i)
           digits == \A i \in {1, 3, 5} : Component(value, i)
<1>1. ParseColor(value) =
        IF value \in NamedColor THEN "color"
        ELSE IF ~SixDigits(value) THEN "invalid"
        ELSE IF cut THEN "panic"
        ELSE IF digits THEN "color" ELSE "invalid"
  BY Zenon DEF ParseColor, SixDigits
<1>2. SixDigits(value) => (cut <=> "cont" \in {value[2], value[4], value[6]})
  <2> SUFFICES ASSUME Len(value) = 7
               PROVE  cut <=> "cont" \in {value[2], value[4], value[6]}
    BY DEF SixDigits
  <2>1. \A i \in {1, 3, 5} : Cuts(value, i) <=> value[i + 1] = "cont"
    BY DEF Cuts
  <2> QED
    BY <2>1
<1>3. digits <=> /\ {value[2], value[4], value[6]} \subseteq {"hex", "plus"}
                 /\ {value[3], value[5], value[7]} = {"hex"}
  BY DEF Component
<1>4. ~("cont" \in {value[2], value[4], value[6]} /\ digits)
  BY <1>3
<1> HIDE DEF cut, digits
<1>5. GoodColor(value) <=> value \in NamedColor \/ (SixDigits(value) /\ digits)
  BY <1>3, Zenon DEF GoodColor
<1> QED
  BY <1>1, <1>2, <1>4, <1>5

LEMMA Verdicts ==
    /\ \A config : Loaded(config).verdict = "loaded" /\ Loaded(config).config = config
    /\ \A n : Invalid(n).verdict = "invalid"
    /\ Refused("panic").verdict = "panic"
  BY DEF Loaded, Invalid, Refused

(* A good value is taken; every other one is refused with the number of its *)
(* line, but for the fatal colours.                                         *)
LEMMA SetVerdict ==
    ASSUME NEW config, NEW line, NEW n
    PROVE  /\ GoodValue(line) => Set(config, line, n).verdict = "loaded"
           /\ ~GoodValue(line) => Set(config, line, n) = Invalid(n) \/ Fatal(Set(config, line, n), line)
<1> DEFINE theme == line.key = "theme"
           word == line.key \in WordKey
           idle == line.key = "idle_seconds"
           color == line.key \in ColorKey
           named == line.value \in ThemeName
           worded == line.value \in Words[line.key]
           timed == line.value \in IdleSeconds
           exact == GoodColor(line.value)
           put == Loaded([config EXCEPT ![line.key] = line.value])
<1>1. GoodValue(line) <=> \/ theme /\ named
                          \/ word /\ worded
                          \/ idle /\ timed
                          \/ color /\ exact
  BY Zenon DEF GoodValue
<1>2. /\ theme => ~word /\ ~idle /\ ~color
      /\ word => ~theme /\ ~idle /\ ~color
      /\ idle => ~theme /\ ~word /\ ~color
      /\ color => ~theme /\ ~word /\ ~idle
  BY KeysDiffer
<1>3. /\ theme => Set(config, line, n) = IF named THEN Loaded(Themed(config, line.value)) ELSE Invalid(n)
      /\ word => Set(config, line, n) = IF worded THEN put ELSE Invalid(n)
      /\ idle => Set(config, line, n) = IF timed THEN put ELSE Invalid(n)
      /\ ~theme /\ ~word /\ ~idle /\ ~color => Set(config, line, n) = Invalid(n)
  <2>1. ~theme /\ ~word /\ ~idle /\ ~color => line.key \notin SettingKey \cup {"theme"}
    BY Zenon DEF SettingKey
  <2>2. theme => Set(config, line, n) = IF named THEN Loaded(Themed(config, line.value)) ELSE Invalid(n)
    BY SetTheme, Zenon
  <2>3. word => Set(config, line, n) = IF worded THEN put ELSE Invalid(n)
    BY SetWord, Zenon
  <2>4. idle => Set(config, line, n) = IF timed THEN put ELSE Invalid(n)
    BY SetIdle, Zenon
  <2>5. ~theme /\ ~word /\ ~idle /\ ~color => Set(config, line, n) = Invalid(n)
    BY <2>1, SetUnknown, Zenon
  <2> HIDE DEF theme, word, idle, color, named, worded, timed, put
  <2> QED
    BY <2>2, <2>3, <2>4, <2>5
<1>4. color => /\ exact => Set(config, line, n) = put
               /\ ~exact => Set(config, line, n) = Invalid(n) \/ Fatal(Set(config, line, n), line)
  <2> SUFFICES ASSUME color
               PROVE  /\ exact => Set(config, line, n) = put
                      /\ ~exact => Set(config, line, n) = Invalid(n) \/ Fatal(Set(config, line, n), line)
    OBVIOUS
  <2> DEFINE parsed == ParseColor(line.value)
  <2>1. Set(config, line, n) =
          IF parsed = "color" THEN put ELSE IF parsed = "panic" THEN Refused("panic") ELSE Invalid(n)
    BY SetColor, Zenon
  <2>2. parsed \in {"color", "panic", "invalid"} /\ (exact <=> parsed = "color")
    BY ColorCases, Zenon
  <2>3. parsed = "panic" => Fatal(Refused("panic"), line)
    BY ColorCases, Zenon DEF Fatal
  <2> HIDE DEF parsed, exact, put, color
  <2> QED
    BY <2>1, <2>2, <2>3
<1>5. put.verdict = "loaded" /\ Loaded(Themed(config, line.value)).verdict = "loaded"
  BY Verdicts, Zenon
<1> HIDE DEF theme, word, idle, color, named, worded, timed, exact, put
<1> QED
  BY <1>1, <1>2, <1>3, <1>4, <1>5

LEMMA LineCases ==
    ASSUME NEW lines, IsText(lines), NEW n \in DOMAIN lines, NEW config
    PROVE  LET line == lines[n]
               seen == \E m \in Pairs(lines) : m < n /\ lines[m].key = line.key
           IN  Line(lines, n, config) =
                 IF line.long THEN Invalid(n)
                 ELSE IF line.shape = "blank" THEN Loaded(config)
                 ELSE IF line.shape = "pair" /\ ~seen THEN Set(config, line, n)
                 ELSE Invalid(n)
<1> DEFINE line == lines[n]
           seen == \E m \in Pairs(lines) : m < n /\ lines[m].key = line.key
<1>1. line.shape \in Shape /\ line.long \in BOOLEAN
  BY DEF IsText, Range
<1>2. seen <=> \E m \in 1..(n - 1) : lines[m].shape = "pair" /\ lines[m].key = line.key
  <2>1. DOMAIN lines = 1..Len(lines) /\ Len(lines) \in Nat
    BY DEF IsText
  <2>2. \A m : m \in DOMAIN lines /\ m < n <=> m \in 1..(n - 1)
    BY <2>1
  <2> QED
    BY <2>2, Zenon DEF Pairs
<1> HIDE DEF seen, line
<1>3. Line(lines, n, config) =
        CASE line.long -> Invalid(n)
          [] ~line.long /\ line.shape = "blank" -> Loaded(config)
          [] ~line.long /\ line.shape \in {"bare", "half"} -> Invalid(n)
          [] ~line.long /\ line.shape = "pair" -> IF seen THEN Invalid(n) ELSE Set(config, line, n)
  BY <1>2, Zenon DEF Line, line
<1>4. Line(lines, n, config) =
        IF line.long THEN Invalid(n)
                 ELSE IF line.shape = "blank" THEN Loaded(config)
                 ELSE IF line.shape = "pair" /\ ~seen THEN Set(config, line, n)
                 ELSE Invalid(n)
  BY <1>1, <1>3 DEF Shape
<1> QED
  BY <1>4 DEF line, seen

LEMMA LineVerdict ==
    ASSUME NEW lines, IsText(lines), NEW n \in DOMAIN lines, NEW config
    PROVE  /\ GoodLine(lines, n) => Line(lines, n, config).verdict = "loaded"
           /\ ~GoodLine(lines, n) => Line(lines, n, config) = Invalid(n) \/ Fatal(Line(lines, n, config), lines[n])
<1> DEFINE line == lines[n]
           seen == \E m \in Pairs(lines) : m < n /\ lines[m].key = line.key
<1>1. line.shape \in Shape /\ line.long \in BOOLEAN
  BY DEF IsText, Range
<1>2. Line(lines, n, config) =
        IF line.long THEN Invalid(n)
                 ELSE IF line.shape = "blank" THEN Loaded(config)
                 ELSE IF line.shape = "pair" /\ ~seen THEN Set(config, line, n)
                 ELSE Invalid(n)
  BY LineCases, Zenon
<1>3. GoodLine(lines, n) <=>
        ~line.long /\ (line.shape = "blank" \/ (line.shape = "pair" /\ GoodValue(line) /\ ~seen))
  BY Zenon DEF GoodLine, Pairs
<1> HIDE DEF line, seen
<1>4. /\ GoodValue(line) => Set(config, line, n).verdict = "loaded"
      /\ ~GoodValue(line) => Set(config, line, n) = Invalid(n) \/ Fatal(Set(config, line, n), line)
  BY SetVerdict, Zenon
<1>5. /\ GoodLine(lines, n) => Line(lines, n, config).verdict = "loaded"
      /\ ~GoodLine(lines, n) => Line(lines, n, config) = Invalid(n) \/ Fatal(Line(lines, n, config), line)
  <2>1. Loaded(config).verdict = "loaded"
    BY Verdicts, Zenon
  <2>2. CASE line.long
    BY <1>2, <1>3, <2>2, Zenon
  <2>3. CASE ~line.long /\ line.shape = "blank"
    BY <1>2, <1>3, <2>1, <2>3, Zenon
  <2>4. CASE ~line.long /\ line.shape # "blank" /\ line.shape = "pair" /\ ~seen
    BY <1>2, <1>3, <1>4, <2>4, Zenon
  <2>5. CASE ~line.long /\ line.shape # "blank" /\ ~(line.shape = "pair" /\ ~seen)
    BY <1>2, <1>3, <2>5, Zenon
  <2> QED
    BY <2>2, <2>3, <2>4, <2>5
<1> QED
  BY <1>5 DEF line

------------------------------------------------------------------------------
(* A whole file.                                                            *)
LEMMA MinOfNumbers ==
    ASSUME NEW s \in SUBSET Nat, s # {}
    PROVE  Min(s) \in s /\ \A y \in s : Min(s) <= y
<1> DEFINE R == OpToRel(<, Nat)
           m == CHOOSE x \in s : \A y \in s : x <= y
<1>1. IsWellFoundedOn(R, Nat)
  BY NatLessThanWellFounded, Zenon
<1> HIDE DEF R
<1>2. PICK x \in s : \A y \in s : ~ (<<y, x>> \in R)
  BY <1>1, WFMin, Zenon
<1>3. ASSUME NEW y \in s PROVE x <= y
  <2>1. x \in Nat /\ y \in Nat /\ ~ (<<y, x>> \in R)
    BY <1>2
  <2> QED
    BY <2>1 DEF R, OpToRel
<1>4. \E z \in s : \A y \in s : z <= y
  BY <1>3
<1>5. m \in s /\ \A y \in s : m <= y
  BY <1>4, Zenon
<1>6. Min(s) = m
  BY Zenon DEF Min
<1> HIDE DEF m
<1> QED
  BY <1>5, <1>6

LEMMA TextLength ==
    ASSUME NEW lines, IsText(lines)
    PROVE  Len(lines) \in Nat /\ DOMAIN lines = 1..Len(lines) /\ lines \in Seq(Range(lines))
  BY DEF IsText

(* As long as the lines are good parse goes on; after the first bad one it  *)
(* knows nothing else any more.                                             *)
LEMMA GoodSoFar ==
    ASSUME NEW lines, IsText(lines), NEW after, LineByLine(after, lines),
           NEW k \in 0..Len(lines), \A n \in 1..k : GoodLine(lines, n)
    PROVE  after[k].verdict = "loaded"
<1> DEFINE S == {j \in Nat : j <= k => after[j].verdict = "loaded"}
<1>1. Len(lines) \in Nat /\ DOMAIN lines = 1..Len(lines)
  BY TextLength
<1>2. 0 \in S
  BY Verdicts DEF LineByLine
<1>3. ASSUME NEW j \in Nat, j \in S PROVE j + 1 \in S
  <2> SUFFICES ASSUME j + 1 <= k PROVE after[j + 1].verdict = "loaded"
    OBVIOUS
  <2>1. j + 1 \in 1..Len(lines) /\ j + 1 \in 1..k /\ (j + 1) - 1 = j /\ j <= k
    BY <1>1
  <2>2. after[j].verdict = "loaded"
    BY <1>3, <2>1
  <2>3. after[j + 1] = Step(lines, j + 1, after[j])
    BY <2>1, Zenon DEF LineByLine
  <2>4. after[j + 1] = Line(lines, j + 1, after[j].config)
    BY <2>2, <2>3, Zenon DEF Step
  <2> QED
    <3>1. j + 1 \in DOMAIN lines /\ GoodLine(lines, j + 1)
      BY <1>1, <2>1
    <3>2. Line(lines, j + 1, after[j].config).verdict = "loaded"
      BY <3>1, LineVerdict, Zenon
    <3> QED
      BY <2>4, <3>2
<1> HIDE DEF S
<1>4. Nat \subseteq S
  BY <1>2, <1>3, SetInduction
<1>5. k \in Nat /\ k <= k
  BY <1>1
<1> QED
  BY <1>4, <1>5 DEF S

LEMMA StaysRefused ==
    ASSUME NEW lines, NEW N \in Nat, N = Len(lines), NEW after, LineByLine(after, lines),
           NEW k \in 0..N, after[k].verdict # "loaded"
    PROVE  after[N] = after[k]
<1> DEFINE S == {j \in Nat : k + j <= N => after[k + j] = after[k]}
<1>1. 0 \in S
  OBVIOUS
<1>2. ASSUME NEW j \in Nat, j \in S PROVE j + 1 \in S
  <2> SUFFICES ASSUME k + (j + 1) <= N PROVE after[k + (j + 1)] = after[k]
    OBVIOUS
  <2> DEFINE n == k + (j + 1)
  <2>1. n \in 1..N /\ n - 1 = k + j /\ k + j <= N
    OBVIOUS
  <2> HIDE DEF n
  <2>2. after[k + j] = after[k]
    BY <1>2, <2>1
  <2>3. after[n] = Step(lines, n, after[n - 1])
    BY <2>1, Zenon DEF LineByLine
  <2>4. after[n] = after[k]
    BY <2>1, <2>2, <2>3 DEF Step
  <2> QED
    BY <2>4 DEF n
<1> HIDE DEF S
<1>3. Nat \subseteq S
  BY <1>1, <1>2, SetInduction
<1>4. N - k \in Nat /\ k + (N - k) = N
  OBVIOUS
<1> QED
  BY <1>3, <1>4 DEF S

LEMMA ParseVerdict ==
    ASSUME NEW lines, IsText(lines), Len(lines) <= MaxLines
    PROVE  /\ BadLines(lines) = {} => Parse(lines).verdict = "loaded"
           /\ BadLines(lines) # {} =>
                \/ Parse(lines) = Invalid(Min(BadLines(lines)))
                \/ Fatal(Parse(lines), lines[Min(BadLines(lines))])
<1> DEFINE N == Len(lines)
           bad == BadLines(lines)
           first == Min(bad)
<1>1. N \in Nat /\ DOMAIN lines = 1..N /\ lines \in Seq(Range(lines))
  BY TextLength
<1>2. PICK after : LineByLine(after, lines) /\ Parse(lines) = after[N]
  BY <1>1, ParseLineByLine
<1>3. \A n \in DOMAIN lines : n \in bad <=> ~GoodLine(lines, n)
  BY DEF BadLines
<1>4. bad \in SUBSET (1..N)
  BY <1>1 DEF BadLines
<1> HIDE DEF bad
<1>5. ASSUME bad = {}
      PROVE  Parse(lines).verdict = "loaded"
  <2>1. \A n \in 1..N : GoodLine(lines, n)
    BY <1>1, <1>3, <1>5
  <2>2. N \in 0..N
    BY <1>1
  <2>3. after[N].verdict = "loaded"
    BY <1>2, <2>1, <2>2, GoodSoFar
  <2> QED
    BY <1>2, <2>3
<1>6. ASSUME bad # {}
      PROVE  Parse(lines) = Invalid(first) \/ Fatal(Parse(lines), lines[first])
  <2>1. first \in bad /\ \A y \in bad : first <= y
    <3>1. bad \in SUBSET Nat
      BY <1>1, <1>4
    <3> QED
      BY <1>6, <3>1, MinOfNumbers, Zenon
  <2> HIDE DEF first
  <2>2. first \in 1..N /\ first - 1 \in 0..N
    BY <1>1, <1>4, <2>1
  <2>3. \A n \in 1..(first - 1) : GoodLine(lines, n)
    BY <1>1, <1>3, <2>1, <2>2
  <2>4. after[first - 1].verdict = "loaded"
    BY <1>2, <2>2, <2>3, GoodSoFar
  <2>5. after[first] = Line(lines, first, after[first - 1].config)
    BY <1>2, <2>2, <2>4, Zenon DEF LineByLine, Step
  <2>6. after[first] = Invalid(first) \/ Fatal(after[first], lines[first])
    BY <1>1, <1>3, <2>1, <2>2, <2>5, LineVerdict, Zenon
  <2>7. after[N] = after[first]
    <3>1. after[first].verdict # "loaded"
      BY <2>6, Verdicts DEF Fatal
    <3>2. first \in 0..N
      BY <2>2
    <3> QED
      BY <1>1, <1>2, <3>1, <3>2, StaysRefused
  <2> QED
    BY <1>2, <2>6, <2>7, Zenon
<1> QED
  BY <1>5, <1>6 DEF bad, first

------------------------------------------------------------------------------
(* What an accepted file sets.                                              *)
Sets(lines, n, key) == lines[n].shape = "pair" /\ lines[n].key = key

(* After k lines: a colour is that of its own line if no theme has come     *)
(* since, and the theme's otherwise.                                        *)
ThemeSoFar(lines, k, theme) ==
    \/ theme = DefaultTheme /\ \A m \in 1..k : ~Sets(lines, m, "theme")
    \/ \E m \in 1..k : Sets(lines, m, "theme") /\ theme = lines[m].value
OwnColor(config, lines, k, key) ==
    \E n \in 1..k :
        /\ Sets(lines, n, key) /\ config[key] = lines[n].value
        /\ \A m \in 1..k : Sets(lines, m, "theme") => m < n
ThemesColor(config, lines, k, key) ==
    /\ \A n \in 1..k : Sets(lines, n, key) =>
         \E m \in 1..k : Sets(lines, m, "theme") /\ ~(m < n)
    /\ \E theme : ThemeSoFar(lines, k, theme) /\ config[key] = <<"theme", theme>>
PlainSetting(config, lines, k, key) ==
    \/ \E n \in 1..k : Sets(lines, n, key) /\ config[key] = lines[n].value
    \/ config[key] = Default[key] /\ \A n \in 1..k : ~Sets(lines, n, key)
SettledBy(config, lines, k) ==
    /\ DOMAIN config = SettingKey
    /\ \A key \in ColorKey : OwnColor(config, lines, k, key) \/ ThemesColor(config, lines, k, key)
    /\ \A key \in SettingKey \ ColorKey : PlainSetting(config, lines, k, key)

LEMMA DefaultSettings ==
    /\ DOMAIN Default = SettingKey
    /\ \A key \in ColorKey : Default[key] = <<"theme", DefaultTheme>>
<1>1. ASSUME NEW key \in ColorKey
      PROVE  Default[key] = <<"theme", DefaultTheme>>
  <2>1. key \in SettingKey /\ key # "idle_seconds" /\ key # "scene_style"
    BY DEF SettingKey, ColorKey
  <2> QED
    BY <2>1 DEF Default
<1> QED
  BY <1>1 DEF Default

LEMMA ThemedSettings ==
    ASSUME NEW config, DOMAIN config = SettingKey, NEW theme
    PROVE  /\ DOMAIN Themed(config, theme) = SettingKey
           /\ \A key \in ColorKey : Themed(config, theme)[key] = <<"theme", theme>>
           /\ \A key \in SettingKey \ ColorKey : Themed(config, theme)[key] = config[key]
  BY DEF Themed, SettingKey

(* What an accepted line does.                                              *)
Accepted(lines, n, config, after) ==
    \/ lines[n].shape # "pair" /\ after = config
    \/ /\ lines[n].shape = "pair"
       /\ \A m \in Pairs(lines) : m < n => lines[m].key # lines[n].key
       /\ \/ lines[n].key = "theme" /\ after = Themed(config, lines[n].value)
          \/ /\ lines[n].key \in SettingKey
             /\ after = [config EXCEPT ![lines[n].key] = lines[n].value]

LEMMA AcceptedLine ==
    ASSUME NEW lines, IsText(lines), NEW n \in DOMAIN lines, NEW config,
           Line(lines, n, config).verdict = "loaded"
    PROVE  Accepted(lines, n, config, Line(lines, n, config).config)
<1> DEFINE line == lines[n]
           seen == \E m \in Pairs(lines) : m < n /\ lines[m].key = line.key
           put == [config EXCEPT ![line.key] = line.value]
           set == Set(config, line, n)
           result == Line(lines, n, config)
<1>1. result = IF line.long THEN Invalid(n)
               ELSE IF line.shape = "blank" THEN Loaded(config)
               ELSE IF line.shape = "pair" /\ ~seen THEN set
               ELSE Invalid(n)
  BY LineCases, Zenon
<1>2. Invalid(n).verdict # "loaded" /\ Refused("panic").verdict # "loaded"
  BY Verdicts
<1>3. \A c : Loaded(c).config = c
  BY Verdicts, Zenon
<1>4. set.verdict = "loaded" =>
        \/ line.key = "theme" /\ set = Loaded(Themed(config, line.value))
        \/ line.key \in SettingKey /\ set = Loaded(put)
  <2> SUFFICES ASSUME set.verdict = "loaded"
               PROVE  \/ line.key = "theme" /\ set = Loaded(Themed(config, line.value))
                      \/ line.key \in SettingKey /\ set = Loaded(put)
    OBVIOUS
  <2>1. CASE line.key = "theme"
    BY <1>2, <2>1, SetTheme, Zenon
  <2>2. CASE line.key \in WordKey
    BY <1>2, <2>2, SetWord, Zenon DEF SettingKey
  <2>3. CASE line.key = "idle_seconds"
    BY <1>2, <2>3, SetIdle, Zenon DEF SettingKey
  <2>4. CASE line.key \in ColorKey
    BY <1>2, <2>4, SetColor, Zenon DEF SettingKey
  <2>5. CASE line.key \notin SettingKey \cup {"theme"}
    BY <1>2, <2>5, SetUnknown, Zenon
  <2> QED
    BY <2>1, <2>2, <2>3, <2>4, <2>5, Zenon DEF SettingKey
<1> HIDE DEF set
<1>5. result.verdict = "loaded" /\ result.verdict # Invalid(n).verdict
  BY <1>2
<1> HIDE DEF result
<1>6. CASE line.shape = "blank"
  <2>1. result = Loaded(config)
    BY <1>1, <1>5, <1>6, Zenon
  <2>2. result.config = config
    BY <1>3, <2>1, Zenon
  <2>3. line.shape # "pair"
    BY <1>6
  <2>4. Accepted(lines, n, config, result.config)
    BY <2>2, <2>3, Zenon DEF Accepted
  <2> QED
    BY <2>4, Zenon DEF result
<1>7. CASE line.shape # "blank"
  <2>1. line.shape = "pair" /\ ~seen /\ result = set
    BY <1>1, <1>5, <1>7, Zenon
  <2>2. \A m \in Pairs(lines) : m < n => lines[m].key # line.key
    BY <2>1, Zenon
  <2>3. \/ line.key = "theme" /\ result.config = Themed(config, line.value)
        \/ line.key \in SettingKey /\ result.config = put
    BY <1>3, <1>4, <1>5, <2>1, Zenon
  <2>4. Accepted(lines, n, config, result.config)
    BY <2>1, <2>2, <2>3, Zenon DEF Accepted
  <2> QED
    BY <2>4, Zenon DEF result
<1> QED
  BY <1>6, <1>7, Zenon

LEMMA NextSets ==
    ASSUME NEW k \in Nat, NEW m \in 1..(k + 1)
    PROVE  m \in 1..k \/ m = k + 1
  OBVIOUS

LEMMA SettledStep ==
    ASSUME NEW lines, IsText(lines), NEW k \in Nat, k + 1 \in DOMAIN lines, NEW config,
           SettledBy(config, lines, k), Line(lines, k + 1, config).verdict = "loaded"
    PROVE  SettledBy(Line(lines, k + 1, config).config, lines, k + 1)
<1> DEFINE after == Line(lines, k + 1, config).config
           line == lines[k + 1]
<1>1. \/ line.shape # "pair" /\ after = config
      \/ line.shape = "pair" /\ line.key = "theme" /\ after = Themed(config, line.value)
      \/ /\ line.shape = "pair" /\ line.key \in SettingKey
         /\ after = [config EXCEPT ![line.key] = line.value]
  <2>1. Accepted(lines, k + 1, config, after)
    BY AcceptedLine, Zenon
  <2> HIDE DEF after
  <2> QED
    BY <2>1, Zenon DEF Accepted
<1>2. k + 1 \in 1..(k + 1) /\ \A m \in 1..k : m \in 1..(k + 1) /\ m < k + 1 /\ ~(k + 1 < m)
  OBVIOUS
<1>3. DOMAIN config = SettingKey
  BY DEF SettledBy
<1> HIDE DEF after
<1>4. ASSUME NEW key, ~Sets(lines, k + 1, key), after[key] = config[key],
             PlainSetting(config, lines, k, key)
      PROVE  PlainSetting(after, lines, k + 1, key)
  <2>1. CASE \E n \in 1..k : Sets(lines, n, key) /\ config[key] = lines[n].value
    BY <1>2, <1>4, <2>1, Zenon DEF PlainSetting
  <2>2. CASE config[key] = Default[key] /\ \A n \in 1..k : ~Sets(lines, n, key)
    <3>1. \A n \in 1..(k + 1) : ~Sets(lines, n, key)
      BY <1>4, <2>2, NextSets
    <3> QED
      BY <1>4, <2>2, <3>1, Zenon DEF PlainSetting
  <2> QED
    BY <1>4, <2>1, <2>2, Zenon DEF PlainSetting
<1>5. ASSUME NEW key, ~Sets(lines, k + 1, key), ~Sets(lines, k + 1, "theme"), after[key] = config[key]
      PROVE  /\ OwnColor(config, lines, k, key) => OwnColor(after, lines, k + 1, key)
             /\ ThemesColor(config, lines, k, key) => ThemesColor(after, lines, k + 1, key)
  <2>1. OwnColor(config, lines, k, key) => OwnColor(after, lines, k + 1, key)
    BY <1>2, <1>5, NextSets, Zenon DEF OwnColor
  <2>2. \A theme : ThemeSoFar(lines, k, theme) => ThemeSoFar(lines, k + 1, theme)
    BY <1>2, <1>5, NextSets, Zenon DEF ThemeSoFar
  <2>3. ThemesColor(config, lines, k, key) => ThemesColor(after, lines, k + 1, key)
    BY <1>2, <1>5, <2>2, NextSets, Zenon DEF ThemesColor
  <2> QED
    BY <2>1, <2>3
<1>6. CASE line.shape # "pair" /\ after = config
  <2>1. \A key : ~Sets(lines, k + 1, key)
    BY <1>6 DEF Sets
  <2> QED
    BY <1>4, <1>5, <1>6, <2>1 DEF SettledBy, after
<1>7. CASE line.shape = "pair" /\ line.key = "theme" /\ after = Themed(config, line.value)
  <2>1. /\ DOMAIN after = SettingKey
        /\ \A key \in ColorKey : after[key] = <<"theme", line.value>>
        /\ \A key \in SettingKey \ ColorKey : after[key] = config[key]
    BY <1>3, <1>7, ThemedSettings
  <2>2. Sets(lines, k + 1, "theme") /\ \A key : key # "theme" => ~Sets(lines, k + 1, key)
    BY <1>7 DEF Sets
  <2>3. ThemeSoFar(lines, k + 1, line.value)
    BY <1>2, <2>2, Zenon DEF ThemeSoFar
  <2>4. ASSUME NEW key \in ColorKey PROVE ThemesColor(after, lines, k + 1, key)
    <3>1. key # "theme"
      BY KeysDiffer
    <3>2. \A n \in 1..(k + 1) : ~(k + 1 < n)
      OBVIOUS
    <3> QED
      BY <1>2, <2>1, <2>2, <2>3, <3>2, Zenon DEF ThemesColor
  <2>5. ASSUME NEW key \in SettingKey \ ColorKey PROVE PlainSetting(after, lines, k + 1, key)
    <3>1. key # "theme"
      BY KeysDiffer DEF SettingKey
    <3>2. PlainSetting(config, lines, k, key) /\ after[key] = config[key]
      BY <2>1 DEF SettledBy
    <3> QED
      BY <1>4, <2>2, <3>1, <3>2
  <2> QED
    BY <2>1, <2>4, <2>5 DEF SettledBy, after
<1>8. CASE /\ line.shape = "pair" /\ line.key \in SettingKey
           /\ after = [config EXCEPT ![line.key] = line.value]
  <2>1. /\ DOMAIN after = SettingKey /\ after[line.key] = line.value
        /\ \A key \in SettingKey : key # line.key => after[key] = config[key]
    BY <1>3, <1>8
  <2>2. line.key # "theme"
    BY <1>8, KeysDiffer DEF SettingKey
  <2>3. Sets(lines, k + 1, line.key) /\ \A key : key # line.key => ~Sets(lines, k + 1, key)
    BY <1>8 DEF Sets
  <2>4. ASSUME NEW key \in ColorKey
        PROVE  OwnColor(after, lines, k + 1, key) \/ ThemesColor(after, lines, k + 1, key)
    <3>1. CASE key = line.key
      <4>1. \A m \in 1..(k + 1) : Sets(lines, m, "theme") => m < k + 1
        BY <1>2, <2>2, <2>3, NextSets
      <4>2. OwnColor(after, lines, k + 1, key)
        BY <1>2, <2>1, <2>3, <3>1, <4>1, Zenon DEF OwnColor
      <4> QED
        BY <4>2
    <3>2. CASE key # line.key
      <4>1. after[key] = config[key]
        BY <2>1, <3>2 DEF SettingKey
      <4>2. OwnColor(config, lines, k, key) \/ ThemesColor(config, lines, k, key)
        BY DEF SettledBy
      <4> QED
        BY <1>5, <2>2, <2>3, <3>2, <4>1, <4>2
    <3> QED
      BY <3>1, <3>2
  <2>5. ASSUME NEW key \in SettingKey \ ColorKey PROVE PlainSetting(after, lines, k + 1, key)
    <3>1. CASE key = line.key
      BY <1>2, <2>1, <2>3, <3>1, Zenon DEF PlainSetting
    <3>2. CASE key # line.key
      <4>1. after[key] = config[key] /\ PlainSetting(config, lines, k, key)
        BY <2>1, <3>2 DEF SettledBy
      <4> QED
        BY <1>4, <2>3, <3>2, <4>1
    <3> QED
      BY <3>1, <3>2
  <2> QED
    BY <2>1, <2>4, <2>5 DEF SettledBy, after
<1> QED
  BY <1>1, <1>6, <1>7, <1>8

LEMMA ParseSettles ==
    ASSUME NEW lines, IsText(lines), Len(lines) <= MaxLines, Parse(lines).verdict = "loaded"
    PROVE  /\ SettledBy(Parse(lines).config, lines, Len(lines))
           /\ \A n, m \in Pairs(lines) : m < n => lines[m].key # lines[n].key
<1> DEFINE N == Len(lines)
<1>1. N \in Nat /\ DOMAIN lines = 1..N /\ lines \in Seq(Range(lines))
  BY TextLength
<1>2. PICK after : LineByLine(after, lines) /\ Parse(lines) = after[N]
  BY <1>1, ParseLineByLine
<1>3. ASSUME NEW k \in 0..N PROVE after[k].verdict = "loaded"
  BY <1>1, <1>2, StaysRefused
<1>4. ASSUME NEW k \in Nat, k + 1 \in DOMAIN lines
      PROVE  /\ after[k + 1] = Line(lines, k + 1, after[k].config)
             /\ Line(lines, k + 1, after[k].config).verdict = "loaded"
  <2>1. k \in 0..N /\ k + 1 \in 0..N /\ k + 1 \in 1..N /\ (k + 1) - 1 = k
    BY <1>1, <1>4
  <2>2. after[k + 1] = Step(lines, k + 1, after[k])
    BY <1>2, <2>1, Zenon DEF LineByLine
  <2>3. after[k].verdict = "loaded" /\ after[k + 1].verdict = "loaded"
    BY <1>3, <2>1, Zenon
  <2> QED
    BY <2>2, <2>3, Zenon DEF Step
<1> DEFINE S == {k \in Nat : k <= N => SettledBy(after[k].config, lines, k)}
<1>5. 0 \in S
  <2>1. after[0].config = Default
    BY <1>2, Verdicts, Zenon DEF LineByLine
  <2>2. \A m : m \notin 1..0
    OBVIOUS
  <2>3. ThemeSoFar(lines, 0, DefaultTheme)
    BY <2>2, Zenon DEF ThemeSoFar
  <2>4. \A key \in ColorKey : ThemesColor(Default, lines, 0, key)
    BY <2>2, <2>3, DefaultSettings, Zenon DEF ThemesColor
  <2>5. \A key \in SettingKey : PlainSetting(Default, lines, 0, key)
    BY <2>2, Zenon DEF PlainSetting
  <2>6. SettledBy(Default, lines, 0)
    BY <2>4, <2>5, DefaultSettings, Zenon DEF SettledBy
  <2> QED
    BY <2>1, <2>6
<1>6. ASSUME NEW k \in Nat, k \in S PROVE k + 1 \in S
  <2> SUFFICES ASSUME k + 1 <= N PROVE SettledBy(after[k + 1].config, lines, k + 1)
    OBVIOUS
  <2>1. k + 1 \in DOMAIN lines /\ k <= N
    BY <1>1
  <2>2. SettledBy(after[k].config, lines, k)
    BY <1>6, <2>1
  <2> QED
    BY <1>4, <2>1, <2>2, SettledStep, Zenon
<1> HIDE DEF S
<1>7. Nat \subseteq S
  BY <1>5, <1>6, SetInduction
<1>8. SettledBy(after[N].config, lines, N)
  BY <1>1, <1>7 DEF S
<1>9. ASSUME NEW n \in Pairs(lines), NEW m \in Pairs(lines), m < n
      PROVE  lines[m].key # lines[n].key
  <2> DEFINE k == n - 1
  <2>1. k \in Nat /\ n = k + 1 /\ n \in DOMAIN lines /\ lines[n].shape = "pair"
    BY <1>1 DEF Pairs
  <2> HIDE DEF k
  <2>2. Line(lines, n, after[k].config).verdict = "loaded"
    BY <1>4, <2>1
  <2>3. Accepted(lines, n, after[k].config, Line(lines, n, after[k].config).config)
    BY <2>1, <2>2, AcceptedLine, Zenon
  <2>4. \A j \in Pairs(lines) : j < n => lines[j].key # lines[n].key
    BY <2>1, <2>3, Zenon DEF Accepted
  <2> QED
    BY <1>9, <2>4, Zenon
<1> QED
  BY <1>2, <1>8, <1>9

LEMMA MaxOfOne ==
    ASSUME NEW n \in Nat
    PROVE  Max({n}) = n
<1> DEFINE m == CHOOSE x \in {n} : \A y \in {n} : x >= y
<1>1. m = n
  OBVIOUS
<1>2. Max({n}) = m
  BY Zenon DEF Max
<1> QED
  BY <1>1, <1>2

(* What SettingsInOrder says of one key. *)
InOrder(lines, config, key) ==
    LET Of(k) == {n \in Pairs(lines) : lines[n].key = k}
        theme == IF Of("theme") = {} THEN DefaultTheme ELSE lines[Max(Of("theme"))].value
    IN  config[key] =
          IF key \in ColorKey
            THEN IF \E n \in Of(key) : \A m \in Of("theme") : m < n
                   THEN lines[Max(Of(key))].value ELSE <<"theme", theme>>
            ELSE IF Of(key) = {} THEN Default[key] ELSE lines[Max(Of(key))].value

(* Every key is set once, so that what is said of the last of its lines is  *)
(* what its line says.                                                      *)
LEMMA SettledInOrder ==
    ASSUME NEW lines, IsText(lines), NEW config, SettledBy(config, lines, Len(lines)),
           \A n, m \in Pairs(lines) : m < n => lines[m].key # lines[n].key,
           NEW key \in SettingKey
    PROVE  InOrder(lines, config, key)
<1> DEFINE Of(k) == {n \in Pairs(lines) : lines[n].key = k}
           theme == IF Of("theme") = {} THEN DefaultTheme ELSE lines[Max(Of("theme"))].value
           N == Len(lines)
<1>1. N \in Nat /\ DOMAIN lines = 1..N
  BY TextLength
<1>2. \A k, n : n \in Of(k) <=> n \in 1..N /\ Sets(lines, n, k)
  BY <1>1, Zenon DEF Pairs, Sets
<1>3. ASSUME NEW k, NEW n \in Of(k) PROVE Max(Of(k)) = n
  <2>1. n \in Nat
    <3>1. n \in 1..N
      BY <1>2, <1>3, Zenon
    <3> QED
      BY <1>1, <3>1
  <2>2. \A m \in Of(k) : m = n
    <3>1. \A m \in Of(k) : m \in Nat /\ ~(m < n) /\ ~(n < m)
      BY <1>1, <1>2, <1>3
    <3> QED
      BY <2>1, <3>1
  <2>3. Of(k) = {n}
    BY <1>3, <2>2
  <2> QED
    BY <2>1, <2>3, MaxOfOne
<1> HIDE DEF Of
<1>4. ASSUME NEW t, ThemeSoFar(lines, N, t) PROVE t = theme
  <2>1. CASE Of("theme") = {}
    <3>1. \A m \in 1..N : ~Sets(lines, m, "theme")
      BY <1>2, <2>1, Zenon
    <3>2. t = DefaultTheme
      BY <1>4, <3>1, Zenon DEF ThemeSoFar
    <3> QED
      BY <2>1, <3>2
  <2>2. CASE Of("theme") # {}
    <3>1. PICK m \in 1..N : Sets(lines, m, "theme") /\ t = lines[m].value
      BY <1>2, <1>4, <2>2, Zenon DEF ThemeSoFar
    <3>2. m \in Of("theme")
      BY <1>2, <3>1
    <3> QED
      BY <1>3, <2>2, <3>1, <3>2
  <2> QED
    BY <2>1, <2>2
<1> HIDE DEF theme
<1>5. CASE key \in ColorKey
  <2>1. CASE OwnColor(config, lines, N, key)
    <3>1. PICK n \in 1..N : /\ Sets(lines, n, key) /\ config[key] = lines[n].value
                            /\ \A m \in 1..N : Sets(lines, m, "theme") => m < n
      BY <2>1, Zenon DEF OwnColor
    <3>2. n \in Of(key) /\ \A m \in Of("theme") : m < n
      BY <1>2, <3>1, Zenon
    <3>3. Max(Of(key)) = n
      BY <1>3, <3>2
    <3> QED
      BY <1>5, <3>1, <3>2, <3>3 DEF Of, theme, InOrder
  <2>2. CASE ThemesColor(config, lines, N, key)
    <3>1. PICK t : ThemeSoFar(lines, N, t) /\ config[key] = <<"theme", t>>
      BY <2>2, Zenon DEF ThemesColor
    <3>2. config[key] = <<"theme", theme>>
      BY <1>4, <3>1
    <3>3. ~ \E n \in Of(key) : \A m \in Of("theme") : m < n
      BY <1>2, <2>2, Zenon DEF ThemesColor
    <3> QED
      BY <1>5, <3>2, <3>3 DEF Of, theme, InOrder
  <2> QED
    BY <1>5, <2>1, <2>2 DEF SettledBy
<1>6. CASE key \notin ColorKey
  <2>1. PlainSetting(config, lines, N, key)
    BY <1>6 DEF SettledBy
  <2>2. CASE \E n \in 1..N : Sets(lines, n, key) /\ config[key] = lines[n].value
    <3>1. PICK n \in 1..N : Sets(lines, n, key) /\ config[key] = lines[n].value
      BY <2>2
    <3>2. n \in Of(key) /\ Max(Of(key)) = n
      BY <1>2, <1>3, <3>1
    <3> QED
      BY <1>6, <3>1, <3>2 DEF Of, InOrder
  <2>3. CASE config[key] = Default[key] /\ \A n \in 1..N : ~Sets(lines, n, key)
    <3>1. Of(key) = {}
      BY <1>2, <2>3, Zenon
    <3> QED
      BY <1>6, <2>3, <3>1 DEF Of, InOrder
  <2> QED
    BY <2>1, <2>2, <2>3, Zenon DEF PlainSetting
<1> QED
  BY <1>5, <1>6

------------------------------------------------------------------------------
(* The start of an attachment.                                              *)
Loading ==
    /\ file.kind = "text" =>
         /\ file \in File /\ pc \in {"load", "loaded", "failed"}
         /\ pc # "load" => loaded = Parse(file.lines)
         /\ pc = "loaded" => loaded.verdict = "loaded"
    /\ pc \notin {"load", "loaded", "failed"} => file = Absent

LEMMA AbsentIsNoText == Absent.kind # "text"
  BY DEF Absent

LEMMA ClientMoves ==
    ASSUME ClientStep \/ ClientFails, ~Load, ~Configured
    PROVE  /\ pc \notin {"load", "loaded", "left", "failed"} /\ pc' \notin {"load", "loaded"}
           /\ UNCHANGED <<file, loaded>>
<1>1. CASE Connect
  BY <1>1 DEF Connect, Write, local
<1>2. CASE Receive
  <2>1. pc = "await" /\ UNCHANGED <<file, loaded>>
    BY <1>2 DEF Receive, local
  <2>2. pc' = "failed" \/ \E r : pc' = AfterResponse(r)
    BY <1>2, Zenon DEF Receive
  <2>3. \A r : AfterResponse(r) \in {"failed", "enter", "left", "draw", "route"}
    BY Zenon DEF AfterResponse
  <2> QED
    BY <2>1, <2>2, <2>3
<1>3. CASE Enter \/ NoEvent \/ WindowResized
  BY <1>3 DEF Enter, NoEvent, WindowResized, Ask, Write, local
<1>4. CASE Draw
  BY <1>4 DEF Draw, local
<1>5. CASE Dismiss
  BY <1>5 DEF Dismiss, Consume, EventRead, local
<1>6. ASSUME NEW key \in Key, CopyModeKey(key)
      PROVE  /\ pc = "poll" /\ pc' = "draw" /\ UNCHANGED <<file, loaded>>
  BY <1>6 DEF CopyModeKey, Consume, EventRead, local
<1>7. ASSUME NEW key \in Key, Press(key)
      PROVE  /\ pc = "poll" /\ pc' \in {"draw", "route"} /\ UNCHANGED <<file, loaded>>
  BY <1>7 DEF Press, Consume, EventRead, local
<1>8. ASSUME NEW b, RouteLocally(b) \/ RouteToDaemon(b)
      PROVE  /\ pc = "route" /\ pc' \in {"draw", "route", "await"} /\ UNCHANGED <<file, loaded>>
  BY <1>8 DEF RouteLocally, RouteToDaemon, Routed, Ask, Write, local
<1>9. CASE ClientFails
  BY <1>9 DEF ClientFails, Ended, local
<1> QED
  BY <1>1, <1>2, <1>3, <1>4, <1>5, <1>6, <1>7, <1>8, <1>9 DEF ClientStep

LEMMA OthersStay ==
    ASSUME DaemonStep \/ Carry \/ Stall \/ UNCHANGED vars
    PROVE  UNCHANGED <<pc, name, file, loaded>>
<1>1. CASE DaemonStep \/ Carry \/ Stall
  BY <1>1, Zenon DEF DaemonStep, Written, ReadRequest, ReadEnds, DaemonFails, Dispatch, Serve,
     Carry, Stall, client, local
<1>2. CASE UNCHANGED vars
  BY <1>2 DEF vars, client, local
<1> QED
  BY <1>1, <1>2

LEMMA InitLoading == Init => Loading
<1> SUFFICES ASSUME Init PROVE Loading
  OBVIOUS
<1>1. (pc = "load" /\ file \in File) \/ (pc = "connect" /\ file = Absent)
  BY Zenon DEF Init
<1> QED
  BY <1>1, AbsentIsNoText DEF Loading

LEMMA NextLoading == Loading /\ [Next]_vars => Loading'
<1> SUFFICES ASSUME Loading, [Next]_vars PROVE Loading'
  OBVIOUS
<1>1. CASE Load
  <2>1. /\ pc = "load" /\ file' = file /\ loaded' = LoadPath(file)
        /\ pc' \in {"loaded", "failed"} /\ (pc' = "loaded" => loaded'.verdict = "loaded")
    BY <1>1, Zenon DEF Load
  <2>2. file.kind = "text" => LoadPath(file) = Parse(file.lines)
    BY DEF LoadPath
  <2> QED
    BY <2>1, <2>2 DEF Loading
<1>2. CASE Configured
  BY <1>2, AbsentIsNoText DEF Configured, Loading
<1>3. CASE ClientStep \/ ClientFails
  <2>1. CASE Load \/ Configured
    BY <1>1, <1>2, <2>1
  <2>2. CASE ~Load /\ ~Configured
    BY <1>3, <2>2, ClientMoves, AbsentIsNoText DEF Loading
  <2> QED
    BY <2>1, <2>2
<1>4. CASE DaemonStep \/ Carry \/ Stall \/ UNCHANGED vars
  BY <1>4, OthersStay DEF Loading
<1> QED
  BY <1>1, <1>2, <1>3, <1>4 DEF Next

LEMMA LoadingNamesLine == Loading => ErrorNamesLine
<1> SUFFICES ASSUME Loading, file.kind = "text", pc \in Ended \cup {"loaded"}
             PROVE  LET bad == BadLines(file.lines)
                    IN  IF Len(file.lines) > MaxLines THEN loaded = Invalid(MaxLines + 1)
                        ELSE IF bad = {} THEN loaded.verdict = "loaded"
                        ELSE LET first == Min(bad)
                             IN  loaded = Invalid(first) \/ Fatal(loaded, file.lines[first])
  BY Zenon DEF ErrorNamesLine
<1> DEFINE lines == file.lines
<1>1. IsText(lines) /\ loaded = Parse(lines)
  <2>1. file \in File /\ loaded = Parse(lines)
    BY DEF Loading, Ended
  <2> QED
    BY <2>1, ClientAssumption
<1>2. Len(lines) \in Nat /\ MaxLines \in Nat
  BY <1>1, TextLength, ConfigurationAssumption
<1> HIDE DEF lines
<1>3. CASE Len(lines) > MaxLines
  BY <1>1, <1>3, Zenon DEF Parse, lines
<1>4. CASE ~(Len(lines) > MaxLines)
  <2>1. Len(lines) <= MaxLines
    BY <1>2, <1>4
  <2>2. /\ BadLines(lines) = {} => Parse(lines).verdict = "loaded"
        /\ BadLines(lines) # {} =>
             \/ Parse(lines) = Invalid(Min(BadLines(lines)))
             \/ Fatal(Parse(lines), lines[Min(BadLines(lines))])
    BY <1>1, <2>1, ParseVerdict, Zenon
  <2> QED
    BY <1>1, <1>4, <2>2, Zenon DEF lines
<1> QED
  BY <1>3, <1>4

LEMMA LoadingInOrder == Loading => SettingsInOrder
<1> SUFFICES ASSUME Loading, pc = "loaded", file.kind = "text", NEW key \in DOMAIN Default
             PROVE  InOrder(file.lines, loaded.config, key)
  BY Zenon DEF SettingsInOrder, InOrder
<1> DEFINE lines == file.lines
<1>1. IsText(lines) /\ loaded = Parse(lines) /\ Parse(lines).verdict = "loaded"
  <2>1. file \in File /\ loaded = Parse(lines) /\ Parse(lines).verdict = "loaded"
    BY DEF Loading
  <2> QED
    BY <2>1, ClientAssumption
<1>2. Len(lines) \in Nat /\ MaxLines \in Nat
  BY <1>1, TextLength, ConfigurationAssumption
<1> HIDE DEF lines
<1>3. ~(Len(lines) > MaxLines)
  <2>1. Len(lines) > MaxLines => Parse(lines) = Invalid(MaxLines + 1)
    BY Zenon DEF Parse
  <2>2. Parse(lines) # Invalid(MaxLines + 1)
    BY <1>1, Verdicts
  <2> QED
    BY <2>1, <2>2
<1>4. Len(lines) <= MaxLines
  BY <1>2, <1>3
<1>5. /\ SettledBy(Parse(lines).config, lines, Len(lines))
      /\ \A n, m \in Pairs(lines) : m < n => lines[m].key # lines[n].key
  BY <1>1, <1>4, ParseSettles, Zenon
<1>6. key \in SettingKey
  BY DefaultSettings
<1> QED
  BY <1>1, <1>5, <1>6, SettledInOrder, Zenon DEF lines

(* docs/CONFIGURATION.md: a bad line stops the start with its number, and   *)
(* the first one does.                                                      *)
THEOREM BadLineNamed == Spec => []ErrorNamesLine
BY InitLoading, NextLoading, LoadingNamesLine, PTL DEF Spec

(* Settings after a theme override it, and nothing else does.               *)
THEOREM SettingsOverrideTheme == Spec => []SettingsInOrder
BY InitLoading, NextLoading, LoadingInOrder, PTL DEF Spec

------------------------------------------------------------------------------
(* The exchanges. *)

(* What is left of f on its way through the pipe, a whole frame.            *)
Carrying(pipe, f) ==
    /\ pipe \in [unsent : Seq(Byte), arrived : Seq(Byte)]
    /\ f \in Seq(Byte) /\ Unframe(f).ok
    /\ Len(pipe.arrived) + Len(pipe.unsent) <= Len(f)
    /\ \A i \in 1..Len(pipe.arrived) : pipe.arrived[i] = f[i]
    /\ \A i \in 1..Len(pipe.unsent) : pipe.unsent[i] = f[Len(pipe.arrived) + i]

ClientRequest ==
    [kind : {"CREATE", "ATTACH", "DETACH"}, name : SessionNames]
      \cup [kind : {"LIST", "SNAPSHOT"}]
      \cup [kind : {"PING"}, nonce : {Nonce}]
      \cup [kind : {"RESIZE"}, cols : {300}, rows : {24}]
      \cup [kind : {"COMMAND"}, command : 1..4]
      \cup [kind : {"INPUT"}, bytes : Seq(Byte)]

(* The client asks for no pane more than the bound. *)
Fitting == asked.kind = "COMMAND" => asked.command > 2 \/ Len(texts) < MaxPanes

Waiting == pc \in {"await", "failed"}
Executing == dpc \in {"dispatch", "serve"}

(* One message at a time, on its way or being executed. *)
Asked ==
    up # Pipe => /\ Carrying(up, EncodeRequest(asked)) /\ asked \in ClientRequest /\ Fitting
                 /\ Waiting /\ ~Executing /\ down = Pipe
Executed ==
    Executing => request = asked /\ asked \in ClientRequest /\ Fitting /\ Waiting
Responded ==
    down # Pipe => /\ Carrying(down, EncodeResponse(reply)) /\ AnsweredBack(reply)
                   /\ Waiting /\ ~Executing
Answered == pc \in {"draw", "poll", "route"} => answer = reply
Starting ==
    pc \in {"load", "loaded", "connect"} => asked \in FirstRequests /\ dpc = "none"
Dropped ==
    /\ why # "malformed"
    /\ why = "unencodable" => dpc = "gone" /\ Len(texts) > MaxSnapshotPanes
Contents ==
    /\ name \in SessionNames
    /\ IsFiniteSet(hosted) /\ hosted \subseteq Name /\ Cardinality(hosted) <= MaxListedSessions
    /\ texts \in Seq(Text) /\ Len(texts) \in 1..MaxPanes
Places ==
    /\ pc \in {"load", "loaded", "connect", "enter", "draw", "poll", "route", "await"} \cup Ended
    /\ dpc \in {"none", "dispatch", "serve", "gone"} \cup Reading \cup Writing
    /\ why \in {"", "done", "eof", "timeout", "malformed", "unencodable", "runtime"}
Switches == {scenes, saver, copy, pending, stalled} \subseteq BOOLEAN
Rounds == quiet \in 0..Patience /\ held \in 0..Patience
Modes == Places /\ Switches /\ Rounds
Exchange == Asked /\ Executed /\ Responded /\ Answered /\ Starting /\ Dropped /\ Contents

LEMMA PipeTyped == Pipe \in [unsent : Seq(Byte), arrived : Seq(Byte)]
                   /\ Pipe.unsent = <<>> /\ Pipe.arrived = <<>>
  BY DEF Pipe

LEMMA Departs ==
    ASSUME NEW f \in Seq(Byte), Unframe(f).ok
    PROVE  Carrying([Pipe EXCEPT !.unsent = f], f)
<1> DEFINE pipe == [unsent |-> f, arrived |-> <<>>]
<1>1. [Pipe EXCEPT !.unsent = f] = pipe
  BY DEF Pipe
<1>2. Carrying(pipe, f)
  BY DEF Carrying
<1> QED
  BY <1>1, <1>2

LEMMA ConcatElements ==
    \A s, t \in Seq(Byte) : \A i \in 1..(Len(s) + Len(t)) :
        (s \o t)[i] = IF i <= Len(s) THEN s[i] ELSE t[i - Len(s)]
<1> SUFFICES ASSUME NEW s \in Seq(Byte), NEW t \in Seq(Byte), NEW i \in 1..(Len(s) + Len(t))
             PROVE  (s \o t)[i] = IF i <= Len(s) THEN s[i] ELSE t[i - Len(s)]
  OBVIOUS
<1> QED
  BY ConcatProperties

LEMMA Travels ==
    ASSUME NEW pipe, NEW f, NEW n \in Pieces(pipe), Carrying(pipe, f)
    PROVE  Carrying(Carried(pipe, n), f)
<1> DEFINE a == pipe.arrived
           u == pipe.unsent
           b == SubSeq(u, 1, n)
           v == SubSeq(u, n + 1, Len(u))
           p == [unsent |-> v, arrived |-> a \o b]
<1>1. /\ a \in Seq(Byte) /\ u \in Seq(Byte) /\ f \in Seq(Byte) /\ Unframe(f).ok
      /\ Len(a) + Len(u) <= Len(f)
      /\ \A i \in 1..Len(a) : a[i] = f[i]
      /\ \A i \in 1..Len(u) : u[i] = f[Len(a) + i]
  BY DEF Carrying
<1>2. n \in 1..Len(u)
  BY <1>1 DEF Pieces
<1>3. Carried(pipe, n) = p
  BY DEF Carried
<1> HIDE DEF a, u
<1>4. b \in Seq(Byte) /\ Len(b) = n /\ \A i \in 1..n : b[i] = u[i]
  <2>1. \A i \in 1..n : u[i] \in Byte
    BY <1>1, <1>2
  <2> QED
    BY <1>1, <1>2, <2>1, SubSeqProperties
<1>5. v \in Seq(Byte) /\ Len(v) = Len(u) - n /\ \A i \in 1..(Len(u) - n) : v[i] = u[n + i]
  <2>1. \A i \in (n + 1)..Len(u) : u[i] \in Byte
    BY <1>1, <1>2
  <2> QED
    BY <1>1, <1>2, <2>1, SubSeqProperties
<1> HIDE DEF b, v
<1>6. /\ a \o b \in Seq(Byte) /\ Len(a \o b) = Len(a) + n
      /\ \A i \in 1..(Len(a) + n) : (a \o b)[i] = IF i <= Len(a) THEN a[i] ELSE b[i - Len(a)]
  <2>1. a \o b \in Seq(Byte) /\ Len(a \o b) = Len(a) + Len(b)
    BY <1>1, <1>4, ConcatTyped, Zenon
  <2>2. \A i \in 1..(Len(a) + Len(b)) : (a \o b)[i] = IF i <= Len(a) THEN a[i] ELSE b[i - Len(a)]
    BY <1>1, <1>4, ConcatElements, Zenon
  <2> QED
    BY <1>4, <2>1, <2>2, Zenon
<1> DEFINE c == a \o b
<1>7. c \in Seq(Byte) /\ Len(c) = Len(a) + n
  BY <1>6
<1>8. \A i \in 1..Len(c) : c[i] = f[i]
  <2> SUFFICES ASSUME NEW i \in 1..Len(c) PROVE c[i] = f[i]
    OBVIOUS
  <2>1. CASE i <= Len(a)
    BY <1>1, <1>2, <1>6, <1>7, <2>1
  <2>2. CASE ~(i <= Len(a))
    <3>1. i - Len(a) \in 1..n /\ c[i] = b[i - Len(a)]
      BY <1>1, <1>2, <1>6, <1>7, <2>2
    <3>2. i - Len(a) \in 1..Len(u) /\ b[i - Len(a)] = u[i - Len(a)]
      BY <1>1, <1>2, <1>4, <3>1
    <3>3. u[i - Len(a)] = f[Len(a) + (i - Len(a))] /\ Len(a) + (i - Len(a)) = i
      BY <1>1, <1>7, <3>2
    <3> QED
      BY <3>1, <3>2, <3>3
  <2> QED
    BY <2>1, <2>2
<1> HIDE DEF c
<1>9. \A i \in 1..Len(v) : v[i] = f[Len(c) + i]
  <2> SUFFICES ASSUME NEW i \in 1..Len(v) PROVE v[i] = f[Len(c) + i]
    OBVIOUS
  <2>1. n + i \in 1..Len(u) /\ v[i] = u[n + i]
    BY <1>1, <1>2, <1>5
  <2>2. u[n + i] = f[Len(a) + (n + i)] /\ Len(a) + (n + i) = Len(c) + i
    BY <1>1, <1>2, <1>7, <2>1
  <2> QED
    BY <2>1, <2>2
<1>10. Len(c) + Len(v) <= Len(f)
  BY <1>1, <1>2, <1>5, <1>7
<1>11. p = [unsent |-> v, arrived |-> c]
  BY DEF c
<1> HIDE DEF p
<1>12. Carrying(p, f)
  <2>1. p \in [unsent : Seq(Byte), arrived : Seq(Byte)] /\ p.unsent = v /\ p.arrived = c
    BY <1>5, <1>7, <1>11
  <2> QED
    BY <1>1, <1>8, <1>9, <1>10, <2>1 DEF Carrying
<1> QED
  BY <1>3, <1>12 DEF p

LEMMA IsCut ==
    ASSUME NEW pipe, NEW f, Carrying(pipe, f)
    PROVE  Carrying([pipe EXCEPT !.unsent = <<>>], f)
<1> DEFINE a == pipe.arrived
           p == [unsent |-> <<>>, arrived |-> a]
<1>1. /\ a \in Seq(Byte) /\ pipe.unsent \in Seq(Byte) /\ f \in Seq(Byte) /\ Unframe(f).ok
      /\ Len(a) + Len(pipe.unsent) <= Len(f)
      /\ \A i \in 1..Len(a) : a[i] = f[i]
  BY DEF Carrying
<1>2. [pipe EXCEPT !.unsent = <<>>] = p
  <2>1. pipe \in [unsent : Seq(Byte), arrived : Seq(Byte)]
    BY DEF Carrying
  <2> QED
    BY <2>1
<1> HIDE DEF a
<1>3. p \in [unsent : Seq(Byte), arrived : Seq(Byte)] /\ p.unsent = <<>> /\ p.arrived = a
  BY <1>1, EmptyBytes
<1>4. Len(<<>>) = 0 /\ Len(a) + 0 <= Len(f)
  BY <1>1, EmptyBytes
<1> HIDE DEF p
<1>5. \A i \in 1..0 : <<>>[i] = f[Len(a) + i]
  OBVIOUS
<1>6. Carrying(p, f)
  BY <1>1, <1>3, <1>4, <1>5, Zenon DEF Carrying
<1> QED
  BY <1>2, <1>6 DEF p

(* The header says how long the frame is, however much of the rest is there.*)
LEMMA SameLength ==
    ASSUME NEW f \in Seq(Byte), Unframe(f).ok, NEW a \in Seq(Byte), Len(a) >= 10,
           \A i \in 1..10 : a[i] = f[i]
    PROVE  FrameLength(a) = Len(f) /\ Len(f) <= MaxFrameBytes
<1>1. Len(f) = FrameLength(f) /\ FrameLength(f) <= MaxFrameBytes
  BY HeaderOf
<1>2. a[7] = f[7] /\ a[8] = f[8] /\ a[9] = f[9] /\ a[10] = f[10]
  OBVIOUS
<1>3. FrameLength(a) = FrameLength(f)
  BY <1>2, Zenon DEF FrameLength
<1> QED
  BY <1>1, <1>3

LEMMA Arrives ==
    ASSUME NEW pipe, NEW f, Carrying(pipe, f)
    PROVE  /\ ~TooLong(pipe)
           /\ FrameArrived(pipe) => ReadFrame(pipe) = f /\ AfterFrame(pipe) = Pipe
<1> DEFINE a == pipe.arrived
           u == pipe.unsent
<1>1. /\ a \in Seq(Byte) /\ u \in Seq(Byte) /\ f \in Seq(Byte) /\ Unframe(f).ok
      /\ Len(a) + Len(u) <= Len(f)
      /\ \A i \in 1..Len(a) : a[i] = f[i]
      /\ pipe = [unsent |-> u, arrived |-> a]
  BY DEF Carrying
<1>2. Len(f) \in Nat /\ Len(a) \in Nat /\ Len(u) \in Nat /\ MaxFrameBytes \in Nat
  BY <1>1, CodecAssumption
<1> HIDE DEF a, u
<1>3. Len(a) >= 10 => FrameLength(a) = Len(f) /\ Len(f) <= MaxFrameBytes
  <2> HAVE Len(a) >= 10
  <2>1. \A i \in 1..10 : a[i] = f[i]
    BY <1>1, <1>2
  <2> QED
    BY <1>1, <2>1, SameLength
<1>4. ~TooLong(pipe)
  <2> SUFFICES ASSUME TooLong(pipe) PROVE FALSE
    OBVIOUS
  <2>1. Len(a) >= 10 /\ FrameLength(a) > MaxFrameBytes
    BY DEF TooLong, HeaderArrived, HeaderBytes, a
  <2> QED
    BY <1>2, <1>3, <2>1
<1>5. ASSUME FrameArrived(pipe) PROVE ReadFrame(pipe) = f /\ AfterFrame(pipe) = Pipe
  <2>1. Len(a) >= 10 /\ Len(a) >= FrameLength(a)
    BY <1>5 DEF FrameArrived, HeaderArrived, HeaderBytes, a
  <2>2. FrameLength(a) = Len(f) /\ Len(a) = Len(f) /\ Len(u) = 0
    BY <1>1, <1>2, <1>3, <2>1
  <2>3. a = f
    BY <1>1, <2>2, SeqEqual
  <2>4. u = <<>>
    BY <1>1, <2>2
  <2>5. ReadFrame(pipe) = SubSeq(f, 1, Len(f)) /\ AfterFrame(pipe) = [pipe EXCEPT !.arrived = SubSeq(f, Len(f) + 1, Len(f))]
    <3>1. a = pipe.arrived
      BY DEF a
    <3> QED
      BY <2>2, <2>3, <3>1 DEF ReadFrame, AfterFrame
  <2>6. SubSeq(f, 1, Len(f)) = f
    BY <1>1, SubSeqFull, Zenon
  <2>7. SubSeq(f, Len(f) + 1, Len(f)) = <<>>
    BY <1>1, <1>2
  <2>8. [pipe EXCEPT !.arrived = <<>>] = Pipe
    BY <1>1, <2>4 DEF Pipe
  <2> QED
    BY <2>5, <2>6, <2>7, <2>8
<1> QED
  BY <1>4, <1>5

LEMMA NothingArrives ==
    /\ ~FrameArrived(Pipe) /\ ~TooLong(Pipe) /\ Pieces(Pipe) = {}
    /\ [Pipe EXCEPT !.unsent = <<>>] = Pipe
<1>1. ~HeaderArrived(Pipe)
  <2>1. Len(Pipe.arrived) = 0
    BY DEF Pipe
  <2> QED
    BY <2>1 DEF HeaderArrived, HeaderBytes
<1>2. Pieces(Pipe) = {}
  <2>1. DOMAIN Pipe.unsent = {}
    BY DEF Pipe
  <2> QED
    BY <2>1 DEF Pieces
<1> QED
  BY <1>1, <1>2 DEF FrameArrived, TooLong, Pipe

------------------------------------------------------------------------------
(* Frames. *)

LEMMA RequestDecodes ==
    ASSUME NEW f, DecodeRequest(f).ok
    PROVE  Unframe(f).ok /\ Unframe(f).value \in Range(RequestKind)
<1> DEFINE u == Unframe(f)
           m == RequestOf(CHOOSE j \in DOMAIN RequestKind : RequestKind[j] = u.value, u.rest)
<1>1. DecodeRequest(f) = IF u.ok THEN IF u.value \in Range(RequestKind) THEN m ELSE Failed
                         ELSE Failed
  BY DEF DecodeRequest, Known, Then, If
<1>2. u.ok /\ u.value \in Range(RequestKind)
  <2> HIDE DEF u, m
  <2> QED
    BY <1>1, FailedIsNotOk
<1> QED
  BY <1>2

LEMMA ResponseDecodes ==
    ASSUME NEW f, DecodeResponse(f).ok
    PROVE  Unframe(f).ok /\ Unframe(f).value \in Range(ResponseKind)
<1> DEFINE u == Unframe(f)
           m == ResponseOf(CHOOSE j \in DOMAIN ResponseKind : ResponseKind[j] = u.value, u.rest)
<1>1. DecodeResponse(f) = IF u.ok THEN IF u.value \in Range(ResponseKind) THEN m ELSE Failed
                          ELSE Failed
  BY DEF DecodeResponse, Known, Then, If
<1>2. u.ok /\ u.value \in Range(ResponseKind)
  <2> HIDE DEF u, m
  <2> QED
    BY <1>1, FailedIsNotOk
<1> QED
  BY <1>2

(* No code is one of a request and of a response. *)
LEMMA KindsApart == Range(RequestKind) \cap Range(ResponseKind) = {}
<1>1. \A c \in Range(RequestKind) : c \in 1..9
  BY DEF Range, RequestKind
<1>2. \A c \in Range(ResponseKind) : c \in 129..255
  BY DEF Range, ResponseKind
<1> QED
  BY <1>1, <1>2

(* No part of a frame and no extension of it is a frame. *)
LEMMA NoOtherLength ==
    ASSUME NEW f \in Seq(Byte), Unframe(f).ok, NEW g \in Seq(Byte), Len(g) # Len(f),
           \A i \in 1..10 : i <= Len(g) => g[i] = f[i]
    PROVE  ~Unframe(g).ok
<1> SUFFICES ASSUME Unframe(g).ok PROVE FALSE
  OBVIOUS
<1>1. Len(g) >= 10 /\ Len(g) = FrameLength(g)
  BY HeaderOf
<1>2. \A i \in 1..10 : g[i] = f[i]
  <2>1. Len(g) \in Nat
    OBVIOUS
  <2> QED
    BY <1>1, <2>1
<1>3. FrameLength(g) = Len(f)
  BY <1>1, <1>2, SameLength
<1> QED
  BY <1>1, <1>3

LEMMA NoPart ==
    ASSUME NEW f \in Seq(Byte), Unframe(f).ok, NEW n \in 0..(Len(f) - 1)
    PROVE  ~Unframe(SubSeq(f, 1, n)).ok
<1> DEFINE g == SubSeq(f, 1, n)
<1>1. g \in Seq(Byte) /\ Len(g) = n /\ \A i \in 1..n : g[i] = f[i]
  <2>1. \A i \in 1..n : f[i] \in Byte
    OBVIOUS
  <2> QED
    BY <2>1, SubSeqProperties
<1> HIDE DEF g
<1>2. Len(f) \in Nat /\ n \in Nat /\ n # Len(f)
  OBVIOUS
<1>3. \A i \in 1..10 : i <= Len(g) => g[i] = f[i]
  BY <1>1, <1>2
<1>4. ~Unframe(g).ok
  BY <1>1, <1>2, <1>3, NoOtherLength
<1> QED
  BY <1>4 DEF g

LEMMA NoExtension ==
    ASSUME NEW f \in Seq(Byte), Unframe(f).ok, NEW b \in Byte
    PROVE  ~Unframe(Append(f, b)).ok
<1> DEFINE g == Append(f, b)
<1>1. g \in Seq(Byte) /\ Len(g) = Len(f) + 1 /\ \A i \in 1..Len(f) : g[i] = f[i]
  BY AppendProperties
<1> HIDE DEF g
<1>2. Len(f) \in Nat /\ Len(f) >= 10
  BY HeaderOf
<1>3. g \in Seq(Byte) /\ Len(g) # Len(f) /\ \A i \in 1..10 : i <= Len(g) => g[i] = f[i]
  BY <1>1, <1>2
<1>4. ~Unframe(g).ok
  BY <1>3, NoOtherLength
<1> QED
  BY <1>4 DEF g

LEMMA ByteChanged ==
    ASSUME NEW f \in Seq(Byte), NEW i \in DOMAIN f, NEW b \in Byte
    PROVE  [f EXCEPT ![i] = b] \in Seq(Byte)
  BY ExceptSeq

LEMMA RequestDelimited ==
    ASSUME NEW f \in Seq(Byte), DecodeRequest(f).ok
    PROVE  Delimited(f, DecodeRequest, EncodeRequest, DecodeResponse)
<1>1. Unframe(f).ok /\ Unframe(f).value \in Range(RequestKind)
  BY RequestDecodes
<1>2. \A n \in 0..(Len(f) - 1) : ~DecodeRequest(SubSeq(f, 1, n)).ok
  BY <1>1, NoPart, RequestDecodes
<1>3. ~DecodeResponse(f).ok
  BY <1>1, ResponseDecodes, KindsApart
<1>4. \A b \in Probe : b \in Byte
  BY ContentAssumption
<1>5. \A b \in Probe : ~DecodeRequest(Append(f, b)).ok
  BY <1>1, <1>4, NoExtension, RequestDecodes
<1>6. \A b \in Probe : \A i \in DOMAIN f : RequestKept([f EXCEPT ![i] = b])
  BY <1>4, ByteChanged, RequestCanonical
<1> QED
  BY <1>2, <1>3, <1>5, <1>6, Zenon DEF Delimited, RequestKept

LEMMA ResponseDelimited ==
    ASSUME NEW f \in Seq(Byte), DecodeResponse(f).ok
    PROVE  Delimited(f, DecodeResponse, EncodeResponse, DecodeRequest)
<1>1. Unframe(f).ok /\ Unframe(f).value \in Range(ResponseKind)
  BY ResponseDecodes
<1>2. \A n \in 0..(Len(f) - 1) : ~DecodeResponse(SubSeq(f, 1, n)).ok
  BY <1>1, NoPart, ResponseDecodes
<1>3. ~DecodeRequest(f).ok
  BY <1>1, RequestDecodes, KindsApart
<1>4. \A b \in Probe : b \in Byte
  BY ContentAssumption
<1>5. \A b \in Probe : ~DecodeResponse(Append(f, b)).ok
  BY <1>1, <1>4, NoExtension, ResponseDecodes
<1>6. \A b \in Probe : \A i \in DOMAIN f : ResponseKept([f EXCEPT ![i] = b])
  BY <1>4, ByteChanged, ResponseCanonical
<1> QED
  BY <1>2, <1>3, <1>5, <1>6, Zenon DEF Delimited, ResponseKept

------------------------------------------------------------------------------
(* Requests of the client. *)

LEMMA Requested ==
    ASSUME NEW r \in ClientRequest
    PROVE  ReadBack(r)
<1>1. CASE r \in [kind : {"CREATE", "ATTACH", "DETACH"}, name : SessionNames]
  <2>1. PICK k \in {"CREATE", "ATTACH", "DETACH"}, n \in SessionNames : r = [kind |-> k, name |-> n]
    BY <1>1
  <2>2. n \in Name
    BY ContentAssumption
  <2> QED
    BY <2>1, <2>2, RequestRoundTrip, Zenon
<1>2. CASE r \in [kind : {"LIST", "SNAPSHOT"}]
  <2>1. PICK k \in {"LIST", "SNAPSHOT"} : r = [kind |-> k]
    BY <1>2
  <2> QED
    BY <2>1, RequestRoundTrip, Zenon
<1>3. CASE r \in [kind : {"PING"}, nonce : {Nonce}]
  <2>1. r = [kind |-> "PING", nonce |-> Nonce]
    BY <1>3
  <2>2. Nonce \in EightBytes
    BY DEF Nonce, EightBytes, Byte
  <2> QED
    BY <2>1, <2>2, RequestRoundTrip, Zenon
<1>4. CASE r \in [kind : {"RESIZE"}, cols : {300}, rows : {24}]
  <2>1. r = [kind |-> "RESIZE", cols |-> 300, rows |-> 24]
    BY <1>4
  <2>2. \A cols, rows \in Short : ReadBack([kind |-> "RESIZE", cols |-> cols, rows |-> rows])
    BY RequestRoundTrip, Zenon
  <2>3. 300 \in Short /\ 24 \in Short
    BY DEF Short
  <2> QED
    BY <2>1, <2>2, <2>3
<1>5. CASE r \in [kind : {"COMMAND"}, command : 1..4]
  <2>1. PICK c \in 1..4 : r = [kind |-> "COMMAND", command |-> c]
    BY <1>5
  <2>2. c \in Byte
    BY DEF Byte
  <2> QED
    BY <2>1, <2>2, RequestRoundTrip, Zenon
<1>6. CASE r \in [kind : {"INPUT"}, bytes : Seq(Byte)]
  <2>1. PICK s \in Seq(Byte) : r = [kind |-> "INPUT", bytes |-> s]
    BY <1>6
  <2> QED
    BY <2>1, RequestRoundTrip, Zenon
<1> QED
  BY <1>1, <1>2, <1>3, <1>4, <1>5, <1>6 DEF ClientRequest

(* A request on its way is a whole frame that the daemon decodes as itself. *)
LEMMA RequestSent ==
    ASSUME NEW r \in ClientRequest, EncodeRequest(r) # NoFrame
    PROVE  LET f == EncodeRequest(r)
           IN  f \in Seq(Byte) /\ Unframe(f).ok /\ DecodeRequest(f).ok /\ DecodeRequest(f).value = r
<1> DEFINE f == EncodeRequest(r)
<1>1. f \in Seq(Byte) /\ DecodeRequest(f) = Got(r, <<>>)
  BY Requested, Zenon DEF ReadBack
<1> HIDE DEF f
<1>2. DecodeRequest(f).ok /\ DecodeRequest(f).value = r
  BY <1>1, GotIsRead
<1>3. Unframe(f).ok
  BY <1>2, RequestDecodes
<1> QED
  BY <1>1, <1>2, <1>3 DEF f

LEMMA ResponseSent ==
    ASSUME NEW r, AnsweredBack(r), EncodeResponse(r) # NoFrame
    PROVE  LET f == EncodeResponse(r)
           IN  f \in Seq(Byte) /\ Unframe(f).ok /\ DecodeResponse(f).ok /\ DecodeResponse(f).value = r
<1> DEFINE f == EncodeResponse(r)
<1>1. f \in Seq(Byte) /\ DecodeResponse(f) = Got(r, <<>>)
  BY Zenon DEF AnsweredBack
<1> HIDE DEF f
<1>2. DecodeResponse(f).ok /\ DecodeResponse(f).value = r
  BY <1>1, GotIsRead
<1>3. Unframe(f).ok
  BY <1>2, ResponseDecodes
<1> QED
  BY <1>1, <1>2, <1>3 DEF f

------------------------------------------------------------------------------
(* Responses of the daemon: all can be read back, and only a screen of too  *)
(* many panes cannot be written.                                            *)

LEMMA FrameFits ==
    ASSUME NEW k \in ResponseKinds, NEW p \in Seq(Byte), HeaderBytes + Len(p) <= MaxFrameBytes
    PROVE  Frame(k, p) # NoFrame
<1> DEFINE n == Len(p)
           h == Header(Kind[k], n)
<1>1. n \in Nat /\ n \in Short /\ Kind[k] \in Byte
  <2>1. n \in Nat /\ MaxFrameBytes \in Nat /\ MaxFrameBytes <= 65535 /\ 10 + n <= MaxFrameBytes
    BY CodecAssumption DEF HeaderBytes
  <2>2. Kind[k] \in Byte
    BY ResponseCodes
  <2> HIDE DEF n
  <2> QED
    BY <2>1, <2>2 DEF Short
<1> HIDE DEF n
<1>2. h \in Seq(Byte) /\ Len(h) = 10
  BY <1>1, HeaderSequence DEF Heads
<1>3. Frame(k, p) = h \o p
  <2> HIDE DEF h
  <2>1. h = Header(Kind[k], Len(p))
    BY DEF h, n
  <2> QED
    BY <2>1, FrameOf
<1> HIDE DEF h
<1>4. Len(h \o p) = 10 + n
  <2>1. Len(h \o p) = Len(h) + Len(p)
    BY <1>2, ConcatTyped, Zenon
  <2> QED
    BY <1>2, <2>1 DEF n
<1>5. Len(NoFrame) = 0
  BY EmptyBytes DEF NoFrame
<1> QED
  BY <1>1, <1>3, <1>4, <1>5

LEMMA ListLength ==
    ASSUME NEW kind \in ItemKind, NEW items \in Seq(Item(kind)), NEW b \in Nat,
           Len(items) \in Byte, \A i \in 1..Len(items) : Len(PutItem(kind, items[i])) <= b
    PROVE  PutList(kind, items) \in Seq(Byte) /\ Len(PutList(kind, items)) <= 1 + Len(items) * b
<1> DEFINE n == Len(items)
           e == Parts(kind, items)
<1>1. /\ e \in Seq(Seq(Byte)) /\ Len(e) = n /\ n \in Nat
      /\ \A i \in 1..n : e[i] = PutItem(kind, items[i])
  BY PartsBytes
<1>2. PutList(kind, items) = <<n>> \o FlattenSeq(e)
  BY PutListParts
<1>3. \A i \in 1..n : Len(e[i]) <= b
  BY <1>1
<1> HIDE DEF e, n
<1>4. \A i \in 1..n : e[i] \in Seq(Byte)
  BY <1>1
<1>5. PICK t : Tails(e, t, n)
  BY <1>1, <1>4, TailsExist
<1>6. FlattenSeq(e) = t[0]
  BY <1>1, <1>5, FlattenTails
<1>7. t[0] \in Seq(Byte) /\ Len(t[0]) <= n * b
  BY <1>1, <1>3, <1>5, TailsLength
<1> DEFINE f == t[0]
           p == n * b
<1>8. f \in Seq(Byte) /\ Len(f) <= p /\ p \in Nat
  BY <1>1, <1>7
<1>9. PutList(kind, items) = <<n>> \o f
  BY <1>2, <1>6
<1> HIDE DEF f, p
<1>10. <<n>> \o f \in Seq(Byte) /\ Len(<<n>> \o f) = Len(<<n>>) + Len(f)
  <2>1. <<n>> \in Seq(Byte)
    BY DEF n
  <2> QED
    BY <1>8, <2>1, ConcatTyped, Zenon
<1>11. Len(<<n>> \o f) <= 1 + p
  <2>1. Len(<<n>>) = 1
    OBVIOUS
  <2> QED
    BY <1>8, <1>10, <2>1
<1> QED
  BY <1>9, <1>10, <1>11 DEF p, n

LEMMA Limits ==
    /\ MaxFrameBytes \in Nat /\ MaxErrorBytes \in Nat /\ SnapshotBytes \in Nat
    /\ MaxListedSessions \in Nat /\ MaxSnapshotPanes \in Nat /\ MaxNameBytes \in Nat
    /\ MaxListedSessions <= 255 /\ MaxSnapshotPanes <= 255 /\ SnapshotBytes <= MaxFrameBytes
<1>1. MaxFrameBytes \in Nat /\ MaxErrorBytes \in 0..MaxFrameBytes /\ SnapshotBytes \in 0..MaxFrameBytes
  BY CodecAssumption
<1>2. MaxListedSessions \in 0..255 /\ MaxSnapshotPanes \in 0..255 /\ MaxNameBytes \in 0..255
  BY CodecAssumption
<1> QED
  BY <1>1, <1>2

(* A response that is read back and always written. *)
Sure(r) == AnsweredBack(r) /\ EncodeResponse(r) # NoFrame

LEMMA NamedSure ==
    ASSUME NEW k \in {"CREATED", "ATTACHED", "DETACHED"}, NEW n \in Name
    PROVE  Sure(Named(k, n))
<1> DEFINE r == [kind |-> k, name |-> n]
<1>1. Named(k, n) = r
  BY DEF Named
<1>2. AnsweredBack(r)
  BY ResponseRoundTrip, Zenon
<1>3. EncodeResponse(r) = Frame(k, PutName(n))
  BY DEF EncodeResponse
<1>4. n \in Seq(Byte) /\ Len(n) <= MaxNameBytes /\ Len(n) \in Byte
  <2>1. n \in Seq(NameByte) /\ Len(n) \in 1..MaxNameBytes /\ NameByte \subseteq Byte
    BY DEF Name, NameByte, Byte
  <2>2. \A i \in DOMAIN n : n[i] \in Byte
    BY <2>1
  <2>3. MaxNameBytes \in 0..255
    BY CodecAssumption
  <2>4. n \in Seq(Byte)
    BY <2>1, <2>2
  <2>5. Len(n) \in 1..MaxNameBytes
    BY <2>1
  <2>6. MaxNameBytes \in Nat /\ MaxNameBytes <= 255
    BY <2>3
  <2>7. Len(n) \in Nat /\ Len(n) <= MaxNameBytes
    BY <2>5, <2>6
  <2>8. Len(n) \in Byte
    BY <2>6, <2>7, LengthByte, Zenon
  <2> QED
    BY <2>4, <2>7, <2>8
<1>5. PutName(n) \in Seq(Byte) /\ Len(PutName(n)) = 1 + Len(n)
  <2>1. <<Len(n)>> \in Seq(Byte) /\ Len(<<Len(n)>>) = 1
    BY <1>4
  <2>2. <<Len(n)>> \o n \in Seq(Byte) /\ Len(<<Len(n)>> \o n) = Len(<<Len(n)>>) + Len(n)
    BY <1>4, <2>1, ConcatTyped, Zenon
  <2> QED
    BY <2>1, <2>2 DEF PutName
<1>6. HeaderBytes + Len(PutName(n)) <= MaxFrameBytes
  <2>1. HeaderBytes + 1 + MaxNameBytes <= MaxFrameBytes
    BY FrameAssumption
  <2> QED
    BY <1>4, <1>5, <2>1, Limits DEF HeaderBytes
<1>7. k \in ResponseKinds
  BY DEF ResponseKinds
<1>8. Frame(k, PutName(n)) # NoFrame
  BY <1>5, <1>6, <1>7, FrameFits
<1> QED
  BY <1>1, <1>2, <1>3, <1>8, Zenon DEF Sure

LEMMA PongSure == Sure([kind |-> "PONG", nonce |-> Nonce])
<1> DEFINE r == [kind |-> "PONG", nonce |-> Nonce]
<1>1. Nonce \in EightBytes /\ Nonce \in Seq(Byte) /\ Len(Nonce) = 8
  BY DEF Nonce, EightBytes, Byte
<1>2. AnsweredBack(r)
  BY <1>1, ResponseRoundTrip, Zenon
<1>3. EncodeResponse(r) = Frame("PONG", Nonce)
  BY DEF EncodeResponse
<1>4. HeaderBytes + Len(Nonce) <= MaxFrameBytes
  <2>1. HeaderBytes + 8 <= MaxFrameBytes
    BY FrameAssumption
  <2> QED
    BY <1>1, <2>1
<1>5. "PONG" \in ResponseKinds
  BY DEF ResponseKinds
<1>6. Frame("PONG", Nonce) # NoFrame
  BY <1>1, <1>4, <1>5, FrameFits
<1> QED
  BY <1>2, <1>3, <1>6, Zenon DEF Sure

LEMMA FailureSure ==
    ASSUME NEW c \in ErrorCode, NEW t \in Text
    PROVE  Sure(Failure(c, t))
<1> DEFINE s == BoundedMessage(t)
           r == [kind |-> "ERROR", code |-> c, message |-> s]
           p == <<c>> \o PutBytes(s)
<1>1. Failure(c, t) = r
  BY DEF Failure
<1>2. t \in Seq(Byte) /\ Utf8(t)
  BY ContentAssumption
<1>3. s \in Seq(Byte) /\ Utf8(s) /\ Len(s) <= MaxErrorBytes
  BY <1>2, BoundedCuts DEF Cut
<1> HIDE DEF s
<1>4. AnsweredBack(r)
  <2>1. s \in Message
    BY <1>3 DEF Message
  <2> QED
    BY <2>1, ResponseRoundTrip, Zenon
<1>5. EncodeResponse(r) = Frame("ERROR", p)
  <2>1. ~(Len(s) > MaxErrorBytes)
    BY <1>3, Limits
  <2>2. EncodeResponse(r) = IF Len(s) > MaxErrorBytes THEN NoFrame ELSE Frame("ERROR", p)
    BY DEF EncodeResponse
  <2> QED
    BY <2>1, <2>2, Zenon
<1>6. p \in Seq(Byte) /\ Len(p) = 3 + Len(s)
  <2>1. Len(s) \in Short
    BY <1>3, NoLongerThanShort
  <2>2. Word16(Len(s)) \in Seq(Byte) /\ Len(Word16(Len(s))) = 2
    BY <2>1, WordTyped
  <2>3. PutBytes(s) \in Seq(Byte) /\ Len(PutBytes(s)) = Len(Word16(Len(s))) + Len(s)
    BY <1>3, <2>2, ConcatTyped, Zenon DEF PutBytes
  <2>4. <<c>> \in Seq(Byte) /\ Len(<<c>>) = 1
    BY DEF ErrorCode, Byte
  <2>5. p \in Seq(Byte) /\ Len(p) = Len(<<c>>) + Len(PutBytes(s))
    BY <2>3, <2>4, ConcatTyped, Zenon
  <2> HIDE DEF p
  <2> QED
    BY <1>3, <2>2, <2>3, <2>4, <2>5
<1> HIDE DEF p, r
<1>7. HeaderBytes + Len(p) <= MaxFrameBytes
  <2>1. HeaderBytes + 3 + MaxErrorBytes <= MaxFrameBytes
    BY FrameAssumption
  <2> QED
    BY <1>3, <1>6, <2>1, Limits DEF HeaderBytes
<1>8. "ERROR" \in ResponseKinds
  BY DEF ResponseKinds
<1>9. Frame("ERROR", p) # NoFrame
  BY <1>6, <1>7, <1>8, FrameFits
<1> QED
  BY <1>1, <1>4, <1>5, <1>9, Zenon DEF Sure

LEMMA ListsAll ==
    ASSUME NEW S, IsFiniteSet(S)
    PROVE  SetToSeq(S) \in [1..Cardinality(S) -> S] /\ Cardinality(S) \in Nat
<1> DEFINE D == 1..Cardinality(S)
<1>1. Cardinality(S) \in Nat /\ ExistsBijection(D, S)
  BY FS_CardinalityType
<1>2. \E f \in [D -> S] : IsInjective(f)
  BY <1>1 DEF ExistsBijection, Bijection, Injection
<1>3. SetToSeq(S) = CHOOSE f \in [D -> S] : IsInjective(f)
  BY Zenon DEF SetToSeq
<1> HIDE DEF D
<1>4. SetToSeq(S) \in [D -> S]
  BY <1>2, <1>3
<1> QED
  BY <1>1, <1>4 DEF D

(* Products of limits. *)
LEMMA MoreOfThem ==
    ASSUME NEW n \in Nat, NEW m \in Nat, n <= m, NEW b \in Nat
    PROVE  n * b <= b * m /\ n * b \in Nat
  OBVIOUS

LEMMA Shares ==
    ASSUME NEW s \in Nat, NEW n \in Nat \ {0}, NEW a \in Nat, NEW m \in Nat, n <= m
    PROVE  /\ s \div n \in Nat /\ s \div n <= s
           /\ n * (a + s \div n) <= a * m + s
<1> DEFINE q == s \div n
<1>1. q \in Nat /\ q <= s /\ n * q <= s
  OBVIOUS
<1> HIDE DEF q
<1>2. n * (a + q) = n * a + n * q
  BY <1>1
<1>3. n * a <= a * m
  BY MoreOfThem
<1> DEFINE x == n * a
           y == n * q
           z == a * m
<1>4. x \in Nat /\ y \in Nat /\ z \in Nat /\ x <= z /\ y <= s
  BY <1>1, <1>3
<1>5. n * (a + q) = x + y
  BY <1>2
<1> HIDE DEF x, y, z
<1>6. n * (a + q) <= z + s
  BY <1>4, <1>5
<1> QED
  BY <1>1, <1>6 DEF q, z

LEMMA ListingSure ==
    ASSUME IsFiniteSet(hosted), hosted \subseteq Name, Cardinality(hosted) <= MaxListedSessions,
           NEW attached \in [hosted -> {0, 1}]
    PROVE  Sure([kind |-> "SESSIONS", sessions |-> Listed(attached)])
<1> DEFINE o == SetToSeq(hosted)
           s == [i \in DOMAIN o |-> [name |-> o[i], attached_clients |-> attached[o[i]]]]
           r == [kind |-> "SESSIONS", sessions |-> s]
           n == Cardinality(hosted)
           p == PutList("session", s)
<1>1. Listed(attached) = s
  BY DEF Listed
<1>2. o \in [1..n -> hosted] /\ n \in Nat
  BY ListsAll
<1> HIDE DEF o
<1>3. s \in Seq(Session) /\ Len(s) = n
  <2>1. \A i \in 1..n : s[i] \in Session
    <3> SUFFICES ASSUME NEW i \in 1..n PROVE s[i] \in Session
      OBVIOUS
    <3>1. o[i] \in Name /\ attached[o[i]] \in Short
      BY <1>2 DEF Short
    <3>2. s[i] = [name |-> o[i], attached_clients |-> attached[o[i]]]
      BY <1>2
    <3> QED
      BY <3>1, <3>2 DEF Session
  <2>2. s \in [1..n -> Session]
    BY <1>2, <2>1
  <2> HIDE DEF s
  <2>3. s \in Seq(Session)
    BY <1>2, <2>2
  <2> QED
    BY <1>2, <2>2, <2>3
<1> HIDE DEF s, n
<1>4. AnsweredBack(r)
  BY <1>3, ResponseRoundTrip, Zenon
<1>5. n \in Nat /\ n <= MaxListedSessions
  BY <1>2 DEF n
<1>6. EncodeResponse(r) = Frame("SESSIONS", p)
  <2>1. ~(Len(s) > MaxListedSessions)
    BY <1>3, <1>5, Limits
  <2>2. EncodeResponse(r) = IF Len(s) > MaxListedSessions THEN NoFrame
                            ELSE Frame("SESSIONS", PutAll(s, PutSession))
    BY DEF EncodeResponse
  <2>3. PutAll(s, PutSession) = p
    BY DEF PutList
  <2> QED
    BY <2>1, <2>2, <2>3, Zenon
<1> DEFINE b == MaxNameBytes + 3
<1>7. p \in Seq(Byte) /\ Len(p) <= 1 + n * b
  <2>1. "session" \in ItemKind /\ Item("session") = Session /\ b \in Nat
    BY Limits DEF ItemKind, Item
  <2>2. n \in Byte
    BY <1>5, Limits DEF Byte
  <2>3. \A i \in 1..Len(s) : Len(PutItem("session", s[i])) <= b
    BY <1>3, SessionBytes DEF PutItem
  <2> HIDE DEF b
  <2> QED
    BY <1>3, <2>1, <2>2, <2>3, ListLength
<1>8. b \in Nat
  BY Limits
<1>9. HeaderBytes + 1 + b * MaxListedSessions <= MaxFrameBytes
  BY FrameAssumption
<1> HIDE DEF b, p, r
<1>10. HeaderBytes + Len(p) <= MaxFrameBytes
  <2>1. n * b <= b * MaxListedSessions
    BY <1>5, <1>8, Limits, MoreOfThem
  <2> DEFINE x == n * b
             y == b * MaxListedSessions
  <2>2. x \in Nat /\ y \in Nat /\ x <= y /\ HeaderBytes + 1 + y <= MaxFrameBytes /\ Len(p) <= 1 + x
    BY <1>5, <1>7, <1>8, <1>9, <2>1, Limits, MoreOfThem
  <2>3. Len(p) \in Nat /\ HeaderBytes \in Nat
    BY <1>7 DEF HeaderBytes
  <2> HIDE DEF x, y
  <2> QED
    BY <2>2, <2>3, Limits
<1>11. "SESSIONS" \in ResponseKinds
  BY DEF ResponseKinds
<1>12. Frame("SESSIONS", p) # NoFrame
  BY <1>7, <1>10, <1>11, FrameFits
<1> QED
  BY <1>1, <1>4, <1>6, <1>12, Zenon DEF Sure, r

LEMMA SnapshotPane ==
    ASSUME NEW i \in Byte, NEW f \in BOOLEAN, NEW s \in TextUpTo(MaxFrameBytes)
    PROVE  [id |-> <<0, 0, 0, 0, 0, 0, 0, i>>, x |-> 0, y |-> 0, width |-> 300, height |-> 23,
            focused |-> f, text |-> s] \in Pane
<1> DEFINE id == <<0, 0, 0, 0, 0, 0, 0, i>>
<1>1. 0 \in Short /\ 300 \in Short /\ 23 \in Short /\ 0 \in Byte
  BY DEF Short, Byte
<1>2. id \in Seq(Byte) /\ Len(id) = 8
  BY <1>1
<1>3. id \in EightBytes
  BY <1>2 DEF EightBytes
<1> HIDE DEF id
<1>4. [id |-> id, x |-> 0, y |-> 0, width |-> 300, height |-> 23, focused |-> f, text |-> s] \in Pane
  BY <1>1, <1>3 DEF Pane
<1> QED
  BY <1>4 DEF id

(* HostedSession::snapshot: the texts share the allowance, so that a screen *)
(* of no more panes than the limit always fits its frame.                   *)
LEMMA SnapshotSure ==
    ASSUME NEW shown \in Seq(Text), Len(shown) # 0
    PROVE  /\ AnsweredBack(Snapshot(shown))
           /\ EncodeResponse(Snapshot(shown)) = NoFrame => Len(shown) > MaxSnapshotPanes
<1> DEFINE n == Len(shown)
           share == SnapshotBytes \div n
           s == [i \in DOMAIN shown |->
                   [id |-> <<0, 0, 0, 0, 0, 0, 0, i>>, x |-> 0, y |-> 0, width |-> 300, height |-> 23,
                    focused |-> i = 1, text |-> PaneText(i, shown)]]
           r == [kind |-> "SCREEN", panes |-> s]
           p == PutList("pane", s)
<1>1. Snapshot(shown) = r
  BY DEF Snapshot
<1>2. n \in Nat \ {0} /\ DOMAIN shown = 1..n
  OBVIOUS
<1>3. DOMAIN s = 1..n /\ \A i \in 1..n :
        s[i] = [id |-> <<0, 0, 0, 0, 0, 0, 0, i>>, x |-> 0, y |-> 0, width |-> 300, height |-> 23,
                focused |-> i = 1, text |-> PaneText(i, shown)]
  BY <1>2
<1>4. share \in Nat /\ share <= SnapshotBytes
  <2> HIDE DEF n
  <2> QED
    BY <1>2, Limits, Shares
<1>5. \A i \in 1..n : /\ PaneText(i, shown) \in TextUpTo(MaxFrameBytes)
                      /\ Len(PaneText(i, shown)) <= share
  <2> SUFFICES ASSUME NEW i \in 1..n
               PROVE  /\ PaneText(i, shown) \in TextUpTo(MaxFrameBytes)
                      /\ Len(PaneText(i, shown)) <= share
    OBVIOUS
  <2> DEFINE t == shown[i]
             c == TruncateUtf8(t, share)
  <2>1. t \in Text
    BY <1>2
  <2>2. PaneText(i, shown) = c
    BY DEF PaneText
  <2> HIDE DEF t, share, n
  <2>3. t \in Seq(Byte) /\ Utf8(t)
    BY <2>1, ContentAssumption
  <2>4. c \in Seq(Byte) /\ Utf8(c) /\ Len(c) <= share
    BY <1>4, <2>3, TruncateCuts DEF Cut
  <2> HIDE DEF c
  <2>5. Len(c) <= MaxFrameBytes
    BY <1>4, <2>4, Limits
  <2> QED
    BY <2>2, <2>4, <2>5 DEF TextUpTo
<1> HIDE DEF s, n, share
<1>6. CASE n > MaxSnapshotPanes
  <2>1. Len(s) = n
    <3>1. n \in Nat
      BY <1>2
    <3> DEFINE S == {s[i] : i \in 1..n}
    <3>2. s = [i \in 1..n |-> s[i]]
      BY <1>2, <1>3 DEF s
    <3>3. \A i \in 1..n : s[i] \in S
      OBVIOUS
    <3> HIDE DEF S
    <3>4. s \in [1..n -> S]
      BY <3>2, <3>3
    <3>5. s \in Seq(S)
      BY <3>1, <3>4
    <3> QED
      BY <1>3, <3>1, <3>5
  <2>2. EncodeResponse(r) = NoFrame
    <3>1. EncodeResponse(r) = IF Len(s) > MaxSnapshotPanes THEN NoFrame
                              ELSE Frame("SCREEN", PutAll(s, PutPane))
      BY DEF EncodeResponse
    <3> QED
      BY <1>6, <2>1, <3>1, Zenon
  <2> HIDE DEF r
  <2> QED
    BY <1>1, <1>6, <2>2, Zenon DEF AnsweredBack, n
<1>7. CASE ~(n > MaxSnapshotPanes)
  <2>1. n \in Nat /\ n <= MaxSnapshotPanes
    BY <1>2, <1>7, Limits
  <2>2. \A i \in 1..n : s[i] \in Pane /\ s[i].text = PaneText(i, shown)
    <3> SUFFICES ASSUME NEW i \in 1..n PROVE s[i] \in Pane /\ s[i].text = PaneText(i, shown)
      OBVIOUS
    <3>1. i \in Byte
      BY <2>1, Limits DEF Byte
    <3> DEFINE f == (i = 1)
               t == PaneText(i, shown)
               q == [id |-> <<0, 0, 0, 0, 0, 0, 0, i>>, x |-> 0, y |-> 0, width |-> 300, height |-> 23,
                     focused |-> f, text |-> t]
    <3>2. f \in BOOLEAN /\ t \in TextUpTo(MaxFrameBytes)
      BY <1>5
    <3>3. s[i] = q
      BY <1>3
    <3> HIDE DEF f, t
    <3>4. q \in Pane /\ q.text = t
      BY <3>1, <3>2, SnapshotPane
    <3> HIDE DEF q
    <3> QED
      BY <3>3, <3>4 DEF t
  <2>3. s \in Seq(Pane) /\ Len(s) = n
    <3>1. s \in [1..n -> Pane]
      <4>1. s = [i \in 1..n |-> s[i]]
        BY <1>2, <1>3 DEF s
      <4> QED
        BY <2>2, <4>1
    <3>2. s \in Seq(Pane)
      BY <2>1, <3>1
    <3> QED
      BY <1>3, <2>1, <3>2
  <2>4. AnsweredBack(r)
    BY <2>3, ResponseRoundTrip, Zenon
  <2>5. EncodeResponse(r) = Frame("SCREEN", p)
    <3>1. EncodeResponse(r) = IF Len(s) > MaxSnapshotPanes THEN NoFrame
                              ELSE Frame("SCREEN", PutAll(s, PutPane))
      BY DEF EncodeResponse
    <3>2. PutAll(s, PutPane) = p
      BY DEF PutList
    <3> QED
      BY <1>7, <2>3, <3>1, <3>2, Zenon
  <2> DEFINE b == PaneBytes + share
  <2>6. p \in Seq(Byte) /\ Len(p) <= 1 + n * b
    <3>1. "pane" \in ItemKind /\ Item("pane") = Pane /\ b \in Nat
      BY <1>4 DEF ItemKind, Item, PaneBytes
    <3>2. n \in Byte
      BY <2>1, Limits DEF Byte
    <3>3. \A i \in 1..n : Len(PutItem("pane", s[i])) <= b
      <4> SUFFICES ASSUME NEW i \in 1..n PROVE Len(PutItem("pane", s[i])) <= b
        OBVIOUS
      <4>1. PutItem("pane", s[i]) = PutPane(s[i])
        BY DEF PutItem
      <4>2. Len(PutPane(s[i])) = PaneBytes + Len(s[i].text)
        BY <2>2, PaneLength
      <4>3. Len(s[i].text) <= share /\ Len(s[i].text) \in Nat
        BY <1>5, <2>2 DEF TextUpTo
      <4> QED
        BY <1>4, <4>1, <4>2, <4>3 DEF PaneBytes
    <3> HIDE DEF b
    <3> QED
      BY <2>3, <3>1, <3>2, <3>3, ListLength
  <2>7. n * b <= PaneBytes * MaxSnapshotPanes + SnapshotBytes /\ b \in Nat
    <3>1. PaneBytes \in Nat /\ n \in Nat \ {0} /\ n <= MaxSnapshotPanes
      BY <1>2, <2>1 DEF PaneBytes
    <3> QED
      BY <1>4, <3>1, Limits, Shares DEF share
  <2>8. HeaderBytes + 1 + PaneBytes * MaxSnapshotPanes + SnapshotBytes <= MaxFrameBytes
    BY FrameAssumption
  <2>9. HeaderBytes + Len(p) <= MaxFrameBytes
    <3> DEFINE x == n * b
               y == PaneBytes * MaxSnapshotPanes
    <3>1. x \in Nat /\ y \in Nat
      BY <2>1, <2>7, Limits, MoreOfThem DEF PaneBytes
    <3>2. /\ x <= y + SnapshotBytes
          /\ HeaderBytes + 1 + y + SnapshotBytes <= MaxFrameBytes
          /\ Len(p) <= 1 + x
      BY <2>6, <2>7, <2>8
    <3>3. Len(p) \in Nat /\ HeaderBytes \in Nat
      BY <2>6 DEF HeaderBytes
    <3> HIDE DEF x, y, p, b, HeaderBytes
    <3> QED
      BY <3>1, <3>2, <3>3, Limits
  <2>10. "SCREEN" \in ResponseKinds
    BY DEF ResponseKinds
  <2>11. Frame("SCREEN", p) # NoFrame
    <3> HIDE DEF p
    <3> QED
      BY <2>6, <2>9, <2>10, FrameFits
  <2> HIDE DEF r, p
  <2> QED
    BY <1>1, <2>4, <2>5, <2>11, Zenon
<1> QED
  BY <1>6, <1>7

------------------------------------------------------------------------------
(* The exchanges are kept. *)

LEMMA FrameNotEmpty ==
    ASSUME NEW pipe, NEW f, Carrying(pipe, f)
    PROVE  f # NoFrame
<1>1. f \in Seq(Byte) /\ Unframe(f).ok
  BY Zenon DEF Carrying
<1>2. Len(f) >= 10
  BY <1>1, HeaderOf
<1>3. Len(NoFrame) = 0
  BY EmptyBytes DEF NoFrame
<1> QED
  BY <1>2, <1>3

LEMMA RequestFields ==
    ASSUME NEW r \in ClientRequest
    PROVE  /\ r.kind \in {"CREATE", "ATTACH", "DETACH"} => r.name \in SessionNames /\ r.name \in Name
           /\ r.kind = "PING" => r.nonce = Nonce
           /\ r.kind = "COMMAND" => r.command \in 1..4
<1>1. SessionNames \subseteq Name
  BY ContentAssumption
<1> QED
  BY <1>1 DEF ClientRequest

LEMMA InitExchange == Init => Exchange
<1> SUFFICES ASSUME Init PROVE Exchange
  OBVIOUS
<1>1. /\ up = Pipe /\ down = Pipe /\ dpc = "none" /\ why = "" /\ name \in SessionNames
      /\ asked \in FirstRequests /\ hosted \in Table /\ \E t \in Text : texts = <<t>>
      /\ pc = "load" \/ pc = "connect"
  BY DEF Init
<1>2. IsFiniteSet(hosted) /\ hosted \subseteq Name /\ Cardinality(hosted) <= MaxListedSessions
  BY <1>1, ContentAssumption
<1>3. texts \in Seq(Text) /\ Len(texts) \in 1..MaxPanes
  <2>1. MaxPanes \in Nat \ {0}
    BY ClientAssumption
  <2>2. PICK t \in Text : texts = <<t>>
    BY <1>1
  <2>3. <<t>> \in Seq(Text) /\ Len(<<t>>) = 1
    OBVIOUS
  <2> QED
    BY <2>1, <2>2, <2>3
<1> QED
  BY <1>1, <1>2, <1>3
  DEF Exchange, Asked, Executed, Executing, Responded, Answered, Starting, Dropped, Contents

(* Steps of the client that leave the connection alone. *)
LEMMA ClientAlone ==
    ASSUME Exchange, UNCHANGED <<name, asked, answer, up, down, daemon>>,
           ~Waiting, pc' \in {"draw", "poll", "route"} => pc \in {"draw", "poll", "route"},
           pc' \in {"load", "loaded", "connect"} => pc \in {"load", "loaded", "connect"}
    PROVE  Exchange'
<1>1. UNCHANGED <<dpc, why, request, reply, hosted, texts>>
  BY DEF daemon
<1>2. up = Pipe /\ down = Pipe /\ ~Executing
  BY DEF Exchange, Asked, Executed, Responded
<1>3. Asked' /\ Executed' /\ Responded'
  BY <1>1, <1>2 DEF Asked, Executed, Responded, Executing
<1>4. Answered' /\ Starting'
  BY <1>1 DEF Exchange, Answered, Starting, FirstRequests
<1>5. Dropped' /\ Contents'
  BY <1>1 DEF Exchange, Dropped, Contents
<1> QED
  BY <1>3, <1>4, <1>5 DEF Exchange

LEMMA ClientWrites ==
    ASSUME Exchange, NEW r \in ClientRequest, Write(r), ~Waiting,
           r.kind = "COMMAND" => r.command > 2 \/ Len(texts) < MaxPanes,
           UNCHANGED <<name, down, why, request, reply, hosted, texts>>,
           dpc' = dpc \/ (dpc = "none" /\ dpc' = "first")
    PROVE  Exchange'
<1>1. asked' = r /\ up' = [up EXCEPT !.unsent = EncodeRequest(r)] /\ pc' = "await"
  BY DEF Write
<1>2. up = Pipe /\ down = Pipe /\ ~Executing
  BY DEF Exchange, Asked, Executed, Responded
<1>3. up' = Pipe \/ Carrying(up', EncodeRequest(asked'))
  <2> DEFINE f == EncodeRequest(r)
  <2>1. up' = [Pipe EXCEPT !.unsent = f]
    BY <1>1, <1>2
  <2>2. CASE f = NoFrame
    <3> HIDE DEF f
    <3> QED
      BY <2>1, <2>2, NothingArrives DEF NoFrame
  <2>3. CASE f # NoFrame
    <3>1. f \in Seq(Byte) /\ Unframe(f).ok
      BY <2>3, RequestSent
    <3>2. Carrying([Pipe EXCEPT !.unsent = f], f)
      <4> HIDE DEF f
      <4> QED
        BY <3>1, Departs
    <3> QED
      BY <1>1, <2>1, <3>2
  <2> QED
    BY <2>2, <2>3
<1>4. ~Executing' /\ Waiting'
  BY <1>1, <1>2 DEF Executing, Waiting
<1>5. Fitting'
  BY <1>1 DEF Fitting
<1>6. Asked' /\ Executed' /\ Responded'
  BY <1>1, <1>2, <1>3, <1>4, <1>5, Zenon DEF Asked, Executed, Responded
<1>7. Answered' /\ Starting'
  BY <1>1 DEF Answered, Starting
<1>8. Dropped' /\ Contents'
  BY DEF Exchange, Dropped, Contents
<1> QED
  BY <1>6, <1>7, <1>8 DEF Exchange

LEMMA ReceiveExchange == Exchange /\ Receive => Exchange'
<1> SUFFICES ASSUME Exchange, Receive PROVE Exchange'
  OBVIOUS
<1> DEFINE f == ReadFrame(down)
<1>1. /\ pc = "await" /\ FrameArrived(down) /\ down' = AfterFrame(down)
      /\ UNCHANGED <<name, up, dpc, why, request, reply, hosted, texts>>
      /\ IF DecodeResponse(f).ok
           THEN answer' = DecodeResponse(f).value /\ pc' = AfterResponse(DecodeResponse(f).value)
           ELSE pc' = "failed"
  BY DEF Receive, local, daemon
<1>2. down # Pipe
  BY <1>1, NothingArrives
<1>3. /\ Carrying(down, EncodeResponse(reply)) /\ AnsweredBack(reply) /\ ~Executing /\ up = Pipe
  BY <1>2 DEF Exchange, Responded, Asked
<1>4. f = EncodeResponse(reply) /\ down' = Pipe
  BY <1>1, <1>3, Arrives
<1>5. DecodeResponse(f).ok /\ DecodeResponse(f).value = reply
  <2>1. EncodeResponse(reply) # NoFrame
    BY <1>3, FrameNotEmpty
  <2> QED
    BY <1>3, <1>4, <2>1, ResponseSent
<1> HIDE DEF f
<1>6. answer' = reply' /\ pc' = AfterResponse(reply)
  BY <1>1, <1>5
<1>7. pc' \in {"failed", "enter", "left", "draw", "route"}
  BY <1>6 DEF AfterResponse
<1>8. Asked' /\ Executed' /\ Responded'
  BY <1>1, <1>3, <1>4 DEF Asked, Executed, Responded, Executing
<1>9. Answered' /\ Starting'
  BY <1>6, <1>7 DEF Answered, Starting
<1>10. Dropped' /\ Contents'
  BY <1>1 DEF Exchange, Dropped, Contents
<1> QED
  BY <1>8, <1>9, <1>10 DEF Exchange

LEMMA FailsExchange == Exchange /\ ClientFails => Exchange'
<1> SUFFICES ASSUME Exchange, ClientFails PROVE Exchange'
  OBVIOUS
<1>1. /\ pc' = "failed" /\ up' = [up EXCEPT !.unsent = <<>>]
      /\ UNCHANGED <<name, asked, answer, down, dpc, why, request, reply, hosted, texts>>
  BY DEF ClientFails, local, daemon
<1>2. up' = Pipe \/ (up # Pipe /\ Carrying(up', EncodeRequest(asked)))
  <2>1. CASE up = Pipe
    BY <1>1, <2>1, NothingArrives
  <2>2. CASE up # Pipe
    <3>1. Carrying(up, EncodeRequest(asked))
      BY <2>2 DEF Exchange, Asked
    <3> QED
      BY <1>1, <2>2, <3>1, IsCut
  <2> QED
    BY <2>1, <2>2
<1>3. Waiting' /\ (Executing' <=> Executing) /\ (Fitting' <=> Fitting)
  BY <1>1 DEF Waiting, Executing, Fitting
<1>4. Asked' /\ Executed' /\ Responded'
  BY <1>1, <1>2, <1>3 DEF Exchange, Asked, Executed, Responded
<1>5. Answered' /\ Starting'
  BY <1>1 DEF Answered, Starting
<1>6. Dropped' /\ Contents'
  BY <1>1 DEF Exchange, Dropped, Contents
<1> QED
  BY <1>4, <1>5, <1>6 DEF Exchange

LEMMA StillExchange ==
    ASSUME Exchange, UNCHANGED <<pc, name, asked, answer, up, down, daemon>>
    PROVE  Exchange'
<1>1. UNCHANGED <<dpc, why, request, reply, hosted, texts>>
  BY DEF daemon
<1>2. (Waiting' <=> Waiting) /\ (Executing' <=> Executing) /\ (Fitting' <=> Fitting)
  BY <1>1 DEF Waiting, Executing, Fitting
<1>3. Asked' /\ Executed' /\ Responded'
  BY <1>1, <1>2 DEF Exchange, Asked, Executed, Responded
<1>4. Answered' /\ Starting'
  BY <1>1 DEF Exchange, Answered, Starting, FirstRequests
<1>5. Dropped' /\ Contents'
  BY <1>1 DEF Exchange, Dropped, Contents
<1> QED
  BY <1>3, <1>4, <1>5 DEF Exchange

LEMMA CarryExchange == Exchange /\ Carry => Exchange'
<1> SUFFICES ASSUME Exchange, Carry PROVE Exchange'
  OBVIOUS
<1>1. UNCHANGED <<pc, name, asked, answer, dpc, why, request, reply, hosted, texts>>
  BY DEF Carry, client, daemon, local
<1>2. (Waiting' <=> Waiting) /\ (Executing' <=> Executing) /\ (Fitting' <=> Fitting)
  BY <1>1 DEF Waiting, Executing, Fitting
<1>3. ASSUME \E n \in Pieces(up) : up' = Carried(up, n) /\ UNCHANGED down
      PROVE  Asked' /\ Executed' /\ Responded'
  <2>1. PICK n \in Pieces(up) : up' = Carried(up, n) /\ UNCHANGED down
    BY <1>3
  <2>2. up # Pipe
    BY <2>1, NothingArrives
  <2>3. Carrying(up, EncodeRequest(asked))
    BY <2>2 DEF Exchange, Asked
  <2>4. Carrying(up', EncodeRequest(asked'))
    BY <1>1, <2>1, <2>3, Travels
  <2>5. Asked' /\ Executed' /\ Responded'
    BY <1>1, <1>2, <2>1, <2>2, <2>4 DEF Exchange, Asked, Executed, Responded
  <2> QED
    BY <2>5
<1>4. ASSUME \E n \in Pieces(down) : down' = Carried(down, n) /\ UNCHANGED up
      PROVE  Asked' /\ Executed' /\ Responded'
  <2>1. PICK n \in Pieces(down) : down' = Carried(down, n) /\ UNCHANGED up
    BY <1>4
  <2>2. down # Pipe
    BY <2>1, NothingArrives
  <2>3. Carrying(down, EncodeResponse(reply))
    BY <2>2 DEF Exchange, Responded
  <2>4. Carrying(down', EncodeResponse(reply'))
    BY <1>1, <2>1, <2>3, Travels
  <2>5. Asked' /\ Executed' /\ Responded'
    BY <1>1, <1>2, <2>1, <2>2, <2>4 DEF Exchange, Asked, Executed, Responded
  <2> QED
    BY <2>5
<1>5. Asked' /\ Executed' /\ Responded'
  BY <1>3, <1>4 DEF Carry
<1>6. Answered' /\ Starting'
  BY <1>1 DEF Exchange, Answered, Starting, FirstRequests
<1>7. Dropped' /\ Contents'
  BY <1>1 DEF Exchange, Dropped, Contents
<1> QED
  BY <1>5, <1>6, <1>7 DEF Exchange

------------------------------------------------------------------------------
(* The daemon. *)

LEMMA DropExchange ==
    ASSUME Exchange, NEW reason \in {"eof", "timeout", "runtime"}, Drop(reason), dpc # "none",
           UNCHANGED <<client, up, hosted, texts>>
    PROVE  Exchange'
<1>1. /\ dpc' = "gone" /\ why' = reason /\ down' = [down EXCEPT !.unsent = <<>>]
      /\ UNCHANGED <<pc, name, asked, answer, up, reply, hosted, texts>>
  BY DEF Drop, client, local
<1>2. down' = Pipe \/ (down # Pipe /\ Carrying(down', EncodeResponse(reply)))
  <2>1. CASE down = Pipe
    BY <1>1, <2>1, NothingArrives
  <2>2. CASE down # Pipe
    <3>1. Carrying(down, EncodeResponse(reply))
      BY <2>2 DEF Exchange, Responded
    <3> QED
      BY <1>1, <2>2, <3>1, IsCut
  <2> QED
    BY <2>1, <2>2
<1>3. (Waiting' <=> Waiting) /\ ~Executing' /\ (Fitting' <=> Fitting)
  BY <1>1 DEF Waiting, Executing, Fitting
<1>4. down = Pipe => down' = Pipe
  BY <1>1, NothingArrives
<1>5. Asked' /\ Executed' /\ Responded'
  BY <1>1, <1>2, <1>3, <1>4 DEF Exchange, Asked, Executed, Responded
<1>6. Answered' /\ Starting'
  BY <1>1 DEF Exchange, Answered, Starting, FirstRequests
<1>7. Dropped' /\ Contents'
  BY <1>1 DEF Exchange, Dropped, Contents
<1> QED
  BY <1>5, <1>6, <1>7 DEF Exchange

LEMMA WrittenExchange == Exchange /\ Written => Exchange'
<1> SUFFICES ASSUME Exchange, Written PROVE Exchange'
  OBVIOUS
<1>1. /\ dpc \in Writing /\ UNCHANGED <<pc, name, asked, answer, up, down, reply, hosted, texts>>
      /\ (dpc' = "gone" /\ why' = "done") \/ (dpc' = "loop" /\ why' = why)
  BY DEF Written, client, local
<1>2. (Waiting' <=> Waiting) /\ ~Executing' /\ (Fitting' <=> Fitting)
  BY <1>1 DEF Waiting, Executing, Fitting
<1>3. Asked' /\ Executed' /\ Responded'
  BY <1>1, <1>2 DEF Exchange, Asked, Executed, Responded
<1>4. Answered' /\ Starting'
  BY <1>1 DEF Exchange, Answered, Starting, FirstRequests, Writing
<1>5. Dropped' /\ Contents'
  BY <1>1 DEF Exchange, Dropped, Contents, Writing
<1> QED
  BY <1>3, <1>4, <1>5 DEF Exchange

LEMMA ReadExchange == Exchange /\ ReadRequest => Exchange'
<1> SUFFICES ASSUME Exchange, ReadRequest PROVE Exchange'
  OBVIOUS
<1> DEFINE f == ReadFrame(up)
<1>1. /\ dpc \in Reading /\ FrameArrived(up) /\ up' = AfterFrame(up)
      /\ UNCHANGED <<pc, name, asked, answer, hosted, texts>>
      /\ DecodeRequest(f).ok =>
           /\ request' = DecodeRequest(f).value
           /\ dpc' \in {"dispatch", "serve"}
           /\ UNCHANGED <<why, down, reply>>
  BY DEF ReadRequest, client, local
<1>2. up # Pipe
  BY <1>1, NothingArrives
<1>3. /\ Carrying(up, EncodeRequest(asked)) /\ asked \in ClientRequest /\ Fitting
      /\ Waiting /\ ~Executing /\ down = Pipe
  BY <1>2 DEF Exchange, Asked
<1>4. f = EncodeRequest(asked) /\ up' = Pipe
  BY <1>1, <1>3, Arrives
<1>5. DecodeRequest(f).ok /\ DecodeRequest(f).value = asked
  <2>1. EncodeRequest(asked) # NoFrame
    BY <1>3, FrameNotEmpty
  <2> QED
    BY <1>3, <1>4, <2>1, RequestSent
<1> HIDE DEF f
<1>6. request' = asked /\ dpc' \in {"dispatch", "serve"} /\ UNCHANGED <<why, down, reply>>
  BY <1>1, <1>5
<1>7. Waiting' /\ Fitting'
  BY <1>1, <1>3 DEF Waiting, Fitting
<1>8. Asked' /\ Executed' /\ Responded'
  BY <1>1, <1>3, <1>4, <1>6, <1>7 DEF Asked, Executed, Responded
<1>9. Answered' /\ Starting'
  BY <1>1, <1>3 DEF Answered, Starting, Waiting
<1>10. Dropped' /\ Contents'
  BY <1>1, <1>6 DEF Exchange, Dropped, Contents, Reading
<1> QED
  BY <1>8, <1>9, <1>10 DEF Exchange

LEMMA EndsExchange == Exchange /\ ReadEnds => Exchange'
<1> SUFFICES ASSUME Exchange, ReadEnds PROVE Exchange'
  OBVIOUS
<1>1. ~TooLong(up)
  <2>1. CASE up = Pipe
    BY <2>1, NothingArrives
  <2>2. CASE up # Pipe
    <3>1. Carrying(up, EncodeRequest(asked))
      BY <2>2 DEF Exchange, Asked
    <3> QED
      BY <3>1, Arrives
  <2> QED
    BY <2>1, <2>2
<1>2. dpc \in Reading /\ UNCHANGED <<client, up, hosted, texts>> /\ (Drop("eof") \/ Drop("timeout"))
  BY <1>1, Zenon DEF ReadEnds
<1>3. dpc # "none"
  BY <1>2 DEF Reading
<1> QED
  BY <1>2, <1>3, DropExchange

LEMMA DaemonFailsExchange == Exchange /\ DaemonFails => Exchange'
<1> SUFFICES ASSUME Exchange, DaemonFails PROVE Exchange'
  OBVIOUS
<1>1. dpc \in Writing \cup {"serve"} /\ UNCHANGED <<client, up, hosted, texts>> /\ Drop("runtime")
  BY Zenon DEF DaemonFails
<1>2. dpc # "none"
  BY <1>1 DEF Writing
<1> QED
  BY <1>1, <1>2, DropExchange

(* A response that can be read back is on its way alone. *)
LEMMA RespondExchange ==
    ASSUME Exchange, Executing, NEW r, AnsweredBack(r), NEW next \in Writing, Respond(r, next),
           UNCHANGED <<client, up>>, Contents',
           EncodeResponse(r) = NoFrame => Len(texts') > MaxSnapshotPanes
    PROVE  Exchange'
<1>1. UNCHANGED <<pc, name, asked, answer, up>>
  BY DEF client, local
<1>2. up = Pipe /\ down = Pipe /\ Waiting /\ dpc # "gone"
  BY DEF Exchange, Asked, Executed, Responded, Executing
<1>3. /\ dpc' \in Writing \cup {"gone"}
      /\ why' = why \/ (why' = "unencodable" /\ dpc' = "gone" /\ Len(texts') > MaxSnapshotPanes)
      /\ down' = Pipe \/ (reply' = r /\ Carrying(down', EncodeResponse(r)))
  <2>1. CASE EncodeResponse(r) = NoFrame
    <3>1. dpc' = "gone" /\ why' = "unencodable" /\ down' = [down EXCEPT !.unsent = <<>>]
      BY <2>1, Zenon DEF Respond, Drop
    <3> QED
      BY <1>2, <2>1, <3>1, NothingArrives
  <2>2. CASE EncodeResponse(r) # NoFrame
    <3> DEFINE f == EncodeResponse(r)
    <3>1. down' = [down EXCEPT !.unsent = f] /\ reply' = r /\ dpc' = next /\ why' = why
      BY <2>2, Zenon DEF Respond
    <3>2. f \in Seq(Byte) /\ Unframe(f).ok
      BY <2>2, ResponseSent
    <3>3. Carrying([Pipe EXCEPT !.unsent = f], f)
      <4> HIDE DEF f
      <4> QED
        BY <3>2, Departs
    <3> QED
      BY <1>2, <3>1, <3>3
  <2> QED
    BY <2>1, <2>2
<1>4. Waiting' /\ ~Executing'
  BY <1>1, <1>2, <1>3 DEF Waiting, Executing, Writing
<1>5. Asked' /\ Executed' /\ Responded'
  BY <1>1, <1>2, <1>3, <1>4 DEF Asked, Executed, Responded
<1>6. Answered' /\ Starting'
  BY <1>1, <1>2 DEF Answered, Starting, Waiting
<1>7. Dropped'
  <2>1. why # "malformed" /\ why # "unencodable"
    BY <1>2 DEF Exchange, Dropped
  <2> QED
    BY <1>3, <2>1 DEF Dropped
<1> QED
  BY <1>5, <1>6, <1>7 DEF Exchange

LEMMA CreateExchange ==
    ASSUME Exchange, Executing, NEW text \in Text, request.kind = "CREATE", Create(text),
           UNCHANGED <<client, up, texts>>
    PROVE  Exchange'
<1>1. request \in ClientRequest
  BY DEF Exchange, Executed
<1>2. request.name \in Name
  BY <1>1, RequestFields
<1>3. /\ name \in SessionNames /\ texts \in Seq(Text) /\ Len(texts) \in 1..MaxPanes
      /\ IsFiniteSet(hosted) /\ hosted \subseteq Name /\ Cardinality(hosted) <= MaxListedSessions
  BY DEF Exchange, Contents
<1>4. name' = name /\ texts' = texts
  BY DEF client, local
<1>5. "close" \in Writing
  BY DEF Writing
<1>6. ASSUME NEW r, Sure(r), Respond(r, "close"),
             IsFiniteSet(hosted') /\ hosted' \subseteq Name /\ Cardinality(hosted') <= MaxListedSessions
      PROVE  Exchange'
  <2>1. Contents'
    BY <1>3, <1>4, <1>6 DEF Contents
  <2>2. AnsweredBack(r) /\ EncodeResponse(r) # NoFrame
    BY <1>6, Zenon DEF Sure
  <2> QED
    BY <1>5, <1>6, <2>1, <2>2, RespondExchange
<1>7. ASSUME NEW c \in {1, 4, 5}, Respond(Failure(c, text), "close"), UNCHANGED hosted
      PROVE  Exchange'
  <2>1. Sure(Failure(c, text))
    <3>1. c \in ErrorCode
      BY DEF ErrorCode
    <3> QED
      BY <3>1, FailureSure
  <2> QED
    BY <1>3, <1>6, <1>7, <2>1
<1>8. ASSUME Respond(Named("CREATED", request.name), "close"), hosted' = hosted \cup {request.name},
             ~(Cardinality(hosted) >= MaxListedSessions)
      PROVE  Exchange'
  <2>1. Sure(Named("CREATED", request.name))
    BY <1>2, NamedSure
  <2>2. /\ IsFiniteSet(hosted')
        /\ Cardinality(hosted') <= Cardinality(hosted) + 1 /\ Cardinality(hosted) \in Nat
    <3>1. Cardinality(hosted) \in Nat
      BY <1>3, FS_CardinalityType
    <3>2. /\ IsFiniteSet(hosted \cup {request.name})
          /\ Cardinality(hosted \cup {request.name}) =
               IF request.name \in hosted THEN Cardinality(hosted) ELSE Cardinality(hosted) + 1
      BY <1>3, FS_AddElement
    <3> QED
      BY <1>8, <3>1, <3>2
  <2>3. Cardinality(hosted') \in Nat
    BY <2>2, FS_CardinalityType
  <2>4. hosted' \subseteq Name /\ Cardinality(hosted') <= MaxListedSessions
    BY <1>2, <1>3, <1>8, <2>2, <2>3, Limits
  <2> QED
    BY <1>6, <1>8, <2>1, <2>2, <2>4
<1> QED
  BY <1>7, <1>8 DEF Create

LEMMA DispatchExchange == Exchange /\ Dispatch => Exchange'
<1> SUFFICES ASSUME Exchange, Dispatch PROVE Exchange'
  OBVIOUS
<1>1. Executing /\ UNCHANGED <<client, up, texts>> /\ name' = name /\ texts' = texts
  BY DEF Dispatch, Executing, client, local
<1>2. request \in ClientRequest
  BY <1>1 DEF Exchange, Executed
<1>3. /\ name \in SessionNames /\ texts \in Seq(Text) /\ Len(texts) \in 1..MaxPanes
      /\ IsFiniteSet(hosted) /\ hosted \subseteq Name /\ Cardinality(hosted) <= MaxListedSessions
  BY DEF Exchange, Contents
<1>4. ASSUME NEW r, Sure(r), NEW next \in Writing, Respond(r, next), UNCHANGED hosted
      PROVE  Exchange'
  <2>1. Contents'
    BY <1>1, <1>3, <1>4 DEF Contents
  <2>2. AnsweredBack(r) /\ EncodeResponse(r) # NoFrame
    BY <1>4, Zenon DEF Sure
  <2> QED
    BY <1>1, <1>4, <2>1, <2>2, RespondExchange
<1>5. PICK text \in Text :
         \/ request.kind = "CREATE" /\ Create(text)
         \/ /\ request.kind = "PING"
            /\ Respond([kind |-> "PONG", nonce |-> request.nonce], "close")
            /\ UNCHANGED hosted
         \/ /\ request.kind = "LIST"
            /\ \E attached \in [hosted -> {0, 1}] :
                 Respond([kind |-> "SESSIONS", sessions |-> Listed(attached)], "close")
            /\ UNCHANGED hosted
         \/ /\ request.kind = "ATTACH"
            /\ IF request.name \in hosted
                 THEN Respond(Named("ATTACHED", request.name), "greet")
                 ELSE Respond(Failure(2, text), "close")
            /\ UNCHANGED hosted
  BY Zenon DEF Dispatch
<1>6. "close" \in Writing /\ "greet" \in Writing
  BY DEF Writing
<1>7. CASE request.kind = "CREATE" /\ Create(text)
  BY <1>1, <1>7, CreateExchange
<1>8. CASE /\ request.kind = "PING" /\ UNCHANGED hosted
           /\ Respond([kind |-> "PONG", nonce |-> request.nonce], "close")
  <2>1. request.nonce = Nonce
    BY <1>2, <1>8, RequestFields
  <2> QED
    BY <1>4, <1>6, <1>8, <2>1, PongSure
<1>9. ASSUME NEW attached \in [hosted -> {0, 1}], UNCHANGED hosted,
             Respond([kind |-> "SESSIONS", sessions |-> Listed(attached)], "close")
      PROVE  Exchange'
  <2>1. Sure([kind |-> "SESSIONS", sessions |-> Listed(attached)])
    BY <1>3, ListingSure
  <2> QED
    BY <1>4, <1>6, <1>9, <2>1
<1>10. CASE /\ request.kind = "ATTACH" /\ UNCHANGED hosted
            /\ Respond(Named("ATTACHED", request.name), "greet")
  <2>1. request.name \in Name
    BY <1>2, <1>10, RequestFields
  <2>2. Sure(Named("ATTACHED", request.name))
    BY <2>1, NamedSure
  <2> QED
    BY <1>4, <1>6, <1>10, <2>2
<1>11. CASE UNCHANGED hosted /\ Respond(Failure(2, text), "close")
  <2>1. 2 \in ErrorCode
    BY DEF ErrorCode
  <2>2. Sure(Failure(2, text))
    BY <2>1, FailureSure
  <2> QED
    BY <1>4, <1>6, <1>11, <2>2
<1> QED
  BY <1>5, <1>7, <1>8, <1>9, <1>10, <1>11

LEMMA OneMore == \A n, m \in Nat : n < m => n + 1 \in 1..m
  OBVIOUS

LEMMA OneLess == \A n, m \in Nat : n \in 1..m /\ n > 1 => n - 1 \in 1..m
  OBVIOUS

(* A command leaves between one pane and the most a client asks for. *)
LEMMA PanesAfter ==
    ASSUME NEW t \in Seq(Text), Len(t) \in 1..MaxPanes, t = texts, NEW c \in 1..4,
           c > 2 \/ Len(t) < MaxPanes
    PROVE  \E n \in 1..MaxPanes : DOMAIN AfterCommand(c) = 1..n
<1>1. MaxPanes \in Nat /\ Len(t) \in Nat /\ DOMAIN t = 1..Len(t)
  BY ClientAssumption
<1>2. CASE c \in {1, 2}
  <2>1. AfterCommand(c) = Append(t, <<>>)
    BY <1>2 DEF AfterCommand
  <2>2. DOMAIN Append(t, <<>>) = 1..(Len(t) + 1)
    BY <1>1
  <2>3. Len(t) + 1 \in 1..MaxPanes
    <3>1. ~ (c > 2)
      <4>1. ~ (1 > 2) /\ ~ (2 > 2)
        OBVIOUS
      <4> QED
        BY <1>2, <4>1, Zenon
    <3>2. Len(t) < MaxPanes
      BY <3>1, Zenon
    <3> QED
      BY <1>1, <3>2, OneMore, Zenon
  <2> QED
    BY <2>1, <2>2, <2>3
<1>3. CASE c = 3
  <2>1. AfterCommand(c) = t
    BY <1>3 DEF AfterCommand
  <2> QED
    BY <1>1, <2>1
<1>4. CASE c = 4
  <2>1. AfterCommand(c) = IF Len(t) > 1 THEN Front(t) ELSE t
    BY <1>4 DEF AfterCommand
  <2>2. CASE Len(t) > 1
    <3>1. DOMAIN Front(t) = 1..(Len(t) - 1)
      BY <1>1, <2>2 DEF Front
    <3>2. Len(t) - 1 \in 1..MaxPanes
      BY <1>1, <2>2, OneLess, Zenon
    <3> QED
      BY <2>1, <2>2, <3>1, <3>2
  <2>3. CASE ~(Len(t) > 1)
    BY <1>1, <2>1, <2>3
  <2> QED
    BY <2>2, <2>3
<1> QED
  BY <1>2, <1>3, <1>4

LEMMA ServeExchange == Exchange /\ Serve => Exchange'
<1> SUFFICES ASSUME Exchange, Serve PROVE Exchange'
  OBVIOUS
<1>1. /\ dpc = "serve" /\ Executing /\ UNCHANGED <<client, up, hosted>>
      /\ name' = name /\ hosted' = hosted
  BY DEF Serve, Executing, client, local
<1>2. request \in ClientRequest /\ request = asked /\ Fitting
  BY <1>1 DEF Exchange, Executed
<1>3. /\ name \in SessionNames /\ texts \in Seq(Text) /\ Len(texts) \in 1..MaxPanes
      /\ IsFiniteSet(hosted) /\ hosted \subseteq Name /\ Cardinality(hosted) <= MaxListedSessions
  BY DEF Exchange, Contents
<1>4. "close" \in Writing /\ "answer" \in Writing
  BY DEF Writing
<1>5. CASE request.kind = "DETACH"
  <2>1. Respond(Named("DETACHED", request.name), "close") /\ texts' = texts
    BY <1>5, Zenon DEF Serve
  <2>2. request.name \in Name
    BY <1>2, <1>5, RequestFields
  <2>3. Sure(Named("DETACHED", request.name))
    BY <2>2, NamedSure
  <2>4. AnsweredBack(Named("DETACHED", request.name)) /\ EncodeResponse(Named("DETACHED", request.name)) # NoFrame
    BY <2>3, Zenon DEF Sure
  <2>5. Contents'
    BY <1>1, <1>3, <2>1 DEF Contents
  <2> QED
    BY <1>1, <1>4, <2>1, <2>4, <2>5, RespondExchange
<1>6. CASE request.kind # "DETACH"
  <2> DEFINE left == IF request.kind = "COMMAND" THEN AfterCommand(request.command) ELSE texts
  <2>1. texts' \in [DOMAIN left -> Text] /\ Respond(Snapshot(texts'), "answer")
    BY <1>6, Zenon DEF Serve
  <2>2. \E n \in 1..MaxPanes : DOMAIN left = 1..n
    <3>1. CASE request.kind = "COMMAND"
      <4>1. request.command \in 1..4
        BY <1>2, <3>1, RequestFields, Zenon
      <4>2. request.command > 2 \/ Len(texts) < MaxPanes
        BY <1>2, <3>1, Zenon DEF Fitting
      <4> QED
        BY <1>3, <3>1, <4>1, <4>2, PanesAfter
    <3>2. CASE request.kind # "COMMAND"
      <4>1. DOMAIN texts = 1..Len(texts)
        BY <1>3
      <4> QED
        BY <1>3, <3>2, <4>1
    <3> QED
      BY <3>1, <3>2
  <2> HIDE DEF left
  <2>3. PICK n \in 1..MaxPanes : DOMAIN left = 1..n
    BY <2>2
  <2>4. texts' \in Seq(Text) /\ Len(texts') = n /\ n \in Nat
    <3>1. MaxPanes \in Nat
      BY ClientAssumption
    <3>2. n \in Nat /\ texts' \in [1..n -> Text]
      BY <2>1, <2>3, <3>1
    <3> QED
      BY <3>2
  <2>5. Contents'
    BY <1>1, <1>3, <2>4 DEF Contents
  <2>6. /\ AnsweredBack(Snapshot(texts'))
        /\ EncodeResponse(Snapshot(texts')) = NoFrame => Len(texts') > MaxSnapshotPanes
    <3>1. Len(texts') # 0
      BY <2>4
    <3> QED
      BY <2>4, <3>1, SnapshotSure
  <2> QED
    BY <1>1, <1>4, <2>1, <2>5, <2>6, RespondExchange
<1> QED
  BY <1>5, <1>6

------------------------------------------------------------------------------
(* The client. *)

LEMMA FirstAsked ==
    ASSUME name \in SessionNames, NEW r \in FirstRequests
    PROVE  r \in ClientRequest /\ r.kind # "COMMAND"
  BY DEF FirstRequests, ClientRequest, Named

LEMMA CommandCodes == \A b \in DOMAIN CommandCode : CommandCode[b] \in 1..4
  BY DEF CommandCode

LEMMA KeyAsked ==
    ASSUME name \in SessionNames, NEW b \in Byte
    PROVE  RequestFor(b) \in ClientRequest
<1>1. CASE pending /\ b \in Detaching
  <2>1. RequestFor(b) = [kind |-> "DETACH", name |-> name]
    BY <1>1 DEF RequestFor, Named
  <2> QED
    BY <2>1 DEF ClientRequest
<1>2. CASE ~(pending /\ b \in Detaching) /\ pending /\ b \in DOMAIN CommandCode
  <2>1. RequestFor(b) = [kind |-> "COMMAND", command |-> CommandCode[b]]
    BY <1>2, Zenon DEF RequestFor
  <2>2. CommandCode[b] \in 1..4
    BY <1>2, CommandCodes
  <2> QED
    BY <2>1, <2>2 DEF ClientRequest
<1>3. CASE ~(pending /\ b \in Detaching) /\ ~(pending /\ b \in DOMAIN CommandCode)
  <2> DEFINE s == IF pending /\ b # Prefix THEN <<Prefix, b>> ELSE <<b>>
  <2>1. RequestFor(b) = [kind |-> "INPUT", bytes |-> s]
    BY <1>3, Zenon DEF RequestFor
  <2>2. Prefix \in Byte /\ <<Prefix, b>> \in Seq(Byte) /\ <<b>> \in Seq(Byte)
    BY DEF Prefix, Byte
  <2>3. s \in Seq(Byte)
    BY <2>2, Zenon
  <2> HIDE DEF s
  <2> QED
    BY <2>1, <2>3 DEF ClientRequest
<1> QED
  BY <1>1, <1>2, <1>3

LEMMA ConnectExchange == Exchange /\ Connect => Exchange'
<1> SUFFICES ASSUME Exchange, Connect PROVE Exchange'
  OBVIOUS
<1>1. /\ pc = "connect" /\ Write(asked) /\ dpc' = "first"
      /\ UNCHANGED <<name, down, why, request, reply, hosted, texts>>
  BY DEF Connect, local
<1>2. asked \in FirstRequests /\ dpc = "none" /\ name \in SessionNames
  BY <1>1 DEF Exchange, Starting, Contents
<1>3. asked \in ClientRequest /\ asked.kind # "COMMAND"
  BY <1>2, FirstAsked
<1>4. ~Waiting
  BY <1>1 DEF Waiting
<1> QED
  BY <1>1, <1>2, <1>3, <1>4, ClientWrites

LEMMA AskExchange ==
    ASSUME Exchange, NEW r \in ClientRequest, Ask(r), ~Waiting,
           r.kind = "COMMAND" => r.command > 2 \/ Len(texts) < MaxPanes
    PROVE  Exchange'
<1>1. Write(r) /\ dpc' = dpc /\ UNCHANGED <<name, down, why, request, reply, hosted, texts>>
  BY DEF Ask, local, daemon
<1> QED
  BY <1>1, ClientWrites

LEMMA LoopExchange ==
    ASSUME Exchange, Enter \/ NoEvent \/ WindowResized \/ \E b \in Byte : RouteToDaemon(b)
    PROVE  Exchange'
<1>1. name \in SessionNames
  BY DEF Exchange, Contents
<1>2. CASE Enter \/ WindowResized
  <2> DEFINE r == [kind |-> "RESIZE", cols |-> 300, rows |-> 24]
  <2>1. Ask(r) /\ ~Waiting
    BY <1>2 DEF Enter, WindowResized, Waiting
  <2>2. r \in ClientRequest /\ r.kind # "COMMAND"
    BY DEF ClientRequest
  <2> HIDE DEF r
  <2> QED
    BY <2>1, <2>2, AskExchange
<1>3. CASE NoEvent
  <2> DEFINE r == [kind |-> "SNAPSHOT"]
  <2>1. Ask(r) /\ ~Waiting
    BY <1>3 DEF NoEvent, Waiting
  <2>2. r \in ClientRequest /\ r.kind # "COMMAND"
    BY DEF ClientRequest
  <2> HIDE DEF r
  <2> QED
    BY <2>1, <2>2, AskExchange
<1>4. ASSUME NEW b \in Byte, RouteToDaemon(b) PROVE Exchange'
  <2>1. /\ Ask(RequestFor(b)) /\ ~Waiting
        /\ RequestFor(b).kind = "COMMAND" => RequestFor(b).command > 2 \/ Len(texts) < MaxPanes
    BY <1>4 DEF RouteToDaemon, Routed, Waiting
  <2>2. RequestFor(b) \in ClientRequest
    BY <1>1, KeyAsked
  <2> QED
    BY <2>1, <2>2, AskExchange
<1> QED
  BY <1>2, <1>3, <1>4

LEMMA AloneExchange ==
    ASSUME Exchange,
           Load \/ Configured \/ Draw \/ Dismiss \/ (\E key \in Key : CopyModeKey(key))
             \/ (\E b \in Byte : RouteLocally(b))
    PROVE  Exchange'
<1>1. UNCHANGED <<name, asked, answer, up, down, daemon>>
  BY DEF Load, Configured, Draw, Dismiss, CopyModeKey, RouteLocally, Consume, local
<1>2. \/ pc \in {"load", "loaded"} /\ pc' \in {"loaded", "failed", "connect"}
      \/ pc \in {"draw", "poll", "route"} /\ pc' \in {"draw", "poll", "route", "failed"}
  BY DEF Load, Configured, Draw, Dismiss, CopyModeKey, RouteLocally, Routed, Consume,
      EventRead
<1> QED
  BY <1>1, <1>2, ClientAlone DEF Waiting

LEMMA PressExchange ==
    ASSUME Exchange, NEW key \in Key, Press(key)
    PROVE  Exchange'
<1>1. UNCHANGED <<name, asked, answer, up, down, daemon>>
  BY DEF Press, Consume, local
<1>2. pc = "poll" /\ pc' \in {"draw", "route"}
  BY DEF Press, Consume, EventRead
<1> QED
  BY <1>1, <1>2, ClientAlone DEF Waiting

LEMMA NextExchange == Exchange /\ [Next]_vars => Exchange'
<1> SUFFICES ASSUME Exchange, [Next]_vars PROVE Exchange'
  OBVIOUS
<1>1. CASE ClientStep
  BY <1>1, ConnectExchange, ReceiveExchange, LoopExchange, AloneExchange, PressExchange, Zenon
  DEF ClientStep
<1>2. CASE DaemonStep
  BY <1>2, WrittenExchange, ReadExchange, EndsExchange, DaemonFailsExchange, DispatchExchange,
     ServeExchange, Zenon DEF DaemonStep
<1>3. CASE Stall \/ UNCHANGED vars
  <2>1. UNCHANGED <<pc, name, asked, answer, up, down, daemon>>
    BY <1>3, Zenon DEF Stall, vars, client, local
  <2> QED
    BY <2>1, StillExchange
<1> QED
  BY <1>1, <1>2, <1>3, FailsExchange, CarryExchange, Zenon DEF Next

------------------------------------------------------------------------------
(* Where client and daemon are, and the client's modes. *)
LEMMA InitModes == Init => Modes
<1> SUFFICES ASSUME Init PROVE Modes
  OBVIOUS
<1>1. Patience \in Nat
  BY ClientAssumption
<1>2. /\ pc \in {"load", "connect"} /\ dpc = "none" /\ why = "" /\ quiet = 0 /\ held = 0
      /\ scenes = FALSE /\ saver = FALSE /\ copy = FALSE /\ pending = FALSE /\ stalled = FALSE
  BY DEF Init
<1>3. Switches
  BY <1>2 DEF Switches
<1>4. Places
  BY <1>2 DEF Places
<1>5. Rounds
  <2>1. quiet = 0 /\ held = 0
    BY <1>2
  <2> QED
    BY <1>1, <2>1 DEF Rounds
<1> QED
  BY <1>3, <1>4, <1>5 DEF Modes

LEMMA NextModes == Modes /\ [Next]_vars => Modes'
<1> SUFFICES ASSUME Modes, [Next]_vars PROVE Modes'
  OBVIOUS
<1> DEFINE Pc == {"load", "loaded", "connect", "enter", "draw", "poll", "route", "await", "left", "failed"}
           Dpc == {"none", "dispatch", "serve", "gone", "first", "loop", "greet", "answer", "close"}
           Why == {"", "done", "eof", "timeout", "malformed", "unencodable", "runtime"}
<1>1. /\ pc \in Pc /\ dpc \in Dpc /\ why \in Why
      /\ scenes \in BOOLEAN /\ saver \in BOOLEAN /\ copy \in BOOLEAN
      /\ pending \in BOOLEAN /\ stalled \in BOOLEAN
      /\ quiet \in 0..Patience /\ held \in 0..Patience
  BY DEF Modes, Places, Switches, Rounds, Ended, Reading, Writing
<1>2. SUFFICES /\ pc' \in Pc /\ dpc' \in Dpc /\ why' \in Why
               /\ scenes' \in BOOLEAN /\ saver' \in BOOLEAN /\ copy' \in BOOLEAN
               /\ pending' \in BOOLEAN /\ stalled' \in BOOLEAN
               /\ quiet' \in 0..Patience /\ held' \in 0..Patience
  <2>1. Places'
    BY <1>2 DEF Places, Ended, Reading, Writing
  <2> HIDE DEF Pc, Dpc, Why
  <2>2. Switches'
    BY <1>2, Zenon DEF Switches
  <2>3. Rounds'
    BY <1>2, Zenon DEF Rounds
  <2> QED
    BY <2>1, <2>2, <2>3 DEF Modes
<1>3. Patience \in Nat
  BY ClientAssumption
<1>4. CASE Carry \/ UNCHANGED vars
  <2>1. UNCHANGED <<pc, dpc, why, scenes, saver, copy, pending, stalled, quiet, held>>
    BY <1>4, Zenon DEF Carry, vars, client, local, modes, clock, daemon
  <2> HIDE DEF Pc, Dpc, Why
  <2>2. pc' \in Pc /\ dpc' \in Dpc /\ why' \in Why
    BY <1>1, <2>1
  <2>3. /\ scenes' \in BOOLEAN /\ saver' \in BOOLEAN /\ copy' \in BOOLEAN
        /\ pending' \in BOOLEAN /\ stalled' \in BOOLEAN
    BY <1>1, <2>1, Zenon
  <2>4. quiet' \in 0..Patience /\ held' \in 0..Patience
    BY <1>1, <2>1
  <2> QED
    BY <2>2, <2>3, <2>4
<1>5. CASE ClientFails \/ Stall
  <2>1. /\ UNCHANGED <<dpc, why, scenes, saver, copy, pending, quiet, held>>
        /\ pc' = pc \/ pc' = "failed"
        /\ stalled' = stalled \/ stalled' = TRUE
    BY <1>5, Zenon DEF ClientFails, Stall, local, modes, clock, daemon
  <2>2. pc' \in Pc
    BY <1>1, <2>1
  <2> HIDE DEF Pc, Dpc, Why
  <2>3. dpc' \in Dpc /\ why' \in Why
    BY <1>1, <2>1
  <2>4. /\ scenes' \in BOOLEAN /\ saver' \in BOOLEAN /\ copy' \in BOOLEAN
        /\ pending' \in BOOLEAN
    BY <1>1, <2>1, Zenon
  <2>5. stalled' \in BOOLEAN
    BY <1>1, <2>1
  <2>6. quiet' \in 0..Patience /\ held' \in 0..Patience
    BY <1>1, <2>1
  <2> QED
    BY <2>2, <2>3, <2>4, <2>5, <2>6
<1>6. CASE DaemonStep
  <2>1. UNCHANGED client
    BY <1>6, Zenon DEF DaemonStep, Written, ReadRequest, ReadEnds, DaemonFails, Dispatch, Serve
  <2>2. UNCHANGED <<pc, scenes, saver, copy, pending, quiet, held, stalled>>
    BY <2>1 DEF client, local, modes, clock
  <2>3. \A r, next : Respond(r, next) => (dpc' = next /\ why' = why) \/ (dpc' = "gone" /\ why' = "unencodable")
    BY Zenon DEF Respond, Drop
  <2>4. ASSUME Dispatch \/ Serve
        PROVE  \E next \in {"close", "greet", "answer"} :
                 (dpc' = next /\ why' = why) \/ (dpc' = "gone" /\ why' = "unencodable")
    BY <2>3, <2>4, Zenon DEF Dispatch, Create, Serve
  <2>5. dpc' \in Dpc /\ why' \in Why
    <3>1. CASE Dispatch \/ Serve
      BY <1>1, <2>4, <3>1
    <3>2. CASE Written
      BY <1>1, <3>2 DEF Written
    <3>3. CASE ReadRequest
      BY <1>1, <3>3 DEF ReadRequest, Drop
    <3>4. CASE ReadEnds \/ DaemonFails
      BY <1>1, <3>4 DEF ReadEnds, DaemonFails, Drop
    <3> QED
      BY <1>6, <3>1, <3>2, <3>3, <3>4 DEF DaemonStep
  <2> QED
    BY <1>1, <2>2, <2>5
<1>7. CASE ClientStep
  <2>1. dpc' = dpc \/ dpc' = "first"
    BY <1>7, Zenon DEF ClientStep, Load, Configured, Connect, Receive, Enter, Draw, NoEvent,
       WindowResized, Dismiss, CopyModeKey, Press, RouteLocally, RouteToDaemon, Ask, Consume, daemon
  <2>2. why' = why
    BY <1>7, Zenon DEF ClientStep, Load, Configured, Connect, Receive, Enter, Draw, NoEvent,
       WindowResized, Dismiss, CopyModeKey, Press, RouteLocally, RouteToDaemon, Ask, Consume, daemon
  <2>3. pc' \in Pc
    <3>1. CASE Receive
      <4>1. \A r : AfterResponse(r) \in Pc
        BY DEF AfterResponse
      <4>2. "failed" \in Pc
        OBVIOUS
      <4> HIDE DEF Pc
      <4> QED
        BY <3>1, <4>1, <4>2, Zenon DEF Receive
    <3>2. CASE Load \/ Configured
      BY <3>2 DEF Load, Configured
    <3>3. CASE Connect \/ Enter \/ NoEvent \/ WindowResized
      BY <3>3 DEF Connect, Enter, NoEvent, WindowResized, Ask, Write
    <3>4. CASE Draw \/ Dismiss \/ (\E key \in Key : CopyModeKey(key) \/ Press(key))
      BY <3>4 DEF Draw, Dismiss, CopyModeKey, Press, Consume
    <3>5. ASSUME NEW b \in Byte, RouteLocally(b) \/ RouteToDaemon(b) PROVE pc' \in Pc
      BY <3>5 DEF RouteLocally, RouteToDaemon, Ask, Write
    <3> QED
      BY <1>7, <3>1, <3>2, <3>3, <3>4, <3>5, Zenon DEF ClientStep
  <2>4. quiet' \in 0..Patience /\ held' \in 0..Patience
    <3>1. UNCHANGED <<quiet, held>> \/ Draw \/ EventRead \/ \E r : Write(r)
      BY <1>7, Zenon DEF ClientStep, Load, Configured, Connect, Receive, Enter, NoEvent,
         WindowResized, Dismiss, CopyModeKey, Press, RouteLocally, RouteToDaemon, Ask, Consume, clock
    <3>2. ASSUME NEW r, Write(r) PROVE quiet' \in 0..Patience /\ held' \in 0..Patience
      BY <1>3, <3>2 DEF Write
    <3>3. ASSUME Draw \/ EventRead PROVE quiet' \in 0..Patience /\ held' \in 0..Patience
      <4>1. /\ quiet' = quiet \/ (quiet < Patience /\ quiet' = quiet + 1)
            /\ held' = held \/ (held < Patience /\ held' = held + 1)
        BY <3>3, Zenon DEF Draw, EventRead
      <4>2. quiet \in 0..Patience /\ held \in 0..Patience
        BY <1>1
      <4> QED
        BY <1>3, <4>1, <4>2
    <3> QED
      BY <1>1, <3>1, <3>2, <3>3
  <2>5. stalled' \in BOOLEAN
    <3>1. stalled' = stalled \/ stalled' = FALSE
      BY <1>7, Zenon DEF ClientStep, Load, Configured, Connect, Receive, Enter, Draw, NoEvent,
         WindowResized, Dismiss, CopyModeKey, Press, RouteLocally, RouteToDaemon, Ask, Consume, EventRead,
         Write, clock
    <3> QED
      BY <1>1, <3>1
  <2>6. scenes' \in BOOLEAN
    <3>1. scenes' = scenes \/ \E x : scenes' = (x # "off")
      BY <1>7, Zenon DEF ClientStep, Load, Configured, Connect, Receive, Enter, Draw, NoEvent,
         WindowResized, Dismiss, CopyModeKey, Press, RouteLocally, RouteToDaemon, Ask, Consume, local
    <3> QED
      BY <1>1, <3>1
  <2>7. saver' \in BOOLEAN
    <3>1. \/ saver' = saver \/ saver' \in {saver, FALSE}
          \/ saver' \in (IF scenes THEN {saver, TRUE} ELSE {FALSE})
      BY <1>7, Zenon DEF ClientStep, Load, Configured, Connect, Receive, Enter, Draw, NoEvent,
         WindowResized, Dismiss, CopyModeKey, Press, RouteLocally, RouteToDaemon, Routed, Ask, modes
    <3> QED
      BY <1>1, <3>1
  <2>8. copy' \in BOOLEAN
    <3>1. copy' = copy \/ copy' = TRUE \/ \E x : copy' = (x # "Q")
      BY <1>7, Zenon DEF ClientStep, Load, Configured, Connect, Receive, Enter, Draw, NoEvent,
         WindowResized, Dismiss, CopyModeKey, Press, RouteLocally, RouteToDaemon, Ask, modes
    <3> QED
      BY <1>1, <3>1
  <2>9. pending' \in BOOLEAN
    <3>1. pending' = pending \/ \E x : pending' = (~pending /\ x = Prefix)
      BY <1>7, Zenon DEF ClientStep, Load, Configured, Connect, Receive, Enter, Draw, NoEvent,
         WindowResized, Dismiss, CopyModeKey, Press, RouteLocally, RouteToDaemon, Routed, Ask, Consume, modes
    <3> QED
      BY <1>1, <3>1
  <2> QED
    BY <1>1, <2>1, <2>2, <2>3, <2>4, <2>5, <2>6, <2>7, <2>8, <2>9
<1> QED
  BY <1>4, <1>5, <1>6, <1>7 DEF Next
------------------------------------------------------------------------------
(* The theorems. *)

LEMMA PipeBytes ==
    ASSUME NEW pipe, pipe \in [unsent : Seq(Byte), arrived : Seq(Byte)]
    PROVE  \A i \in DOMAIN (pipe.arrived \o pipe.unsent) : (pipe.arrived \o pipe.unsent)[i] \in Byte
<1>1. pipe.arrived \o pipe.unsent \in Seq(Byte)
  BY ConcatTyped
<1> QED
  BY <1>1

LEMMA ExchangeTypes == Exchange /\ Modes => TypeOK
<1> SUFFICES ASSUME Exchange, Modes PROVE TypeOK
  OBVIOUS
<1>1. up \in [unsent : Seq(Byte), arrived : Seq(Byte)]
  <2>1. up = Pipe \/ Carrying(up, EncodeRequest(asked))
    BY Zenon DEF Exchange, Asked
  <2> QED
    BY <2>1, PipeTyped, Zenon DEF Carrying
<1>2. down \in [unsent : Seq(Byte), arrived : Seq(Byte)]
  <2>1. down = Pipe \/ Carrying(down, EncodeResponse(reply))
    BY Zenon DEF Exchange, Responded
  <2> QED
    BY <2>1, PipeTyped, Zenon DEF Carrying
<1>3. \A pipe \in {up, down} : \A i \in DOMAIN (pipe.arrived \o pipe.unsent) :
        (pipe.arrived \o pipe.unsent)[i] \in Byte
  BY <1>1, <1>2, PipeBytes, Zenon
<1>4. Len(texts) \in 1..MaxPanes /\ \A i \in DOMAIN texts : texts[i] \in Text
  BY DEF Exchange, Contents
<1> QED
  BY <1>3, <1>4, Zenon DEF TypeOK, Modes, Places, Switches, Rounds

LEMMA ExchangeMatches == Exchange => MessagesIntact
  BY DEF Exchange, Executed, Executing, Answered, MessagesIntact

LEMMA ExchangeFits == Exchange => OnlyPanesDoNotFit
<1> SUFFICES ASSUME Exchange PROVE OnlyPanesDoNotFit
  OBVIOUS
<1>1. why # "malformed" /\ (why = "unencodable" => Len(texts) > MaxSnapshotPanes)
  BY Zenon DEF Exchange, Dropped
<1>2. ASSUME FrameArrived(down) PROVE DecodeResponse(ReadFrame(down)).ok
  <2>1. Carrying(down, EncodeResponse(reply)) /\ AnsweredBack(reply)
    BY <1>2, NothingArrives, Zenon DEF Exchange, Responded
  <2>2. ReadFrame(down) = EncodeResponse(reply)
    BY <1>2, <2>1, Arrives, Zenon
  <2>3. EncodeResponse(reply) # NoFrame
    BY <2>1, FrameNotEmpty, Zenon
  <2> QED
    BY <2>1, <2>2, <2>3, ResponseSent, Zenon
<1> QED
  BY <1>1, <1>2, Zenon DEF OnlyPanesDoNotFit

LEMMA ExchangeDelimits == Exchange => FramesExact
<1> SUFFICES ASSUME Exchange PROVE FramesExact
  OBVIOUS
<1>1. Pipe.unsent = <<>>
  BY PipeTyped
<1>2. ASSUME up.unsent # <<>>, up.unsent = EncodeRequest(asked)
      PROVE  Delimited(up.unsent, DecodeRequest, EncodeRequest, DecodeResponse)
  <2>1. Carrying(up, EncodeRequest(asked)) /\ asked \in ClientRequest
    BY <1>1, <1>2, Zenon DEF Exchange, Asked
  <2>2. EncodeRequest(asked) # NoFrame
    BY <2>1, FrameNotEmpty, Zenon
  <2>3. EncodeRequest(asked) \in Seq(Byte) /\ DecodeRequest(EncodeRequest(asked)).ok
    BY <2>1, <2>2, RequestSent, Zenon
  <2> QED
    BY <1>2, <2>3, RequestDelimited
<1>3. ASSUME down.unsent # <<>>, down.unsent = EncodeResponse(reply)
      PROVE  Delimited(down.unsent, DecodeResponse, EncodeResponse, DecodeRequest)
  <2>1. Carrying(down, EncodeResponse(reply)) /\ AnsweredBack(reply)
    BY <1>1, <1>3, Zenon DEF Exchange, Responded
  <2>2. EncodeResponse(reply) # NoFrame
    BY <2>1, FrameNotEmpty, Zenon
  <2>3. EncodeResponse(reply) \in Seq(Byte) /\ DecodeResponse(EncodeResponse(reply)).ok
    BY <2>1, <2>2, ResponseSent, Zenon
  <2> QED
    BY <1>3, <2>3, ResponseDelimited
<1> QED
  BY <1>2, <1>3 DEF FramesExact

(* In every state, of any number of bytes in any pieces: the client and the *)
(* connection are in one of the places of the code, the client's loop has   *)
(* counted no further than Patience, the session has at least one pane and  *)
(* no more than the bound, and what is on its way are bytes.                *)
THEOREM ClientTypeCorrect == Spec => []TypeOK
<1>1. Init => Exchange /\ Modes
  BY InitExchange, InitModes
<1>2. Exchange /\ Modes /\ [Next]_vars => Exchange' /\ Modes'
  BY NextExchange, NextModes
<1> QED
  BY <1>1, <1>2, ExchangeTypes, PTL DEF Spec

(* Whatever the names, the texts, the table of sessions and the pieces in   *)
(* which bytes arrive: the daemon carries out the request the client waits  *)
(* for, and the client's loop goes on with the daemon's answer to it.       *)
THEOREM MessagesMatch == Spec => []MessagesIntact
  BY InitExchange, NextExchange, ExchangeMatches, PTL DEF Spec

(* No message of one side is refused by the other, at any limit of the      *)
(* protocol, and a response cannot be encoded only for its panes.           *)
THEOREM OtherwiseAllFits == Spec => []OnlyPanesDoNotFit
  BY InitExchange, NextExchange, ExchangeFits, PTL DEF Spec

(* Every frame either side sends is delimited: no part and no extension of  *)
(* it is a frame, and one with a byte changed is none or another's own.     *)
THEOREM FramesDelimited == Spec => []FramesExact
  BY InitExchange, NextExchange, ExchangeDelimits, PTL DEF Spec

==============================================================================
