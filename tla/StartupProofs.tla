----------------------------- MODULE StartupProofs -----------------------------
(***************************************************************************)
(* Proofs about the life of a debugger, for all machine definitions,       *)
(* settings, windows and numbers of starts: the types, the definition and  *)
(* the connection behind a session (SessionIsWhole), that the Startup      *)
(* window leaves something behind it (NoDeadEnd), the debugging windows    *)
(* and their settings (WindowsAsSaved), the causes of Endings, and that a  *)
(* new process has the settings of the last one (RestartRemembers).        *)
(*                                                                         *)
(* None of these is inductive alone.  Causes, Behind and Shown say what    *)
(* they need of a process that is still in the Startup window, or waits    *)
(* for its emulator.  Stored is about the file: it rests on                *)
(* LoadInvertsSave, for all settings, an induction over the keys by the    *)
(* least number of keys for which it would fail (Least).                   *)
(***************************************************************************)
EXTENDS Startup, FiniteSetTheorems, WellFoundedInduction, SequenceTheorems, TLAPS

Causes ==
    /\ process # "off" => past.ending = "none"
    /\ machine.loaded /\ machine.top # "definition" => past.failed
    /\ /\ process = "running" /\ model.link \in {"none", "closed"}
       /\ model.upload \/ model.compiled # "nothing"
       => past.refused
    /\ AbortFollowsFailure /\ UnconnectedFollowsRefusal

Behind ==
    /\ process = "waiting" =>
        ui.startup /\ machine.loaded /\ machine.top = "definition"
    /\ SessionIsWhole /\ NoDeadEnd

\* The windows whose setting says that they are visible.
Kept == {w \in windows.made : GetBool(config_, Key(w))}

Shown ==
    /\ model.session => Kept = windows.visible \cup past.hidden
    /\ ~ model.session => windows.visible = {} /\ past.hidden = {}
    /\ windows.visible \cap past.hidden = {}

IInv == TypeOK /\ Causes /\ Behind /\ Shown

MachineType ==
    [top : {"none", "definition", "other", "nil"}, loaded : BOOLEAN,
     registers : Nat, memories : Nat, moved : BOOLEAN]

ModelType ==
    [upload : BOOLEAN, session : BOOLEAN,
     compiled : {"nothing", "binaries", "no_binaries"},
     link : {"none", "closed", "open", "acked"}]

\* What a history is, whatever windows there are.
Past == [starts : 0 .. MaxStarts, ending : EndsOfProcess, odd : BOOLEAN,
         failed : BOOLEAN, refused : BOOLEAN, hidden : SUBSET AllWindows]

-----------------------------------------------------------------------------
(* Settings *)

\* Setting, removing or saving other keys leaves what a key says.
LEMMA OtherKeys ==
    ASSUME NEW config, NEW key
    PROVE  /\ \A k, value : k # key =>
                GetBool(Set(config, k, value), key) = GetBool(config, key)
           /\ \A keys : key \notin keys =>
                GetBool(Without(config, keys), key) = GetBool(config, key)
BY DEF GetBool, GetStr, Set, Without

LEMMA ThisKey ==
    ASSUME NEW config, NEW key
    PROVE  /\ GetBool(Set(config, key, <<"true">>), key)
           /\ ~ GetBool(Without(config, {key}), key)
<1>1. GetBool(Set(config, key, <<"true">>), key)
  BY DEF GetBool, GetStr, Set
<1>2. <<>> # <<"true">>
  OBVIOUS
<1>3. ~ GetBool(Without(config, {key}), key)
  BY <1>2 DEF GetBool, GetStr, Without
<1>4. QED
  BY <1>1, <1>3

\* The Startup window saves no setting of a debugging window.
LEMMA ConnectKeepsWindows ==
    ASSUME NEW config, NEW settings, NEW k \in 1 .. 5, NEW w \in AllWindows
    PROVE  GetBool(With(config, settings, k), Key(w)) = GetBool(config, Key(w))
<1> DEFINE keys == {ConnectKeys[i] : i \in 1 .. k}
<1>1. \A i \in 1 .. k : ConnectKeys[i] \in ToSet(ConnectKeys)
  BY DEF ToSet, ConnectKeys
<1>2. Key(w) \notin keys
  BY <1>1, NamesAssumption
<1> HIDE DEF keys
<1>3. QED
  BY <1>2 DEF With, GetBool, GetStr, keys

LEMMA WindowsForType ==
    ASSUME NEW m
    PROVE  WindowsFor(m) \subseteq AllWindows
BY DEF WindowsFor, AllWindows, ToSet

-----------------------------------------------------------------------------
(* Steps that many actions share *)

LEMMA EndsIInv ==
    ASSUME NEW why \in EndsOfProcess, NEW p \in Past, Ends(why, p),
           why = "abort" => p.failed, why = "unconnected" => p.refused
    PROVE  IInv'
<1>1. machine' = Machine0 /\ process' = "off" /\ ui' = NoUi /\ model' = NoModel
  BY DEF Ends
<1>2. windows' = NoWindows
  BY DEF Ends
<1>3. (why = "cut" \/ ~ OneWord(config_')) \in BOOLEAN
  BY DEF OneWord
<1>4. past' = [p EXCEPT !.ending = why, !.hidden = {},
                        !.odd = @ \/ why = "cut" \/ ~ OneWord(config_')]
  BY DEF Ends
<1>5. /\ past' \in [starts : 0 .. MaxStarts, ending : EndsOfProcess, odd : BOOLEAN,
                    failed : BOOLEAN, refused : BOOLEAN, hidden : {{}}]
      /\ past'.ending = why /\ past'.failed = p.failed /\ past'.refused = p.refused
      /\ past'.hidden = {}
  BY <1>3, <1>4 DEF Past
<1>6. TypeOK'
  BY <1>1, <1>2, <1>5 DEF TypeOK, MachineTypeOK, Machine0, NoUi, NoModel, NoWindows
<1>7. Causes'
  BY <1>1, <1>5 DEF Causes, AbortFollowsFailure, UnconnectedFollowsRefusal, Machine0
<1>8. Behind'
  BY <1>1 DEF Behind, SessionIsWhole, NoDeadEnd
<1>9. Shown'
  BY <1>1, <1>2, <1>5 DEF Shown, NoModel, NoWindows
<1>10. QED
  BY <1>6, <1>7, <1>8, <1>9 DEF IInv

\* The types of what a load leaves, and what the top of the stack is then.
LEMMA LoadType ==
    ASSUME NEW m \in MachineType,
           NEW d \in Definitions
    PROVE  /\ LoadDefinition(m, d) \in MachineType
           /\ LoadDefinition(m, d).top # "definition" => d.flaw # "none"
<1>1. d \in Definition /\ (d.flaw = "memory" => d.memories > 0)
  BY DefinitionsAssumption
<1>2. RegistersRead(d) \in Nat /\ MemoriesRead(d) \in Nat
  BY <1>1 DEF RegistersRead, MemoriesRead, Definition, Flaws
<1>3. (m.loaded \/ d.flaw = "none") \in BOOLEAN
  OBVIOUS
<1> DEFINE top == CASE d.flaw = "none" -> "definition"
                    [] d.flaw = "unreadable" -> "other"
                    [] OTHER -> "nil"
<1>4. top \in {"definition", "other", "nil"} /\ (top # "definition" => d.flaw # "none")
  OBVIOUS
<1> HIDE DEF top
<1>5. LoadDefinition(m, d) =
        [m EXCEPT !.top = top,
                  !.registers = @ + RegistersRead(d),
                  !.memories = @ + MemoriesRead(d),
                  !.loaded = @ \/ d.flaw = "none"]
  BY DEF LoadDefinition, top
<1>6. (m.registers + RegistersRead(d)) \in Nat /\ (m.memories + MemoriesRead(d)) \in Nat
  BY <1>2 DEF MachineType
<1> DEFINE result == LoadDefinition(m, d)
<1>7. /\ result.top = top
      /\ result \in [top : {"definition", "other", "nil"}, loaded : BOOLEAN,
                     registers : Nat, memories : Nat, moved : BOOLEAN]
  BY <1>3, <1>4, <1>5, <1>6 DEF MachineType
<1>8. QED
  BY <1>4, <1>7 DEF MachineType

LEMMA CompiledType ==
    ASSUME NEW m \in MachineType,
           NEW outcome \in Outcomes
    PROVE  /\ Compiled(m, outcome) \in MachineType
           /\ Compiled(m, outcome).registers = m.registers
           /\ Compiled(m, outcome).loaded = m.loaded
           /\ CompileResult(m, outcome) \in Results
           /\ CompileResult(m, outcome) = "ok" =>
                /\ m.loaded /\ m.top = "definition"
                /\ Compiled(m, outcome).top = "definition"
           /\ CompileResult(m, outcome) = "aborts" => m.loaded
<1> DEFINE top == IF CompileResult(m, outcome) = "ok" THEN m.top
                  ELSE IF m.top = "definition" /\ outcome = "raises" THEN "other"
                  ELSE "nil"
<1>1. CompileResult(m, outcome) \in Results
  BY DEF CompileResult, Results
<1>2. /\ CompileResult(m, outcome) = "ok" => m.loaded /\ m.top = "definition"
      /\ CompileResult(m, outcome) = "aborts" => m.loaded
  BY DEF CompileResult
<1>3. top \in {"none", "definition", "other", "nil"}
  BY DEF MachineType
<1>4. CompileResult(m, outcome) = "ok" => top = "definition"
  BY <1>2
<1> HIDE DEF top
<1>5. Compiled(m, outcome) =
        IF ~ m.loaded THEN m
        ELSE [m EXCEPT !.top = top,
                       !.moved = @ \/ CompileResult(m, outcome) = "throws"]
  BY DEF Compiled, top
<1>6. QED
  BY <1>1, <1>2, <1>3, <1>4, <1>5 DEF MachineType

\* A history may be given to Ends, and a machine is one.
LEMMA Types ==
    ASSUME IInv
    PROVE  /\ past \in Past /\ machine \in MachineType /\ model \in ModelType
           /\ \A w \in windows.made : w \in AllWindows
BY DEF IInv, TypeOK, MachineTypeOK, Past, MachineType, ModelType

LEMMA InitIInv == Init => IInv
BY BoundAssumption
   DEF Init, IInv, TypeOK, MachineTypeOK, Machine0, NoUi, NoModel, NoWindows, NoPast,
       EndsOfProcess, Causes, AbortFollowsFailure, UnconnectedFollowsRefusal, Behind,
       SessionIsWhole, NoDeadEnd, Shown

\* A message, or its Ok.
LEMMA Messages ==
    ASSUME IInv, NEW b \in BOOLEAN, ui' = [ui EXCEPT !.message = b],
           UNCHANGED <<config_, machine, process, model, windows, past>>
    PROVE  IInv'
<1>1. /\ ui' \in [startup : BOOLEAN, message : BOOLEAN, path : {ui'.path}]
      /\ ui'.startup = ui.startup
  BY DEF IInv, TypeOK
<1>2. TypeOK'
  BY <1>1 DEF IInv, TypeOK, MachineTypeOK
<1>3. Causes' /\ Behind' /\ Shown'
  BY <1>1 DEF IInv, Causes, AbortFollowsFailure, UnconnectedFollowsRefusal, Behind,
              SessionIsWhole, NoDeadEnd, Mismatch, Shown, Kept
<1>4. QED
  BY <1>2, <1>3 DEF IInv

-----------------------------------------------------------------------------
(* The constructors *)

LEMMA BuiltIInv ==
    ASSUME NEW m \in MachineType, NEW path, NEW p \in Past,
           p.ending = "none", p.hidden = {},
           m.loaded /\ m.top # "definition" => p.failed,
           Built(m, path, p)
    PROVE  IInv'
<1>1. CASE ThemeThrows(config_')
  BY <1>1, EndsIInv DEF Built, EndsOfProcess
<1>2. CASE ~ ThemeThrows(config_')
  <2>1. /\ machine' = m /\ process' = "running" /\ past' = p /\ model' = NoModel
        /\ ui' = [startup |-> TRUE, message |-> FALSE, path |-> path]
        /\ windows' = [NoWindows EXCEPT !.made = WindowsFor(m)]
    BY <1>2 DEF Built
  <2>2. /\ windows'.made \subseteq AllWindows
        /\ windows' \in [made : SUBSET AllWindows, visible : {{}}, collapsed : {{}}]
    BY <2>1, WindowsForType DEF NoWindows
  <2>3. past' \in [starts : 0 .. MaxStarts, ending : EndsOfProcess, odd : BOOLEAN,
                   failed : BOOLEAN, refused : BOOLEAN, hidden : SUBSET windows'.made]
    BY <2>1 DEF Past
  <2>4. TypeOK'
    BY <2>1, <2>2, <2>3 DEF TypeOK, MachineTypeOK, MachineType, NoModel
  <2>5. Causes' /\ Behind' /\ Shown'
    BY <2>1, <2>2 DEF Causes, AbortFollowsFailure, UnconnectedFollowsRefusal, Behind,
                      SessionIsWhole, NoDeadEnd, Shown, NoModel
  <2>6. QED
    BY <2>4, <2>5 DEF IInv
<1>3. QED
  BY <1>1, <1>2

LEMMA FreshPast ==
    ASSUME IInv, past.starts < MaxStarts
    PROVE  Fresh \in Past /\ Fresh.ending = "none" /\ Fresh.hidden = {}
<1>1. MaxStarts \in Nat /\ past.starts + 1 \in 0 .. MaxStarts
  BY BoundAssumption DEF IInv, TypeOK
<1>2. past \in Past
  BY Types
<1>3. QED
  BY <1>1, <1>2 DEF Fresh, Past, EndsOfProcess

LEMMA StartEmptyIInv ==
    ASSUME IInv, StartEmpty
    PROVE  IInv'
<1>1. PICK p : p = Fresh
  OBVIOUS
<1>2. p \in Past /\ p.ending = "none" /\ p.hidden = {}
  BY <1>1, FreshPast DEF StartEmpty
<1>3. Machine0 \in MachineType /\ ~ Machine0.loaded
  BY DEF Machine0, MachineType
<1>4. Built(Machine0, <<>>, p)
  BY <1>1 DEF StartEmpty
<1>5. QED
  BY <1>2, <1>3, <1>4, BuiltIInv

\* What a load says of failures.
LEMMA ReadingPast ==
    ASSUME NEW p \in Past, NEW d, NEW config
    PROVE  /\ Reading(p, d, config) \in Past
           /\ Reading(p, d, config).ending = p.ending
           /\ Reading(p, d, config).hidden = p.hidden
           /\ Reading(p, d, config).refused = p.refused
           /\ Reading(p, d, config).failed = (LoadMachine(d, config) # "ok")
BY DEF Reading, Past

LEMMA StartWithIInv ==
    ASSUME IInv, NEW d \in Definitions, StartWith(d)
    PROVE  IInv'
<1>1. PICK p : p = Reading(Fresh, d, config_')
  OBVIOUS
<1>2. PICK m : m = LoadDefinition(Machine0, d)
  OBVIOUS
<1>3. PICK q : q = Fresh
  OBVIOUS
<1>4. q \in Past /\ q.ending = "none" /\ q.hidden = {}
  BY <1>3, FreshPast DEF StartWith
<1>5. PICK config : config = config_'
  OBVIOUS
<1>6. p = Reading(q, d, config)
  BY <1>1, <1>3, <1>5
<1>7. /\ p \in Past /\ p.ending = "none" /\ p.hidden = {}
      /\ p.failed = (LoadMachine(d, config) # "ok")
  BY <1>4, <1>6, ReadingPast
<1>8. m \in MachineType /\ (m.top # "definition" => p.failed)
  <2>1. Machine0 \in MachineType
    BY DEF Machine0, MachineType
  <2>2. m \in MachineType /\ (m.top # "definition" => d.flaw # "none")
    BY <1>2, <2>1, LoadType
  <2>3. d.flaw # "none" => LoadMachine(d, config) # "ok"
    BY DEF LoadMachine, LoadResult
  <2>4. QED
    BY <1>7, <2>2, <2>3
<1>9. CASE Ends("type", p)
  BY <1>7, <1>9, EndsIInv DEF EndsOfProcess
<1>10. CASE Built(m, <<>>, p)
  BY <1>7, <1>8, <1>10, BuiltIInv
<1>11. CASE Built(m, GetStr(config_', "machine_path"), p)
  <2>1. PICK path : path = GetStr(config_', "machine_path")
    OBVIOUS
  <2>2. Built(m, path, p)
    BY <1>11, <2>1
  <2>3. QED
    BY <1>7, <1>8, <2>2, BuiltIInv
<1>12. QED
  BY <1>1, <1>2, <1>9, <1>10, <1>11 DEF StartWith

-----------------------------------------------------------------------------
(* Windows and menu *)

LEMMA BrowseIInv ==
    ASSUME IInv, NEW path, NEW d \in Definitions, Browse(path, d)
    PROVE  IInv'
<1>1. PICK p : p = Reading(past, d, config_)
  OBVIOUS
<1>2. PICK m : m = LoadDefinition(machine, d)
  OBVIOUS
<1>3. PICK q, config, m0 : q = past /\ config = config_ /\ m0 = machine
  OBVIOUS
<1>4. q \in Past /\ m0 \in MachineType
  BY <1>3, Types
<1>5. /\ p \in Past /\ p.ending = past.ending /\ p.hidden = past.hidden
      /\ p.refused = past.refused /\ p.failed = (LoadMachine(d, config) # "ok")
  <2>1. p = Reading(q, d, config)
    BY <1>1, <1>3
  <2>2. QED
    BY <1>3, <1>4, <2>1, ReadingPast
<1>6. m \in MachineType /\ (m.top # "definition" => p.failed)
  <2>1. m = LoadDefinition(m0, d)
    BY <1>2, <1>3
  <2>2. m \in MachineType /\ (m.top # "definition" => d.flaw # "none")
    BY <1>4, <2>1, LoadType
  <2>3. d.flaw # "none" => LoadMachine(d, config) # "ok"
    BY DEF LoadMachine, LoadResult
  <2>4. QED
    BY <1>5, <2>2, <2>3
<1>7. process = "running" /\ ui.startup
  BY DEF Browse, Clicks
<1>8. CASE Ends("type", p)
  BY <1>5, <1>8, EndsIInv DEF EndsOfProcess
<1>9. CASE /\ past' = p /\ machine' = m
           /\ \E b \in BOOLEAN : ui' = [ui EXCEPT !.path = path, !.message = b]
           /\ UNCHANGED <<configVars, process, model, windows>>
  <2>1. PICK b \in BOOLEAN : ui' = [ui EXCEPT !.path = path, !.message = b]
    BY <1>9
  <2>2. ui' \in [startup : BOOLEAN, message : BOOLEAN, path : {ui'.path}] /\ ui'.startup
    BY <1>7, <2>1 DEF IInv, TypeOK
  <2>3. past'.hidden \subseteq windows'.made
    BY <1>5, <1>9 DEF IInv, TypeOK
  <2>4. past' \in [starts : 0 .. MaxStarts, ending : EndsOfProcess, odd : BOOLEAN,
                   failed : BOOLEAN, refused : BOOLEAN, hidden : SUBSET windows'.made]
    BY <1>5, <1>9, <2>3 DEF Past
  <2>5. TypeOK'
    BY <1>6, <1>9, <2>2, <2>4 DEF IInv, TypeOK, MachineTypeOK, MachineType
  <2>6. Causes'
    BY <1>5, <1>6, <1>7, <1>9
       DEF IInv, Causes, AbortFollowsFailure, UnconnectedFollowsRefusal
  <2>7. Behind'
    BY <1>7, <1>9, <2>2 DEF Behind, SessionIsWhole, NoDeadEnd
  <2>8. Shown'
    BY <1>5, <1>9 DEF IInv, Shown, Kept, configVars
  <2>9. QED
    BY <2>5, <2>6, <2>7, <2>8 DEF IInv
<1>10. ui \in [startup : BOOLEAN, message : BOOLEAN, path : {ui.path}]
  BY DEF IInv, TypeOK
<1>11. CASE ui' = [ui EXCEPT !.path = path]
  BY <1>10, <1>11, <1>1, <1>2, <1>8, <1>9 DEF Browse
<1>12. CASE Shows([ui EXCEPT !.path = path])
  BY <1>10, <1>12, <1>1, <1>2, <1>8, <1>9 DEF Browse, Shows
<1>13. QED
  BY <1>1, <1>8, <1>11, <1>12 DEF Browse

LEMMA ChooseIInv ==
    ASSUME IInv, NEW key \in OptionKeys, NEW word, Choose(key, word)
    PROVE  IInv'
<1>1. \A w \in AllWindows : GetBool(config_', Key(w)) = GetBool(config_, Key(w))
  <2> SUFFICES ASSUME NEW w \in AllWindows
               PROVE  GetBool(config_', Key(w)) = GetBool(config_, Key(w))
    OBVIOUS
  <2>1. Key(w) # key
    BY NamesAssumption
  <2>2. config_' = Set(config_, key, <<word>>)
    BY DEF Choose, SaveAs
  <2>3. QED
    BY <2>1, <2>2, OtherKeys
<1>2. UNCHANGED <<machine, process, ui, model, windows, past>>
  BY DEF Choose, lifeVars
<1>3. Kept' = Kept
  BY <1>1, <1>2, Types DEF Kept
<1>4. TypeOK' /\ Causes' /\ Behind'
  BY <1>2 DEF IInv, TypeOK, MachineTypeOK, Causes, AbortFollowsFailure,
              UnconnectedFollowsRefusal, Behind, SessionIsWhole, NoDeadEnd, Mismatch
<1>5. Shown'
  BY <1>2, <1>3 DEF IInv, Shown
<1>6. QED
  BY <1>4, <1>5 DEF IInv

\* What a step that only moves windows must show.
LEMMA WindowStep ==
    ASSUME IInv, UNCHANGED <<machine, process, ui, model>>,
           windows' \in [made : SUBSET AllWindows, visible : SUBSET windows'.made,
                         collapsed : SUBSET windows'.made],
           NEW h \in SUBSET windows'.made, past' = [past EXCEPT !.hidden = h],
           Shown'
    PROVE  IInv'
<1>1. past' \in [starts : 0 .. MaxStarts, ending : EndsOfProcess, odd : BOOLEAN,
                 failed : BOOLEAN, refused : BOOLEAN, hidden : SUBSET windows'.made]
  BY DEF IInv, TypeOK
<1>2. /\ past'.ending = past.ending /\ past'.failed = past.failed
      /\ past'.refused = past.refused
  BY DEF IInv, TypeOK
<1>3. TypeOK'
  BY <1>1 DEF IInv, TypeOK, MachineTypeOK
<1>4. Causes' /\ Behind'
  BY <1>2 DEF IInv, Causes, AbortFollowsFailure, UnconnectedFollowsRefusal, Behind,
              SessionIsWhole, NoDeadEnd, Mismatch
<1>5. QED
  BY <1>3, <1>4 DEF IInv

LEMMA OpenWindowIInv ==
    ASSUME IInv, NEW w \in AllWindows, OpenWindow(w)
    PROVE  IInv'
<1>1. CASE w \notin windows.made
  BY <1>1, Messages DEF OpenWindow, Shows, configVars
<1>2. CASE w \in windows.made
  <2> DEFINE h == past.hidden \ {w}
  <2>1. /\ UNCHANGED <<machine, process, ui, model>>
        /\ windows' = [windows EXCEPT !.visible = @ \cup {w}]
        /\ past' = [past EXCEPT !.hidden = h]
        /\ config_' = Set(config_, Key(w), <<"true">>)
        /\ model.session
    BY <1>2 DEF OpenWindow, SaveAs
  <2>2. /\ windows' \in [made : SUBSET AllWindows, visible : SUBSET windows'.made,
                          collapsed : SUBSET windows'.made]
        /\ windows'.made = windows.made /\ windows'.visible = windows.visible \cup {w}
    BY <1>2, <2>1 DEF IInv, TypeOK
  <2>3. h \in SUBSET windows'.made /\ past'.hidden = h
    BY <2>1, <2>2 DEF IInv, TypeOK
  <2>4. \A v \in AllWindows : GetBool(config_', Key(v)) <=>
                                (v = w \/ GetBool(config_, Key(v)))
    <3> SUFFICES ASSUME NEW v \in AllWindows
                 PROVE  GetBool(config_', Key(v)) <=> (v = w \/ GetBool(config_, Key(v)))
      OBVIOUS
    <3>1. CASE v = w
      BY <2>1, <3>1, ThisKey
    <3>2. CASE v # w
      <4>1. Key(w) # Key(v)
        BY <3>2, NamesAssumption
      <4>2. GetBool(config_', Key(v)) = GetBool(config_, Key(v))
        BY <2>1, <4>1, OtherKeys
      <4>3. QED
        BY <3>2, <4>2
    <3>3. QED
      BY <3>1, <3>2
  <2>5. Kept' = Kept \cup {w}
    BY <1>2, <2>2, <2>4, Types DEF Kept
  <2>6. Shown'
    BY <2>1, <2>2, <2>3, <2>5 DEF IInv, Shown
  <2> HIDE DEF h
  <2>7. QED
    BY <2>1, <2>2, <2>3, <2>6, WindowStep
<1>3. QED
  BY <1>1, <1>2

LEMMA CollapseIInv ==
    ASSUME IInv, NEW w \in AllWindows, Collapse(w)
    PROVE  IInv'
<1>1. /\ windows' \in [made : SUBSET AllWindows, visible : SUBSET windows'.made,
                        collapsed : SUBSET windows'.made]
      /\ windows'.made = windows.made /\ windows'.visible = windows.visible
  BY DEF IInv, TypeOK, Collapse
<1>2. past.hidden \in SUBSET windows'.made /\ past' = [past EXCEPT !.hidden = past.hidden]
  BY <1>1 DEF IInv, TypeOK, Collapse
<1>3. UNCHANGED <<machine, process, ui, model, config_, past>>
  BY DEF Collapse
<1>4. Shown'
  BY <1>1, <1>3 DEF IInv, Shown, Kept
<1>5. QED
  BY <1>1, <1>2, <1>3, <1>4, WindowStep

LEMMA CloseWindowIInv ==
    ASSUME IInv, NEW w \in AllWindows, CloseWindow(w)
    PROVE  IInv'
<1>1. /\ UNCHANGED <<machine, process, ui, model>>
      /\ windows' = [windows EXCEPT !.visible = @ \ {w}] /\ w \in windows.visible
  BY DEF CloseWindow
<1>2. /\ windows' \in [made : SUBSET AllWindows, visible : SUBSET windows'.made,
                        collapsed : SUBSET windows'.made]
      /\ windows'.made = windows.made /\ windows'.visible = windows.visible \ {w}
  BY <1>1 DEF IInv, TypeOK
<1>3. model.session /\ w \notin past.hidden /\ w \in windows.made
  BY <1>1 DEF IInv, Shown, TypeOK
<1>4. CASE w \in windows.collapsed
  <2> DEFINE h == past.hidden \cup {w}
  <2>1. past' = [past EXCEPT !.hidden = h] /\ config_' = config_
    BY <1>4 DEF CloseWindow, configVars
  <2>2. h \in SUBSET windows'.made /\ past'.hidden = h
    BY <1>2, <1>3, <2>1 DEF IInv, TypeOK
  <2>3. Kept' = Kept
    BY <1>2, <2>1 DEF Kept
  <2>4. Shown'
    BY <1>1, <1>2, <1>3, <2>2, <2>3 DEF IInv, Shown
  <2> HIDE DEF h
  <2>5. QED
    BY <1>1, <1>2, <2>1, <2>2, <2>4, WindowStep
<1>5. CASE w \notin windows.collapsed
  <2>1. past' = past /\ config_' = Without(config_, {Key(w)})
    BY <1>5 DEF CloseWindow, SaveAs
  <2>2. past.hidden \in SUBSET windows'.made /\ past' = [past EXCEPT !.hidden = past.hidden]
    BY <1>2, <2>1 DEF IInv, TypeOK
  <2>3. \A v \in AllWindows : GetBool(config_', Key(v)) <=>
                                (v # w /\ GetBool(config_, Key(v)))
    <3> SUFFICES ASSUME NEW v \in AllWindows
                 PROVE  GetBool(config_', Key(v)) <=> (v # w /\ GetBool(config_, Key(v)))
      OBVIOUS
    <3>1. CASE v = w
      BY <2>1, <3>1, ThisKey
    <3>2. CASE v # w
      <4>1. Key(v) \notin {Key(w)}
        BY <3>2, NamesAssumption
      <4>2. GetBool(config_', Key(v)) = GetBool(config_, Key(v))
        BY <2>1, <4>1, OtherKeys
      <4>3. QED
        BY <3>2, <4>2
    <3>3. QED
      BY <3>1, <3>2
  <2>4. Kept' = Kept \ {w}
    BY <1>2, <2>3, Types DEF Kept
  <2>5. Shown'
    BY <1>1, <1>2, <1>3, <2>1, <2>4 DEF IInv, Shown
  <2>6. QED
    BY <1>1, <1>2, <2>2, <2>5, WindowStep
<1>6. QED
  BY <1>4, <1>5

LEMMA EndIInv ==
    ASSUME IInv, NEW why \in {"quit", "killed", "cut", "compile", "refused", "undefined",
                              "mismatch", "type"},
           Ends(why, past)
    PROVE  IInv'
<1>1. PICK p : p = past
  OBVIOUS
<1>2. p \in Past /\ Ends(why, p)
  BY <1>1, Types
<1>3. why \in EndsOfProcess /\ why # "abort" /\ why # "unconnected"
  BY DEF EndsOfProcess
<1>4. QED
  BY <1>2, <1>3, EndsIInv

LEMMA UnconnectedIInv ==
    ASSUME IInv, past.refused, Ends("unconnected", past)
    PROVE  IInv'
<1>1. PICK p : p = past
  OBVIOUS
<1>2. p \in Past /\ Ends("unconnected", p) /\ p.refused
  BY <1>1, Types
<1>3. QED
  BY <1>2, EndsIInv DEF EndsOfProcess

\* Lua aborts a compilation of a definition that failed before, or over a type.
LEMMA AbortIInv ==
    ASSUME IInv, NEW outcome \in Outcomes, CompileResult(machine, outcome) = "aborts",
           Ends(Abort, past)
    PROVE  IInv'
<1>1. CASE machine.top = "definition"
  BY <1>1, EndIInv DEF Abort
<1>2. CASE machine.top # "definition"
  <2>1. PICK m : m = machine
    OBVIOUS
  <2>2. machine.loaded
    BY <2>1, CompiledType, Types
  <2>3. past.failed
    BY <1>2, <2>2 DEF IInv, Causes
  <2>4. PICK p : p = past
    OBVIOUS
  <2>5. p \in Past /\ Ends("abort", p) /\ p.failed
    BY <1>2, <2>3, <2>4, Types DEF Abort
  <2>6. QED
    BY <2>5, EndsIInv DEF EndsOfProcess
<1>3. QED
  BY <1>1, <1>2

-----------------------------------------------------------------------------
(* Starting a session *)

\* A session opens the windows whose settings say so; nothing is hidden then.
LEMMA SessionShows ==
    ASSUME IInv, NEW m, m \in ModelType, m.session = model.session, SessionStarts(m),
           \A w \in AllWindows : GetBool(config_', Key(w)) <=> GetBool(config_, Key(w))
    PROVE  /\ Shown'
           /\ windows' \in [made : SUBSET AllWindows, visible : SUBSET windows'.made,
                            collapsed : SUBSET windows'.made]
           /\ past' \in [starts : 0 .. MaxStarts, ending : EndsOfProcess, odd : BOOLEAN,
                         failed : BOOLEAN, refused : BOOLEAN,
                         hidden : SUBSET windows'.made]
           /\ past'.ending = past.ending /\ past'.failed = past.failed
           /\ past'.refused = past.refused
           /\ model' \in ModelType /\ model'.session /\ model'.upload = m.upload
           /\ model'.link = m.link /\ model'.compiled = m.compiled
<1>1. /\ model' = [m EXCEPT !.session = TRUE]
      /\ windows' = [windows EXCEPT !.visible = Reopened]
      /\ past' = [past EXCEPT !.hidden = @ \ Reopened]
  BY DEF SessionStarts
<1>2. Reopened = windows.visible \cup Kept
  BY Types DEF Reopened, Kept
<1>3. windows.visible \subseteq windows.made /\ Kept \subseteq windows.made
  BY DEF IInv, TypeOK, Kept
<1>4. /\ windows' \in [made : SUBSET AllWindows, visible : SUBSET windows'.made,
                        collapsed : SUBSET windows'.made]
      /\ windows'.made = windows.made /\ windows'.visible = windows.visible \cup Kept
  BY <1>1, <1>2, <1>3 DEF IInv, TypeOK
<1>5. windows.visible \subseteq Kept /\ past.hidden \subseteq Kept
  BY DEF IInv, Shown
<1>6. /\ past' \in [starts : 0 .. MaxStarts, ending : EndsOfProcess, odd : BOOLEAN,
                    failed : BOOLEAN, refused : BOOLEAN, hidden : SUBSET windows'.made]
      /\ past'.ending = past.ending /\ past'.failed = past.failed
      /\ past'.refused = past.refused /\ past'.hidden = {}
  BY <1>1, <1>2, <1>4, <1>5 DEF IInv, TypeOK
<1>7. Kept' = Kept
  BY <1>4, Types DEF Kept
<1>8. /\ model' \in ModelType /\ model'.session /\ model'.upload = m.upload
      /\ model'.link = m.link /\ model'.compiled = m.compiled
  BY <1>1 DEF ModelType
<1>9. Shown'
  BY <1>4, <1>5, <1>6, <1>7, <1>8 DEF Shown
<1>10. QED
  BY <1>4, <1>6, <1>8, <1>9

\* The Startup window connects, or shows why it cannot, with a definition that
\* has just been compiled.
LEMMA AttachIInv ==
    ASSUME IInv, NEW m, m \in ModelType, NEW link \in Links,
           m.session = model.session, Attach(m, link),
           process # "off", ui.startup, machine' \in MachineType,
           machine'.loaded, machine'.top = "definition",
           machine'.registers = machine.registers,
           \A w \in AllWindows : GetBool(config_', Key(w)) <=> GetBool(config_, Key(w))
    PROVE  IInv'
<1> DEFINE opened == [m EXCEPT !.link = IF link = "unchanged" THEN @ ELSE link]
<1>1. /\ opened \in ModelType /\ opened.session = model.session
      /\ opened.upload = m.upload
      /\ link = "acked" => opened.link = "acked"
  BY DEF Links, ModelType
<1> HIDE DEF opened
<1>2. process' = "running" /\ past.ending = "none" /\ (Mismatch' <=> Mismatch)
  BY DEF Attach, IInv, Causes, Mismatch
<1>3. CASE Shows(ui) /\ model' = opened /\ past' = [past EXCEPT !.refused = TRUE]
           /\ UNCHANGED windows
  <2>1. /\ ui' \in [startup : BOOLEAN, message : BOOLEAN, path : {ui'.path}]
        /\ ui'.startup
    BY <1>3 DEF Shows, IInv, TypeOK
  <2>2. /\ past' \in [starts : 0 .. MaxStarts, ending : EndsOfProcess, odd : BOOLEAN,
                      failed : BOOLEAN, refused : BOOLEAN, hidden : SUBSET windows'.made]
        /\ past'.ending = past.ending /\ past'.refused /\ past'.hidden = past.hidden
    BY <1>3 DEF IInv, TypeOK
  <2>3. TypeOK'
    BY <1>1, <1>2, <1>3, <2>1, <2>2
       DEF IInv, TypeOK, MachineTypeOK, MachineType, ModelType
  <2>4. Causes' /\ Behind'
    BY <1>2, <2>1, <2>2 DEF Causes, AbortFollowsFailure, UnconnectedFollowsRefusal,
                            Behind, SessionIsWhole, NoDeadEnd
  <2>5. Kept' = Kept
    BY <1>3, Types DEF Kept
  <2>6. Shown'
    BY <1>1, <1>3, <2>2, <2>5 DEF IInv, Shown
  <2>7. QED
    BY <2>3, <2>4, <2>6 DEF IInv
<1>4. CASE /\ link = "acked" /\ ui' = [ui EXCEPT !.startup = FALSE]
           /\ model' = [opened EXCEPT !.upload = TRUE] /\ UNCHANGED <<windows, past>>
  <2>1. /\ ui' \in [startup : BOOLEAN, message : BOOLEAN, path : {ui'.path}]
        /\ model' \in ModelType /\ model'.upload /\ model'.link = "acked"
        /\ model'.session = model.session
    BY <1>1, <1>4 DEF IInv, TypeOK, ModelType
  <2>2. TypeOK'
    BY <1>2, <1>4, <2>1 DEF IInv, TypeOK, MachineTypeOK, MachineType, ModelType
  <2>3. Causes' /\ Behind'
    BY <1>2, <1>4, <2>1 DEF Causes, AbortFollowsFailure, UnconnectedFollowsRefusal,
                            Behind, SessionIsWhole, NoDeadEnd
  <2>4. Kept' = Kept
    BY <1>4, Types DEF Kept
  <2>5. Shown'
    BY <1>4, <2>1, <2>4 DEF IInv, Shown
  <2>6. QED
    BY <2>2, <2>3, <2>5 DEF IInv
<1>5. CASE link = "acked" /\ InitInWindow(opened)
  <2> DEFINE u == [ui EXCEPT !.startup = FALSE]
  <2>1. CASE Mismatch
    <3>1. Shows(u) /\ model' = opened /\ UNCHANGED <<windows, past>>
      BY <1>5, <2>1 DEF InitInWindow
    <3>2. ui' \in [startup : BOOLEAN, message : BOOLEAN, path : {ui'.path}]
      BY <3>1 DEF Shows, IInv, TypeOK
    <3>3. TypeOK'
      BY <1>1, <1>2, <3>1, <3>2
         DEF IInv, TypeOK, MachineTypeOK, MachineType, ModelType
    <3>4. Causes' /\ Behind'
      BY <1>1, <1>2, <1>5, <2>1, <3>1
         DEF Causes, AbortFollowsFailure, UnconnectedFollowsRefusal, Behind,
             SessionIsWhole, NoDeadEnd
    <3>5. Kept' = Kept
      BY <3>1, Types DEF Kept
    <3>6. Shown'
      BY <1>1, <3>1, <3>5 DEF IInv, Shown
    <3>7. QED
      BY <3>3, <3>4, <3>6 DEF IInv
  <2>2. CASE ~ Mismatch
    <3>1. SessionStarts(opened) /\ ui' = u
      BY <1>5, <2>2 DEF InitInWindow
    <3>2. ui' \in [startup : BOOLEAN, message : BOOLEAN, path : {ui'.path}]
      BY <3>1 DEF IInv, TypeOK
    <3>3. /\ Shown'
          /\ windows' \in [made : SUBSET AllWindows, visible : SUBSET windows'.made,
                           collapsed : SUBSET windows'.made]
          /\ past' \in [starts : 0 .. MaxStarts, ending : EndsOfProcess, odd : BOOLEAN,
                        failed : BOOLEAN, refused : BOOLEAN,
                        hidden : SUBSET windows'.made]
          /\ past'.ending = past.ending
          /\ model' \in ModelType /\ model'.session /\ model'.link = "acked"
      BY <1>1, <1>5, <3>1, SessionShows
    <3>4. TypeOK'
      BY <1>2, <3>2, <3>3 DEF TypeOK, MachineTypeOK, MachineType, ModelType
    <3>5. Causes' /\ Behind'
      BY <1>2, <3>3 DEF Causes, AbortFollowsFailure, UnconnectedFollowsRefusal, Behind,
                        SessionIsWhole, NoDeadEnd
    <3>6. QED
      BY <3>3, <3>4, <3>5 DEF IInv
  <2>3. QED
    BY <2>1, <2>2
<1>6. QED
  BY <1>3, <1>4, <1>5 DEF Attach, opened

\* init_debugging_session, called by update.
LEMMA InitInUpdateIInv ==
    ASSUME IInv, NEW m, m \in ModelType, m.session = model.session,
           NEW compiled, compiled \in MachineType, InitInUpdate(m, compiled),
           UNCHANGED configVars, process = "running",
           compiled.registers = machine.registers,
           compiled.loaded /\ compiled.top # "definition" => past.failed,
           ~ ui.startup => /\ compiled.loaded /\ compiled.top = "definition"
                           /\ m.link = "acked",
           m.link \in {"none", "closed"} => past.refused
    PROVE  IInv'
<1>1. past.ending = "none"
  BY DEF IInv, Causes
<1>2. CASE /\ m.link = "none" /\ process' = "blocked" /\ model' = m
           /\ machine' = compiled /\ UNCHANGED <<ui, windows, past>>
  <2>1. TypeOK'
    BY <1>2 DEF IInv, TypeOK, MachineTypeOK, MachineType, ModelType
  <2>2. Causes' /\ Behind'
    BY <1>1, <1>2 DEF Causes, AbortFollowsFailure, UnconnectedFollowsRefusal, Behind,
                      SessionIsWhole, NoDeadEnd
  <2>3. Shown'
    BY <1>2 DEF IInv, Shown, Kept, configVars
  <2>4. QED
    BY <2>1, <2>2, <2>3 DEF IInv
<1>3. CASE m.link \in {"none", "closed"} /\ Ends("unconnected", past)
  BY <1>3, UnconnectedIInv
<1>4. CASE Ends("mismatch", past) \/ Ends("refused", past)
  BY <1>4, EndIInv
<1>5. CASE /\ m.link \in {"open", "acked"} /\ ~ Mismatch /\ SessionStarts(m)
           /\ machine' = compiled /\ UNCHANGED <<process, ui>>
  <2>1. \A w \in AllWindows : GetBool(config_', Key(w)) <=> GetBool(config_, Key(w))
    BY DEF configVars
  <2>2. /\ Shown'
        /\ windows' \in [made : SUBSET AllWindows, visible : SUBSET windows'.made,
                         collapsed : SUBSET windows'.made]
        /\ past' \in [starts : 0 .. MaxStarts, ending : EndsOfProcess, odd : BOOLEAN,
                      failed : BOOLEAN, refused : BOOLEAN, hidden : SUBSET windows'.made]
        /\ past'.ending = past.ending /\ past'.failed = past.failed
        /\ model' \in ModelType /\ model'.session /\ model'.link = m.link
    BY <1>5, <2>1, SessionShows
  <2>3. TypeOK'
    BY <1>5, <2>2 DEF IInv, TypeOK, MachineTypeOK, MachineType, ModelType
  <2>4. Causes' /\ Behind'
    BY <1>1, <1>5, <2>2 DEF Causes, AbortFollowsFailure, UnconnectedFollowsRefusal,
                            Behind, SessionIsWhole, NoDeadEnd
  <2>5. QED
    BY <2>2, <2>3, <2>4 DEF IInv
<1>6. QED
  BY <1>2, <1>3, <1>4, <1>5 DEF InitInUpdate

-----------------------------------------------------------------------------
(* "Connect & Upload" *)

\* Saving the settings of the Startup window leaves those of other windows.
LEMMA SaveKeepsWindows ==
    ASSUME NEW s, NEW k \in 1 .. 5, SaveSettings(s, k)
    PROVE  \A w \in AllWindows : GetBool(config_', Key(w)) <=> GetBool(config_, Key(w))
<1> SUFFICES ASSUME NEW w \in AllWindows
             PROVE  GetBool(config_', Key(w)) <=> GetBool(config_, Key(w))
  OBVIOUS
<1>1. PICK config, settings : config = config_ /\ settings = SettingsOf(s)
  OBVIOUS
<1>2. config_' = With(config, settings, k)
  BY <1>1 DEF SaveSettings, SaveAs
<1>3. QED
  BY <1>1, <1>2, ConnectKeepsWindows

\* What CompiledType says of the machine.
LEMMA CompileHere ==
    ASSUME IInv, NEW outcome \in Outcomes
    PROVE  /\ Compiled(machine, outcome) \in MachineType
           /\ Compiled(machine, outcome).registers = machine.registers
           /\ Compiled(machine, outcome).loaded = machine.loaded
           /\ CompileResult(machine, outcome) = "ok" =>
                /\ machine.loaded /\ machine.top = "definition"
                /\ Compiled(machine, outcome).top = "definition"
           /\ CompileResult(machine, outcome) \in Results
<1>1. PICK m : m = machine
  OBVIOUS
<1>2. m \in MachineType
  BY <1>1, Types
<1>3. QED
  BY <1>1, <1>2, CompiledType

LEMMA CompileFailsIInv ==
    ASSUME IInv, NEW s, NEW outcome \in Outcomes, CompileFails(s, outcome)
    PROVE  IInv'
<1> DEFINE result == CompileResult(machine, outcome)
<1>1. process = "running" /\ ui.startup /\ SaveSettings(s, 5)
  BY DEF CompileFails, Connects, Clicks
<1>2. CASE result = "aborts" /\ Ends(Abort, past)
  BY <1>2, AbortIInv
<1>3. CASE /\ result # "aborts" /\ machine' = Compiled(machine, outcome) /\ Shows(ui)
           /\ past' = [past EXCEPT !.failed = @ \/ result = "throws"]
           /\ UNCHANGED <<process, model, windows>>
  <2>1. /\ ui' \in [startup : BOOLEAN, message : BOOLEAN, path : {ui'.path}]
        /\ ui'.startup
    BY <1>1, <1>3 DEF Shows, IInv, TypeOK
  <2>2. (past.failed \/ result = "throws") \in BOOLEAN
    OBVIOUS
  <2> HIDE DEF result
  <2>3. /\ past' \in [starts : 0 .. MaxStarts, ending : EndsOfProcess, odd : BOOLEAN,
                      failed : BOOLEAN, refused : BOOLEAN, hidden : SUBSET windows'.made]
        /\ past'.ending = past.ending /\ past'.refused = past.refused
        /\ past'.hidden = past.hidden
        /\ past'.failed <=> past.failed \/ result = "throws"
    BY <1>3, <2>2 DEF IInv, TypeOK
  <2>4. /\ machine' \in MachineType /\ result \in Results
        /\ result = "ok" => machine'.top = "definition"
    BY <1>3, CompileHere DEF result
  <2>5. machine'.top # "definition" => past'.failed
    BY <1>3, <2>3, <2>4 DEF Results
  <2>6. TypeOK'
    BY <1>3, <2>1, <2>3, <2>4 DEF IInv, TypeOK, MachineTypeOK, MachineType
  <2>7. Causes' /\ Behind'
    BY <1>1, <1>3, <2>1, <2>3, <2>5
       DEF IInv, Causes, AbortFollowsFailure, UnconnectedFollowsRefusal, Behind,
           SessionIsWhole, NoDeadEnd
  <2>8. Kept' = Kept
    BY <1>1, <1>3, SaveKeepsWindows, Types DEF Kept
  <2>9. Shown'
    BY <1>3, <2>3, <2>8 DEF IInv, Shown
  <2>10. QED
    BY <2>6, <2>7, <2>9 DEF IInv
<1>4. QED
  BY <1>2, <1>3 DEF CompileFails

LEMMA StartEmulatorIInv ==
    ASSUME IInv, NEW s, NEW outcome \in Outcomes, StartEmulator(s, outcome)
    PROVE  IInv'
<1>1. /\ ui.startup /\ process = "running" /\ SaveSettings(s, 5) /\ Compiles(outcome)
      /\ process' = "waiting" /\ model' = [model EXCEPT !.compiled = outcome]
      /\ UNCHANGED <<ui, windows, past>>
  BY DEF StartEmulator, Connects, Clicks
<1>2. /\ machine' \in MachineType /\ machine'.loaded /\ machine'.top = "definition"
      /\ outcome # "reports" /\ outcome \in {"binaries", "no_binaries"}
  <2>1. CompileResult(machine, outcome) = "ok" /\ outcome # "reports"
    BY <1>1 DEF Compiles
  <2>2. outcome \in {"binaries", "no_binaries"}
    BY <2>1 DEF CompileResult, Outcomes
  <2>3. QED
    BY <1>1, <2>1, <2>2, CompileHere DEF Compiles
<1>3. model' \in ModelType /\ model'.session = model.session
  BY <1>1, <1>2, Types DEF ModelType
<1>4. TypeOK'
  BY <1>1, <1>2, <1>3 DEF IInv, TypeOK, MachineTypeOK, MachineType, ModelType
<1>5. Causes' /\ Behind'
  BY <1>1, <1>2 DEF IInv, Causes, AbortFollowsFailure, UnconnectedFollowsRefusal,
                    Behind, SessionIsWhole, NoDeadEnd
<1>6. Kept' = Kept
  BY <1>1, SaveKeepsWindows, Types DEF Kept
<1>7. Shown'
  BY <1>1, <1>3, <1>6 DEF IInv, Shown
<1>8. QED
  BY <1>4, <1>5, <1>7 DEF IInv

LEMMA ConnectIInv ==
    ASSUME IInv, NEW s, NEW outcome \in Outcomes, NEW link \in Links,
           Connect(s, outcome, link)
    PROVE  IInv'
<1>1. /\ ui.startup /\ process = "running" /\ SaveSettings(s, 5) /\ Compiles(outcome)
      /\ Attach([model EXCEPT !.compiled = outcome], link)
  BY DEF Connect, Connects, Clicks
<1>2. /\ machine' \in MachineType /\ machine'.loaded /\ machine'.top = "definition"
      /\ machine'.registers = machine.registers
      /\ outcome \in {"binaries", "no_binaries"}
  <2>1. CompileResult(machine, outcome) = "ok" /\ outcome # "reports"
    BY <1>1 DEF Compiles
  <2>2. outcome \in {"binaries", "no_binaries"}
    BY <2>1 DEF CompileResult, Outcomes
  <2>3. QED
    BY <1>1, <2>1, <2>2, CompileHere DEF Compiles
<1>3. PICK m : m = [model EXCEPT !.compiled = outcome]
  OBVIOUS
<1>4. m \in ModelType /\ m.session = model.session
  BY <1>2, <1>3, Types DEF ModelType
<1>5. Attach(m, link)
  BY <1>1, <1>3
<1>6. \A w \in AllWindows : GetBool(config_', Key(w)) <=> GetBool(config_, Key(w))
  BY <1>1, SaveKeepsWindows
<1>7. process # "off"
  BY <1>1
<1>8. QED
  BY <1>1, <1>2, <1>4, <1>5, <1>6, <1>7, AttachIInv

LEMMA EmulatorAnswersIInv ==
    ASSUME IInv, NEW found \in DOMAIN PortFile, EmulatorAnswers(found)
    PROVE  IInv'
<1>1. PICK link \in PortFile[found] :
        process = "waiting" /\ UNCHANGED <<configVars, machine>> /\ Attach(model, link)
  BY DEF EmulatorAnswers
<1>2. link \in Links
  BY DEF PortFile, Links
<1>3. ui.startup /\ machine.loaded /\ machine.top = "definition"
  BY <1>1 DEF IInv, Behind
<1>4. PICK m : m = model
  OBVIOUS
<1>5. m \in ModelType /\ m.session = model.session /\ Attach(m, link)
  BY <1>1, <1>4, Types
<1>6. machine' \in MachineType /\ process # "off"
  BY <1>1, Types
<1>7. \A w \in AllWindows : GetBool(config_', Key(w)) <=> GetBool(config_, Key(w))
  BY <1>1 DEF configVars
<1>8. QED
  BY <1>1, <1>2, <1>3, <1>5, <1>6, <1>7, AttachIInv

LEMMA KilledInSaveIInv ==
    ASSUME IInv, NEW s, KilledInSave(s)
    PROVE  IInv'
BY EndIInv DEF KilledInSave

-----------------------------------------------------------------------------
(* Model::update *)

LEMMA UploadStepIInv ==
    ASSUME IInv, UploadStep
    PROVE  IInv'
<1>1. process = "running" /\ model.upload /\ UNCHANGED configVars
  BY DEF UploadStep
<1>2. CASE InitInUpdate([model EXCEPT !.upload = FALSE], machine)
  <2>1. PICK m, compiled : m = [model EXCEPT !.upload = FALSE] /\ compiled = machine
    OBVIOUS
  <2>2. /\ m \in ModelType /\ m.session = model.session /\ m.link = model.link
        /\ compiled \in MachineType /\ compiled.registers = machine.registers
    BY <2>1, Types DEF ModelType
  <2>3. InitInUpdate(m, compiled)
    BY <1>2, <2>1
  <2>4. /\ compiled.loaded /\ compiled.top # "definition" => past.failed
        /\ ~ ui.startup => /\ compiled.loaded /\ compiled.top = "definition"
                           /\ m.link = "acked"
        /\ m.link \in {"none", "closed"} => past.refused
    BY <1>1, <2>1, <2>2 DEF IInv, Causes, Behind, SessionIsWhole
  <2>5. QED
    BY <1>1, <2>2, <2>3, <2>4, InitInUpdateIInv
<1>3. QED
  BY <1>2, EndIInv DEF UploadStep

LEMMA RecompileIInv ==
    ASSUME IInv, NEW outcome \in Outcomes, Recompile(outcome)
    PROVE  IInv'
<1> DEFINE result == CompileResult(machine, outcome)
<1>1. process = "running" /\ model.compiled # "nothing" /\ UNCHANGED configVars
  BY DEF Recompile
<1>2. CASE result = "aborts" /\ Ends(Abort, past)
  BY <1>2, AbortIInv
<1>3. CASE Ends("compile", past)
  BY <1>3, EndIInv
<1>4. CASE Ends("compile", [past EXCEPT !.failed = TRUE])
  <2>1. PICK p : p = [past EXCEPT !.failed = TRUE]
    OBVIOUS
  <2>2. p \in Past /\ Ends("compile", p)
    BY <1>4, <2>1, Types DEF Past
  <2>3. QED
    BY <2>2, EndsIInv DEF EndsOfProcess
<1>5. ASSUME result = "ok", outcome \in {"binaries", "no_binaries"}
      PROVE  /\ Compiled(machine, outcome) \in MachineType
             /\ Compiled(machine, outcome).registers = machine.registers
             /\ Compiled(machine, outcome).loaded
             /\ Compiled(machine, outcome).top = "definition"
             /\ [model EXCEPT !.compiled = outcome] \in ModelType
  <2>1. [model EXCEPT !.compiled = outcome] \in ModelType
    BY <1>5, Types DEF ModelType
  <2>2. QED
    BY <1>5, <2>1, CompileHere
<1>6. CASE /\ result = "ok" /\ outcome = "binaries"
           /\ model' = [model EXCEPT !.compiled = outcome, !.upload = TRUE]
           /\ machine' = Compiled(machine, outcome)
           /\ UNCHANGED <<process, ui, windows, past>>
  <2>1. /\ model' \in ModelType /\ model'.upload /\ model'.session = model.session
        /\ model'.link = model.link
    BY <1>6, Types DEF ModelType
  <2>2. /\ machine' \in MachineType /\ machine'.registers = machine.registers
        /\ machine'.loaded /\ machine'.top = "definition"
    BY <1>5, <1>6
  <2>3. TypeOK'
    BY <1>6, <2>1, <2>2 DEF IInv, TypeOK, MachineTypeOK, MachineType, ModelType
  <2>4. Causes' /\ Behind'
    BY <1>1, <1>6, <2>1, <2>2
       DEF IInv, Causes, AbortFollowsFailure, UnconnectedFollowsRefusal, Behind,
           SessionIsWhole, NoDeadEnd
  <2>5. Shown'
    BY <1>1, <1>6, <2>1 DEF IInv, Shown, Kept, configVars
  <2>6. QED
    BY <2>3, <2>4, <2>5 DEF IInv
<1>7. CASE /\ result = "ok" /\ outcome = "no_binaries"
           /\ InitInUpdate([model EXCEPT !.compiled = outcome], Compiled(machine, outcome))
  <2>1. PICK m, compiled : /\ m = [model EXCEPT !.compiled = outcome]
                           /\ compiled = Compiled(machine, outcome)
    OBVIOUS
  <2>2. /\ m \in ModelType /\ compiled \in MachineType /\ compiled.loaded
        /\ compiled.registers = machine.registers /\ compiled.top = "definition"
    BY <1>5, <1>7, <2>1
  <2>3. m.session = model.session /\ m.link = model.link
    BY <2>1, Types DEF ModelType
  <2>4. InitInUpdate(m, compiled)
    BY <1>7, <2>1
  <2>5. /\ ~ ui.startup => m.link = "acked"
        /\ m.link \in {"none", "closed"} => past.refused
    BY <1>1, <2>3 DEF IInv, Causes, Behind, SessionIsWhole
  <2>6. QED
    BY <1>1, <2>2, <2>3, <2>4, <2>5, InitInUpdateIInv
<1>8. [[model EXCEPT !.compiled = outcome] EXCEPT !.upload = TRUE] =
      [model EXCEPT !.compiled = outcome, !.upload = TRUE]
  OBVIOUS
<1>9. QED
  BY <1>2, <1>3, <1>4, <1>6, <1>7, <1>8 DEF Recompile

-----------------------------------------------------------------------------
LEMMA StutterIInv ==
    ASSUME IInv, UNCHANGED vars
    PROVE  IInv'
BY DEF vars, lifeVars, IInv, TypeOK, MachineTypeOK, Causes, AbortFollowsFailure,
       UnconnectedFollowsRefusal, Behind, SessionIsWhole, NoDeadEnd, Mismatch, Shown, Kept

LEMMA NextIInv ==
    ASSUME IInv, [Next]_vars
    PROVE  IInv'
<1>1. CASE UNCHANGED vars
  BY <1>1, StutterIInv
<1>2. CASE StartEmpty
  BY <1>2, StartEmptyIInv
<1>3. CASE \E d \in Definitions : StartWith(d)
  BY <1>3, StartWithIInv
<1>4. CASE User
  <2>1. CASE ClickOk
    BY <2>1, Messages DEF ClickOk
  <2>2. CASE \E path \in MachinePaths, d \in Definitions : Browse(path, d)
    BY <2>2, BrowseIInv
  <2>3. CASE AutodetectFails
    BY <2>3, Messages DEF AutodetectFails, Shows
  <2>4. CASE (\E choice \in BoxChoices : Choose(choice[1], choice[2])) \/ LevelThrows
    BY <2>4, ChooseIInv, Messages, NamesAssumption DEF LevelThrows, Shows
  <2>5. CASE \E w \in AllWindows : OpenWindow(w) \/ Collapse(w) \/ CloseWindow(w)
    BY <2>5, OpenWindowIInv, CollapseIInv, CloseWindowIInv
  <2>6. CASE \E s \in Settings : KilledInSave(s)
    BY <2>6, KilledInSaveIInv
  <2>7. CASE \E s \in Settings, o \in Outcomes : CompileFails(s, o)
    BY <2>7, CompileFailsIInv
  <2>8. CASE \E s \in Settings, o \in Outcomes : StartEmulator(s, o)
    BY <2>8, StartEmulatorIInv
  <2>9. CASE \E s \in Settings, o \in Outcomes, link \in Links : Connect(s, o, link)
    BY <2>9, ConnectIInv
  <2>10. CASE Quit \/ Kill
    BY <2>10, EndIInv DEF Quit, Kill
  <2>11. QED
    BY <1>4, <2>1, <2>2, <2>3, <2>4, <2>5, <2>6, <2>7, <2>8, <2>9, <2>10 DEF User
<1>5. CASE \E found \in DOMAIN PortFile : EmulatorAnswers(found)
  BY <1>5, EmulatorAnswersIInv
<1>6. CASE UploadStep
  BY <1>6, UploadStepIInv
<1>7. CASE \E o \in Outcomes : Recompile(o)
  BY <1>7, RecompileIInv
<1>8. QED
  BY <1>1, <1>2, <1>3, <1>4, <1>5, <1>6, <1>7 DEF Next

-----------------------------------------------------------------------------
(* What load reads is what save wrote *)

\* Every set of numbers has a least one.
LEMMA Least ==
    ASSUME NEW T \in SUBSET Nat, T # {}
    PROVE  \E x \in T : \A y \in T : x <= y
<1> DEFINE Intervals == {0 .. n : n \in T}
<1>1. Intervals \subseteq FiniteSubsetsOf(Nat)
  <2>1. \A n \in T : IsFiniteSet(0 .. n) /\ 0 .. n \subseteq Nat
    BY FS_Interval
  <2> QED
    BY <2>1 DEF FiniteSubsetsOf
<1>2. PICK s \in Intervals : \A t \in Intervals : <<t, s>> \notin StrictSubsetOrdering(Nat)
  <2>1. Intervals # {}
    OBVIOUS
  <2> HIDE DEF Intervals
  <2> QED
    BY <1>1, <2>1, WFMin, FS_StrictSubsetOrderingWellFounded
<1>3. PICK x \in T : s = 0 .. x
  OBVIOUS
<1>4. ASSUME NEW y \in T, y < x
      PROVE  FALSE
  <2>1. /\ 0 .. y \in Intervals
        /\ 0 .. y \subseteq 0 .. x /\ 0 .. y # 0 .. x
        /\ 0 .. y \subseteq Nat /\ 0 .. x \subseteq Nat
    BY <1>4
  <2> QED
    BY <1>2, <1>3, <2>1 DEF StrictSubsetOrdering
<1> QED
  BY <1>4

\* FlattenSeq joins its sequences from the first to the last: its recursive
\* function exists for every length, and so for the length it is used with.
Joining(f, seqs) ==
    /\ FlattenSeq(seqs) = f[Len(seqs)]
    /\ f[1] = seqs[1]
    /\ \A i \in 2 .. Len(seqs) : f[i] = f[i - 1] \o seqs[i]

LEMMA Flattened ==
    ASSUME NEW seqs, Len(seqs) \in Nat \ {0}
    PROVE  \E f : Joining(f, seqs)
<1> DEFINE n == Len(seqs)
<1> DEFINE Joins(f, k) ==
             f = [i \in 1 .. k |-> IF i = 1 THEN seqs[i] ELSE f[i - 1] \o seqs[i]]
           T == {k \in Nat : ~ \E f : Joins(f, k)}
<1>1. T = {}
  <2> SUFFICES ASSUME T # {} PROVE FALSE
    OBVIOUS
  <2>1. T \in SUBSET Nat
    OBVIOUS
  <2>2. PICK k \in T : \A j \in T : k <= j
    <3> HIDE DEF T
    <3> QED
      BY <2>1, Least
  <2>3. k \in Nat /\ ~ \E f : Joins(f, k)
    OBVIOUS
  <2>4. CASE k = 0
    <3>1. 1 .. k = {}
      BY <2>4
    <3> DEFINE g == [i \in 1 .. k |-> seqs[i]]
    <3>2. Joins(g, k)
      BY <3>1
    <3> QED
      BY <2>3, <3>2
  <2>5. CASE k # 0
    <3>1. k - 1 \in Nat /\ k - 1 \notin T
      <4> HIDE DEF T
      <4> QED
        BY <2>2, <2>3, <2>5
    <3>2. PICK g : Joins(g, k - 1)
      BY <3>1
    <3>3. DOMAIN g = 1 .. k - 1
      BY <3>2
    <3>4. \A i \in 1 .. k - 1 : g[i] = IF i = 1 THEN seqs[i] ELSE g[i - 1] \o seqs[i]
      BY <3>2
    <3> DEFINE h == [i \in 1 .. k |->
                      IF i = k THEN IF i = 1 THEN seqs[i] ELSE g[i - 1] \o seqs[i]
                      ELSE g[i]]
    <3>5. \A i \in 1 .. k : h[i] = IF i = 1 THEN seqs[i] ELSE h[i - 1] \o seqs[i]
      <4> SUFFICES ASSUME NEW i \in 1 .. k
                   PROVE  h[i] = IF i = 1 THEN seqs[i] ELSE h[i - 1] \o seqs[i]
        OBVIOUS
      <4>1. i # 1 => i - 1 \in 1 .. k /\ i - 1 # k /\ h[i - 1] = g[i - 1]
        BY <2>3
      <4>2. CASE i = k
        BY <4>1, <4>2
      <4>3. CASE i # k
        <5>1. i \in 1 .. k - 1 /\ h[i] = g[i]
          BY <2>3, <4>3
        <5> QED
          BY <3>4, <4>1, <5>1
      <4> QED
        BY <4>2, <4>3
    <3>6. h = [i \in 1 .. k |-> h[i]]
      OBVIOUS
    <3>7. Joins(h, k)
      <4> HIDE DEF h
      <4> QED
        BY <3>5, <3>6
    <3> QED
      BY <2>3, <3>7
  <2> QED
    BY <2>4, <2>5
<1>2. \E f : Joins(f, n)
  <2>1. n \notin T
    BY <1>1
  <2> HIDE DEF Joins
  <2> QED
    BY <2>1
<1> DEFINE f == CHOOSE f : Joins(f, n)
<1>3. Joins(f, n)
  <2> HIDE DEF Joins
  <2> QED
    BY <1>2
<1>4. FlattenSeq(seqs) = f[n]
  BY DEF FlattenSeq
<1> HIDE DEF f
<1>5. \A i \in 1 .. n : f[i] = IF i = 1 THEN seqs[i] ELSE f[i - 1] \o seqs[i]
  BY <1>3
<1>6. 1 \in 1 .. n /\ \A i \in 2 .. n : i \in 1 .. n /\ i # 1
  OBVIOUS
<1>7. f[1] = seqs[1] /\ \A i \in 2 .. n : f[i] = f[i - 1] \o seqs[i]
  <2> HIDE DEF Joins
  <2> QED
    BY <1>5, <1>6
<1> QED
  BY <1>4, <1>7 DEF Joining

\* A configuration of known words.
Settled(config) ==
    DOMAIN config \subseteq ToSet(Order) /\ config \in [DOMAIN config -> Values]

\* The words are the keys with their values, of all the keys named.
Tells(words, config, keys) ==
    \E m \in Nat :
        /\ words \in Values /\ Len(words) = 2 * m
        /\ \A j \in 1 .. m : /\ words[2 * j - 1] \in DOMAIN config
                             /\ words[2 * j] = Head(config[words[2 * j - 1]])
        /\ \A key \in keys \cap DOMAIN config :
                \E j \in 1 .. m : words[2 * j - 1] = key

LineOf(config, key) == IF key \in DOMAIN config THEN <<key>> \o config[key] ELSE <<>>

LEMMA SavedIsJoined ==
    ASSUME NEW config
    PROVE  Saved(config) = FlattenSeq([i \in 1 .. Len(Order) |-> LineOf(config, Order[i])])
BY DEF Saved, LineOf

\* A key whose value is one word adds a pair.
LEMMA Line ==
    ASSUME NEW config, Settled(config), OneWord(config), NEW key \in ToSet(Order)
    PROVE  /\ LineOf(config, key) \in Values
           /\ key \notin DOMAIN config => LineOf(config, key) = <<>>
           /\ key \in DOMAIN config =>
                /\ Len(LineOf(config, key)) = 2
                /\ LineOf(config, key)[1] = key
                /\ LineOf(config, key)[2] = Head(config[key])
<1>1. CASE key \notin DOMAIN config
  <2>1. LineOf(config, key) = <<>>
    BY <1>1 DEF LineOf
  <2>2. <<>> \in Values
    BY EmptySeq DEF Values
  <2> QED
    BY <1>1, <2>1, <2>2
<1>2. CASE key \in DOMAIN config
  <2>1. PICK value : value = config[key]
    OBVIOUS
  <2>2. value \in Seq(ToSet(Order)) /\ Len(value) = 1
    BY <1>2, <2>1 DEF Settled, OneWord, Values
  <2>3. LineOf(config, key) = <<key>> \o value
    BY <1>2, <2>1 DEF LineOf
  <2>4. <<key>> \in Seq(ToSet(Order)) /\ Len(<<key>>) = 1 /\ <<key>>[1] = key
    OBVIOUS
  <2>5. /\ <<key>> \o value \in Seq(ToSet(Order)) /\ Len(<<key>> \o value) = 2
        /\ (<<key>> \o value)[1] = key /\ (<<key>> \o value)[2] = value[1]
    BY <2>2, <2>4
  <2>6. Head(value) = value[1]
    BY <2>2
  <2> QED
    BY <1>2, <2>1, <2>3, <2>5, <2>6 DEF Values
<1> QED
  BY <1>1, <1>2

LEMMA OneMoreLine ==
    ASSUME NEW config, Settled(config), OneWord(config),
           NEW keys, NEW key \in ToSet(Order), NEW words, Tells(words, config, keys)
    PROVE  Tells(words \o LineOf(config, key), config, keys \cup {key})
<1>1. PICK m \in Nat :
        /\ words \in Values /\ Len(words) = 2 * m
        /\ \A j \in 1 .. m : /\ words[2 * j - 1] \in DOMAIN config
                             /\ words[2 * j] = Head(config[words[2 * j - 1]])
        /\ \A k \in keys \cap DOMAIN config : \E j \in 1 .. m : words[2 * j - 1] = k
  BY DEF Tells
<1>2. PICK line : line = LineOf(config, key)
  OBVIOUS
<1>3. CASE key \notin DOMAIN config
  <2>1. line = <<>>
    BY <1>2, <1>3, Line
  <2>2. words \o line = words
    BY <1>1, <2>1 DEF Values
  <2>3. (keys \cup {key}) \cap DOMAIN config = keys \cap DOMAIN config
    BY <1>3
  <2> QED
    BY <1>2, <2>2, <2>3 DEF Tells
<1>4. CASE key \in DOMAIN config
  <2>1. /\ line \in Seq(ToSet(Order)) /\ Len(line) = 2
        /\ line[1] = key /\ line[2] = Head(config[key])
    BY <1>2, <1>4, Line DEF Values
  <2>2. PICK more : more = words \o line
    OBVIOUS
  <2>3. words \in Seq(ToSet(Order))
    BY <1>1 DEF Values
  <2>4. /\ more \in Seq(ToSet(Order)) /\ Len(more) = 2 * (m + 1)
        /\ \A i \in 1 .. 2 * m : more[i] = words[i]
        /\ more[2 * m + 1] = line[1] /\ more[2 * m + 2] = line[2]
    <3>1. Len(more) = Len(words) + Len(line) /\ more \in Seq(ToSet(Order))
      BY <2>1, <2>2, <2>3, ConcatProperties
    <3>2. Len(more) = 2 * (m + 1)
      BY <1>1, <2>1, <3>1
    <3>3. ASSUME NEW i \in 1 .. 2 * m
          PROVE  more[i] = words[i]
      BY <1>1, <2>1, <2>2, <2>3
    <3>4. /\ 2 * m + 1 \in Nat /\ 2 * m + 1 > 2 * m /\ 2 * m + 1 <= 2 * m + 2
          /\ 2 * m + 2 \in Nat /\ 2 * m + 2 > 2 * m
          /\ (2 * m + 1) - 2 * m = 1 /\ (2 * m + 2) - 2 * m = 2
      OBVIOUS
    <3>5. more[2 * m + 1] = line[1] /\ more[2 * m + 2] = line[2]
      <4>1. \A i \in 1 .. Len(words) + Len(line) :
                more[i] = IF i <= Len(words) THEN words[i] ELSE line[i - Len(words)]
        BY <2>1, <2>2, <2>3, ConcatProperties
      <4> QED
        BY <1>1, <2>1, <3>4, <4>1
    <3> QED
      BY <3>1, <3>2, <3>3, <3>5
  <2>5. ASSUME NEW j \in 1 .. m + 1
        PROVE  /\ more[2 * j - 1] \in DOMAIN config
               /\ more[2 * j] = Head(config[more[2 * j - 1]])
    <3>1. CASE j = m + 1
      <4>1. 2 * j - 1 = 2 * m + 1 /\ 2 * j = 2 * m + 2
        BY <3>1
      <4> QED
        BY <1>4, <2>1, <2>4, <4>1
    <3>2. CASE j # m + 1
      <4>1. j \in 1 .. m /\ 2 * j - 1 \in 1 .. 2 * m /\ 2 * j \in 1 .. 2 * m
        BY <3>2
      <4> QED
        BY <1>1, <2>4, <4>1
    <3> QED
      BY <3>1, <3>2
  <2>6. ASSUME NEW k \in (keys \cup {key}) \cap DOMAIN config
        PROVE  \E j \in 1 .. m + 1 : more[2 * j - 1] = k
    <3>1. CASE k = key
      <4>1. m + 1 \in 1 .. m + 1 /\ 2 * (m + 1) - 1 = 2 * m + 1
        OBVIOUS
      <4>2. more[2 * (m + 1) - 1] = k
        BY <2>1, <2>4, <3>1, <4>1
      <4> QED
        BY <4>1, <4>2
    <3>2. CASE k # key
      <4>1. PICK j \in 1 .. m : words[2 * j - 1] = k
        BY <1>1, <3>2
      <4>2. j \in 1 .. m + 1 /\ 2 * j - 1 \in 1 .. 2 * m
        OBVIOUS
      <4>3. more[2 * j - 1] = k
        BY <2>4, <4>1, <4>2
      <4> QED
        BY <4>2, <4>3
    <3> QED
      BY <3>1, <3>2
  <2>7. m + 1 \in Nat /\ more \in Values
    BY <2>4 DEF Values
  <2>8. Tells(more, config, keys \cup {key})
    BY <2>4, <2>5, <2>6, <2>7 DEF Tells
  <2> QED
    BY <1>2, <2>2, <2>8
<1> QED
  BY <1>3, <1>4

\* What save writes tells every setting, if each is one word.
LEMMA SavedTells ==
    ASSUME NEW config, Settled(config), OneWord(config)
    PROVE  Tells(Saved(config), config, ToSet(Order))
<1>1. Order \in Seq(ToSet(Order))
  BY OrderAssumption
<1>2. PICK n \in Nat : n = Len(Order) /\ DOMAIN Order = 1 .. n
  BY <1>1
<1>3. ToSet(Order) = {Order[i] : i \in 1 .. n}
  BY <1>2 DEF ToSet
<1>4. PICK seqs : seqs = [i \in 1 .. n |-> LineOf(config, Order[i])]
  OBVIOUS
<1>5. \A i \in 1 .. n : seqs[i] = LineOf(config, Order[i]) /\ Order[i] \in ToSet(Order)
  BY <1>3, <1>4
<1>6. seqs \in Seq(Values) /\ Len(seqs) = n
  <2>1. \A i \in 1 .. n : seqs[i] \in Values
    BY <1>5, Line
  <2>2. seqs \in [1 .. n -> Values]
    BY <1>4, <2>1
  <2> QED
    BY <2>2
<1>7. Saved(config) = FlattenSeq(seqs)
  BY <1>2, <1>4, SavedIsJoined
<1>8. Tells(<<>>, config, {})
  <2>1. <<>> \in Values /\ Len(<<>>) = 2 * 0
    BY EmptySeq DEF Values
  <2>2. 0 \in Nat /\ \A j \in 1 .. 0 : FALSE
    OBVIOUS
  <2> QED
    BY <2>1, <2>2 DEF Tells
<1>9. CASE n = 0
  <2>1. seqs = <<>>
    BY <1>6, <1>9, EmptySeq
  <2>2. FlattenSeq(seqs) = seqs
    BY <1>6, <1>9 DEF FlattenSeq
  <2>3. ToSet(Order) = {}
    BY <1>3, <1>9
  <2> QED
    BY <1>7, <1>8, <2>1, <2>2, <2>3
<1>10. CASE n # 0
  <2>1. PICK f : /\ FlattenSeq(seqs) = f[n] /\ f[1] = seqs[1]
                 /\ \A i \in 2 .. n : f[i] = f[i - 1] \o seqs[i]
    <3>1. Len(seqs) \in Nat \ {0}
      BY <1>6, <1>10
    <3>2. PICK f : Joining(f, seqs)
      BY <3>1, Flattened
    <3> QED
      BY <1>6, <3>2 DEF Joining
  <2> DEFINE Before(i) == {Order[j] : j \in 1 .. i}
             T == {i \in 1 .. n : ~ Tells(f[i], config, Before(i))}
  <2>2. ASSUME NEW i \in 1 .. n
        PROVE  i \notin T
    <3> SUFFICES ASSUME T # {} PROVE FALSE
      OBVIOUS
    <3>1. T \in SUBSET Nat
      OBVIOUS
    <3>2. PICK k \in T : \A j \in T : k <= j
      <4> HIDE DEF T
      <4> QED
        BY <3>1, Least
    <3>3. k \in 1 .. n /\ ~ Tells(f[k], config, Before(k))
      OBVIOUS
    <3>4. Before(k) = Before(k - 1) \cup {Order[k]}
      <4>1. 1 .. k = (1 .. k - 1) \cup {k}
        BY <3>3
      <4> QED
        BY <4>1
    <3>5. PICK key : key = Order[k] /\ key \in ToSet(Order) /\ seqs[k] = LineOf(config, key)
      BY <1>5, <3>3
    <3>6. CASE k = 1
      <4>1. Before(k - 1) = {}
        BY <3>6
      <4>2. Tells(<<>> \o LineOf(config, key), config, {} \cup {key})
        BY <1>8, <3>5, OneMoreLine
      <4>3. <<>> \o LineOf(config, key) = LineOf(config, key)
        <5>1. LineOf(config, key) \in Seq(ToSet(Order))
          BY <3>5, Line DEF Values
        <5> QED
          BY <5>1
      <4>4. f[k] = LineOf(config, key)
        BY <2>1, <3>5, <3>6
      <4> HIDE DEF Before
      <4> QED
        BY <3>3, <3>4, <3>5, <4>1, <4>2, <4>3, <4>4
    <3>7. CASE k # 1
      <4>1. k - 1 \in 1 .. n /\ k \in 2 .. n /\ ~ (k <= k - 1)
        BY <3>3, <3>7
      <4>2. k - 1 \notin T
        <5> HIDE DEF T
        <5> QED
          BY <3>2, <4>1
      <4>3. PICK words, keys : words = f[k - 1] /\ keys = Before(k - 1)
        OBVIOUS
      <4>4. Tells(words, config, keys)
        <5> HIDE DEF Before
        <5> QED
          BY <4>1, <4>2, <4>3
      <4>5. Tells(words \o LineOf(config, key), config, keys \cup {key})
        BY <3>5, <4>4, OneMoreLine
      <4>6. f[k] = words \o LineOf(config, key)
        BY <2>1, <3>5, <4>1, <4>3
      <4> HIDE DEF Before
      <4> QED
        BY <3>3, <3>4, <3>5, <4>3, <4>5, <4>6
    <3> QED
      BY <3>6, <3>7
  <2>3. n \in 1 .. n
    BY <1>10
  <2>4. Tells(f[n], config, Before(n))
    <3> HIDE DEF Before
    <3> QED
      BY <2>2, <2>3
  <2> QED
    BY <1>3, <1>7, <2>1, <2>4
<1> QED
  BY <1>9, <1>10

\* Words that tell every setting are read as these settings.
LEMMA ToldIsLoaded ==
    ASSUME NEW config, Settled(config), OneWord(config),
           NEW words, Tells(words, config, ToSet(Order))
    PROVE  Loaded(words) = config
<1>1. PICK m \in Nat :
        /\ words \in Values /\ Len(words) = 2 * m
        /\ \A j \in 1 .. m : /\ words[2 * j - 1] \in DOMAIN config
                             /\ words[2 * j] = Head(config[words[2 * j - 1]])
        /\ \A k \in ToSet(Order) \cap DOMAIN config : \E j \in 1 .. m : words[2 * j - 1] = k
  BY DEF Tells
<1>2. (2 * m) \div 2 = m
  OBVIOUS
<1> DEFINE LatestOf(key, p) == CHOOSE i \in 1 .. p :
                                 /\ words[2 * i - 1] = key
                                 /\ \A j \in 1 .. p : words[2 * j - 1] = key => j <= i
           From(p) == [key \in {words[2 * i - 1] : i \in 1 .. p} |->
                          <<words[2 * LatestOf(key, p)]>>]
           Latest(key) == LatestOf(key, m)
<1>3. Loaded(words) =
        [key \in {words[2 * i - 1] : i \in 1 .. m} |-> <<words[2 * Latest(key)]>>]
  <2>1. Loaded(words) = From(Len(words) \div 2)
    BY DEF Loaded
  <2>2. Len(words) \div 2 = m
    BY <1>1, <1>2
  <2>3. Loaded(words) = From(m)
    <3> HIDE DEF From
    <3> QED
      BY <2>1, <2>2
  <2> QED
    BY <2>3
<1>4. {words[2 * i - 1] : i \in 1 .. m} = DOMAIN config
  BY <1>1 DEF Settled
<1>5. ASSUME NEW key \in DOMAIN config
      PROVE  <<words[2 * Latest(key)]>> = config[key]
  <2> DEFINE T == {m - i : i \in {j \in 1 .. m : words[2 * j - 1] = key}}
  <2>1. T \in SUBSET Nat
    OBVIOUS
  <2>2. T # {}
    BY <1>1 DEF Settled
  <2>3. PICK t \in T : \A u \in T : t <= u
    <3> HIDE DEF T
    <3> QED
      BY <2>1, <2>2, Least
  <2>4. PICK i \in 1 .. m : words[2 * i - 1] = key /\ t = m - i
    OBVIOUS
  <2>5. ASSUME NEW j \in 1 .. m, words[2 * j - 1] = key
        PROVE  j <= i
    <3>1. m - j \in T
      BY <2>5
    <3>2. m - i <= m - j
      BY <2>3, <2>4, <3>1
    <3> QED
      BY <3>2
  <2>6. Latest(key) \in 1 .. m /\ words[2 * Latest(key) - 1] = key
    BY <2>4, <2>5
  <2> HIDE DEF Latest
  <2>7. words[2 * Latest(key)] = Head(config[key])
    BY <1>1, <2>6
  <2>8. PICK value : value = config[key]
    OBVIOUS
  <2>9. value \in Seq(ToSet(Order)) /\ Len(value) = 1
    BY <2>8 DEF Settled, OneWord, Values
  <2>10. <<Head(value)>> = value
    BY <2>9
  <2> QED
    BY <2>7, <2>8, <2>10
<1> HIDE DEF Latest
<1>6. config = [key \in DOMAIN config |-> config[key]]
  BY DEF Settled
<1> QED
  BY <1>3, <1>4, <1>5, <1>6

\* LoadInvertsSave: Config::load (config.cc:11-21) reads the settings that
\* Config::save (config.cc:25-33) wrote, if every value is one word.
THEOREM LoadInvertsSave ==
    ASSUME NEW config, Settled(config), OneWord(config)
    PROVE  Loaded(Saved(config)) = config
BY SavedTells, ToldIsLoaded

-----------------------------------------------------------------------------
(* Settings and their file *)

\* What the file keeps of the settings, as long as no value was odd: at the end
\* of a process they can be loaded again, and the theme is one that can be set.
Stored ==
    /\ ThemeFollowsOddValue
    /\ ~ past.odd =>
        /\ Settled(config_) /\ ~ ThemeThrows(config_) /\ ui.path \in Values
        /\ OneWord(config_) => Loaded(file) = config_
        /\ process = "off" => OneWord(config_)

Written ==
    \/ UNCHANGED configVars
    \/ \E config : Settled(config) /\ ~ ThemeThrows(config) /\ SaveAs(config)

\* The process goes on, with the same path.
Lasts ==
    /\ past'.odd = past.odd /\ past'.ending = past.ending
    /\ ui'.path = ui.path /\ process' # "off"

LEMMA SetSettled ==
    ASSUME NEW config, Settled(config), ~ ThemeThrows(config),
           NEW key \in ToSet(Order), NEW word \in ToSet(Order),
           key = "theme" => word \in DOMAIN Number
    PROVE  Settled(Set(config, key, <<word>>)) /\ ~ ThemeThrows(Set(config, key, <<word>>))
<1>1. PICK value : value = <<word>>
  OBVIOUS
<1>2. value \in Values /\ value # <<>> /\ Head(value) = word
  BY <1>1 DEF Values
<1>3. PICK new : new = Set(config, key, value)
  OBVIOUS
<1>4. /\ DOMAIN new = DOMAIN config \cup {key} /\ new[key] = value
      /\ new = [k \in DOMAIN config \cup {key} |-> IF k = key THEN value ELSE config[k]]
      /\ \A k \in DOMAIN config : k # key => new[k] = config[k]
  BY <1>3 DEF Set
<1>5. Settled(new)
  BY <1>2, <1>4 DEF Settled
<1>6. ~ ThemeThrows(new)
  <2>1. CASE key = "theme"
    BY <1>2, <1>4, <2>1 DEF ThemeThrows, IntThrows
  <2>2. CASE key # "theme"
    BY <1>4, <2>2 DEF ThemeThrows, IntThrows
  <2> QED
    BY <2>1, <2>2
<1> QED
  BY <1>1, <1>3, <1>5, <1>6

LEMMA WithoutSettled ==
    ASSUME NEW config, Settled(config), ~ ThemeThrows(config), NEW keys
    PROVE  Settled(Without(config, keys)) /\ ~ ThemeThrows(Without(config, keys))
<1>1. PICK new : new = Without(config, keys)
  OBVIOUS
<1>2. /\ DOMAIN new = DOMAIN config \ keys /\ new = [k \in DOMAIN config \ keys |-> config[k]]
      /\ \A k \in DOMAIN new : new[k] = config[k]
  BY <1>1 DEF Without
<1>3. Settled(new)
  BY <1>2 DEF Settled
<1>4. ~ ThemeThrows(new)
  BY <1>2 DEF ThemeThrows, IntThrows
<1> QED
  BY <1>1, <1>3, <1>4

LEMMA WithSettled ==
    ASSUME NEW config, Settled(config), ~ ThemeThrows(config), NEW k \in 1 .. 5,
           NEW settings, \A key \in ToSet(ConnectKeys) : settings[key] \in Values
    PROVE  Settled(With(config, settings, k)) /\ ~ ThemeThrows(With(config, settings, k))
<1> DEFINE keys == {ConnectKeys[i] : i \in 1 .. k}
<1>1. keys \subseteq ToSet(ConnectKeys)
  BY DEF ToSet, ConnectKeys
<1>2. "theme" \notin ToSet(ConnectKeys)
  BY DEF ToSet, ConnectKeys
<1> HIDE DEF keys
<1>3. PICK new : new = With(config, settings, k)
  OBVIOUS
<1>4. /\ DOMAIN new = DOMAIN config \cup keys
      /\ new = [key \in DOMAIN config \cup keys |->
                    IF key \in keys THEN settings[key] ELSE config[key]]
  BY <1>3 DEF With, keys
<1>5. \A key \in DOMAIN config : key \notin keys => new[key] = config[key]
  BY <1>4
<1>6. Settled(new)
  BY <1>1, <1>4, WordsAssumption DEF Settled
<1>7. ~ ThemeThrows(new)
  BY <1>1, <1>2, <1>4, <1>5 DEF ThemeThrows, IntThrows
<1> QED
  BY <1>3, <1>6, <1>7

LEMMA StrSettled ==
    ASSUME NEW config, Settled(config), NEW key
    PROVE  GetStr(config, key) \in Values
<1>1. <<>> \in Values
  BY EmptySeq DEF Values
<1> QED
  BY <1>1 DEF GetStr, Settled

\* The settings of the Startup window are known words.
LEMMA SettingsAreWords ==
    ASSUME Settled(config_), ui.path \in Values, NEW s \in Settings
    PROVE  \A key \in ToSet(ConnectKeys) : SettingsOf(s)[key] \in Values
<1>1. \A key : GetStr(config_, key) \in Values
  BY StrSettled
<1>2. /\ s.emulator \in Values /\ s.serial \in Values /\ s.source \in Values
      /\ s.type \in {"emulator", "hardware"}
  BY <1>1, WordsAssumption DEF Settings, Field
<1>3. <<s.type>> \in Values
  BY <1>2, WordsAssumption DEF Values
<1>4. ToSet(ConnectKeys) = {"machine_path", "connection_type", "serial_port",
                            "emulator_path", "source_file"}
  BY DEF ToSet, ConnectKeys
<1> QED
  BY <1>2, <1>3, <1>4 DEF SettingsOf

LEMMA WrittenKept ==
    ASSUME Stored, ~ past.odd, Written
    PROVE  /\ Settled(config_') /\ ~ ThemeThrows(config_')
           /\ OneWord(config_') => Loaded(file') = config_'
<1>1. CASE UNCHANGED configVars
  BY <1>1 DEF Stored, configVars
<1>2. CASE \E config : Settled(config) /\ ~ ThemeThrows(config) /\ SaveAs(config)
  <2>1. PICK config : Settled(config) /\ ~ ThemeThrows(config) /\ SaveAs(config)
    BY <1>2
  <2>2. OneWord(config) => Loaded(Saved(config)) = config
    BY <2>1, LoadInvertsSave
  <2> QED
    BY <2>1, <2>2 DEF SaveAs
<1> QED
  BY <1>1, <1>2 DEF Written

LEMMA GoesOnStored ==
    ASSUME Stored, past'.odd = past.odd, process' # "off",
           past'.ending = past.ending \/ past'.ending = "none",
           ~ past.odd => Written /\ ui'.path \in Values
    PROVE  Stored'
<1>1. ThemeFollowsOddValue'
  BY DEF Stored, ThemeFollowsOddValue
<1>2. CASE past.odd
  BY <1>1, <1>2 DEF Stored
<1>3. CASE ~ past.odd
  BY <1>1, <1>3, WrittenKept DEF Stored
<1> QED
  BY <1>2, <1>3

LEMMA LastsStored ==
    ASSUME Stored, Lasts, ~ past.odd => Written
    PROVE  Stored'
BY GoesOnStored DEF Stored, Lasts

LEMMA EndsStored ==
    ASSUME Stored, NEW p \in Past, p.odd = past.odd, NEW why, Ends(why, p),
           ~ past.odd => why # "theme" /\ (why = "cut" \/ Written)
    PROVE  Stored'
<1>1. (why = "cut" \/ ~ OneWord(config_')) \in BOOLEAN /\ p.odd \in BOOLEAN
  BY DEF OneWord, Past
<1>2. /\ past'.odd <=> past.odd \/ why = "cut" \/ ~ OneWord(config_')
      /\ past'.ending = why /\ process' = "off" /\ ui' = NoUi
  BY <1>1 DEF Ends, Past
<1>3. ThemeFollowsOddValue'
  BY <1>2 DEF ThemeFollowsOddValue
<1>4. ui'.path \in Values
  BY <1>2, EmptySeq DEF NoUi, Values
<1>5. CASE past'.odd
  BY <1>3, <1>5 DEF Stored
<1>6. CASE ~ past'.odd
  <2>1. ~ past.odd /\ why # "cut" /\ OneWord(config_') /\ Written
    BY <1>2, <1>6
  <2> QED
    BY <1>3, <1>4, <2>1, WrittenKept DEF Stored
<1> QED
  BY <1>5, <1>6

LEMMA EndHereStored ==
    ASSUME IInv, Stored, NEW why, why # "theme", Ends(why, past), why = "cut" \/ Written
    PROVE  Stored'
<1>1. PICK p : p = past
  OBVIOUS
<1>2. p \in Past /\ p.odd = past.odd /\ Ends(why, p)
  BY <1>1, Types
<1> QED
  BY <1>2, EndsStored

\* A start reads the settings that the last process left.
LEMMA LoadStored ==
    ASSUME Stored, process = "off", Load, ~ past.odd
    PROVE  config_' = config_ /\ Written
BY DEF Stored, Load, Written, configVars

LEMMA BuiltStored ==
    ASSUME Stored, process = "off", Load, NEW m, NEW path, NEW p \in Past,
           p.ending = "none", p.odd = past.odd, Built(m, path, p),
           ~ past.odd => path \in Values
    PROVE  Stored'
<1>1. CASE ThemeThrows(config_')
  <2>1. Ends("theme", p)
    BY <1>1 DEF Built
  <2>2. past.odd
    BY <1>1, LoadStored DEF Stored
  <2> QED
    BY <2>1, <2>2, EndsStored
<1>2. CASE ~ ThemeThrows(config_')
  <2>1. process' = "running" /\ past' = p /\ ui'.path = path
    BY <1>2 DEF Built
  <2>2. past'.odd = past.odd /\ past'.ending = "none"
    BY <2>1
  <2> QED
    BY <2>1, <2>2, LoadStored, GoesOnStored
<1> QED
  BY <1>1, <1>2

LEMMA StartEmptyStored ==
    ASSUME IInv, Stored, StartEmpty
    PROVE  Stored'
<1>1. PICK p, m : p = Fresh /\ m = Machine0
  OBVIOUS
<1>2. p \in Past /\ p.ending = "none"
  BY <1>1, FreshPast DEF StartEmpty
<1>3. p.odd = past.odd
  BY <1>1, Types DEF Fresh, Past
<1>4. <<>> \in Values
  BY EmptySeq DEF Values
<1>5. process = "off" /\ Load /\ Built(m, <<>>, p)
  BY <1>1 DEF StartEmpty
<1> QED
  BY <1>2, <1>3, <1>4, <1>5, BuiltStored

\* A load says of the history no more than whether it failed.
LEMMA ReadingOdd ==
    ASSUME NEW p \in Past, NEW d, NEW config
    PROVE  Reading(p, d, config).odd = p.odd
BY DEF Reading, Past

LEMMA StartWithStored ==
    ASSUME IInv, Stored, NEW d \in Definitions, StartWith(d)
    PROVE  Stored'
<1>1. PICK q : q = Fresh
  OBVIOUS
<1>2. q \in Past /\ q.ending = "none"
  BY <1>1, FreshPast DEF StartWith
<1>3. q.odd = past.odd
  BY <1>1, Types DEF Fresh, Past
<1>4. PICK config : config = config_'
  OBVIOUS
<1>5. PICK p, m, path : /\ p = Reading(q, d, config)
                        /\ m = LoadDefinition(Machine0, d)
                        /\ path = GetStr(config, "machine_path")
  OBVIOUS
<1>6. p \in Past /\ p.ending = "none" /\ p.odd = past.odd
  BY <1>2, <1>3, <1>5, ReadingPast, ReadingOdd
<1>7. process = "off" /\ Load
  BY DEF StartWith
<1>8. Ends("type", p) \/ Built(m, <<>>, p) \/ Built(m, path, p)
  BY <1>1, <1>4, <1>5 DEF StartWith
<1>9. <<>> \in Values
  BY EmptySeq DEF Values
<1>10. ~ past.odd => path \in Values
  BY <1>4, <1>5, <1>7, LoadStored, StrSettled DEF Stored
<1>11. CASE Ends("type", p)
  BY <1>6, <1>7, <1>11, LoadStored, EndsStored
<1>12. CASE Built(m, <<>>, p)
  BY <1>6, <1>7, <1>9, <1>12, BuiltStored
<1>13. CASE Built(m, path, p)
  BY <1>6, <1>7, <1>10, <1>13, BuiltStored
<1> QED
  BY <1>8, <1>11, <1>12, <1>13

LEMMA BrowseStored ==
    ASSUME IInv, Stored, NEW path \in MachinePaths, NEW d \in Definitions, Browse(path, d)
    PROVE  Stored'
<1>1. PICK q, config : q = past /\ config = config_
  OBVIOUS
<1>2. PICK p : p = Reading(q, d, config)
  OBVIOUS
<1>3. p \in Past /\ p.ending = past.ending /\ p.odd = past.odd
  BY <1>1, <1>2, Types, ReadingPast, ReadingOdd
<1>4. p = Reading(past, d, config_)
  BY <1>1, <1>2
<1>5. CASE UNCHANGED configVars /\ Ends("type", p)
  BY <1>3, <1>5, EndsStored DEF Written
<1>6. CASE /\ past' = p /\ UNCHANGED <<configVars, process>>
           /\ Shows([ui EXCEPT !.path = path]) \/ ui' = [ui EXCEPT !.path = path]
  <2>1. ui'.path = path
    BY <1>6 DEF IInv, TypeOK, Shows
  <2>2. path \in Values
    BY WordsAssumption
  <2>3. process' # "off"
    BY <1>6 DEF Browse, Clicks
  <2>4. Written
    BY <1>6 DEF Written
  <2> QED
    BY <1>3, <1>6, <2>1, <2>2, <2>3, <2>4, GoesOnStored
<1> QED
  BY <1>4, <1>5, <1>6 DEF Browse

\* A click that saves a setting, or none.
LEMMA ChooseStored ==
    ASSUME IInv, Stored, NEW choice \in BoxChoices, Choose(choice[1], choice[2])
    PROVE  Stored'
<1>1. /\ choice[1] \in ToSet(Order) /\ choice[2] \in ToSet(Order)
      /\ choice[1] = "theme" => choice[2] \in DOMAIN Number
  BY WordsAssumption
<1>2. PICK config, key, word : config = config_ /\ key = choice[1] /\ word = choice[2]
  OBVIOUS
<1>3. SaveAs(Set(config, key, <<word>>)) /\ UNCHANGED lifeVars /\ process = "running"
  BY <1>2 DEF Choose, Clicks
<1>4. ~ past.odd => Written
  BY <1>1, <1>2, <1>3, SetSettled DEF Stored, Written
<1>5. Lasts
  BY <1>3 DEF Lasts, lifeVars
<1> QED
  BY <1>4, <1>5, LastsStored

LEMMA KeysAreWords ==
    ASSUME NEW w \in AllWindows
    PROVE  Key(w) \in ToSet(Order) /\ Key(w) # "theme"
BY WordsAssumption, NamesAssumption DEF OptionKeys

LEMMA OpenWindowStored ==
    ASSUME IInv, Stored, NEW w \in AllWindows, OpenWindow(w)
    PROVE  Stored'
<1>1. process = "running" /\ UNCHANGED process
  BY DEF OpenWindow, Clicks
<1>2. CASE w \in windows.made
  <2>1. PICK config, key : config = config_ /\ key = Key(w)
    OBVIOUS
  <2>2. /\ SaveAs(Set(config, key, <<"true">>)) /\ UNCHANGED ui
        /\ past' = [past EXCEPT !.hidden = @ \ {w}]
    BY <1>2, <2>1 DEF OpenWindow
  <2>3. "true" \in ToSet(Order) /\ key \in ToSet(Order) /\ key # "theme"
    BY <2>1, KeysAreWords, WordsAssumption
  <2>4. ~ past.odd => Written
    BY <2>1, <2>2, <2>3, SetSettled DEF Stored, Written
  <2>5. Lasts
    BY <1>1, <2>2 DEF Lasts, IInv, TypeOK
  <2> QED
    BY <2>4, <2>5, LastsStored
<1>3. CASE w \notin windows.made
  <2>1. Shows(ui) /\ UNCHANGED <<configVars, windows, past>>
    BY <1>3 DEF OpenWindow
  <2>2. Lasts /\ Written
    BY <1>1, <2>1 DEF Lasts, Written, Shows, IInv, TypeOK
  <2> QED
    BY <2>2, LastsStored
<1> QED
  BY <1>2, <1>3

LEMMA CloseWindowStored ==
    ASSUME IInv, Stored, NEW w \in AllWindows, CloseWindow(w)
    PROVE  Stored'
<1>1. process = "running" /\ UNCHANGED <<process, ui>>
  BY DEF CloseWindow, Clicks
<1>2. CASE w \in windows.collapsed
  <2>1. past' = [past EXCEPT !.hidden = @ \cup {w}] /\ UNCHANGED configVars
    BY <1>2 DEF CloseWindow
  <2>2. Lasts /\ Written
    BY <1>1, <2>1 DEF Lasts, Written, IInv, TypeOK
  <2> QED
    BY <2>2, LastsStored
<1>3. CASE w \notin windows.collapsed
  <2>1. PICK config, keys : config = config_ /\ keys = {Key(w)}
    OBVIOUS
  <2>2. SaveAs(Without(config, keys)) /\ UNCHANGED past
    BY <1>3, <2>1 DEF CloseWindow
  <2>3. ~ past.odd => Written
    BY <2>1, <2>2, WithoutSettled DEF Stored, Written
  <2>4. Lasts
    BY <1>1, <2>2 DEF Lasts
  <2> QED
    BY <2>3, <2>4, LastsStored
<1> QED
  BY <1>2, <1>3

LEMMA SaveWrites ==
    ASSUME Stored, ~ past.odd, NEW s \in Settings, NEW k \in 1 .. 5, SaveSettings(s, k)
    PROVE  Written
<1>1. PICK config, settings : config = config_ /\ settings = SettingsOf(s)
  OBVIOUS
<1>2. SaveAs(With(config, settings, k))
  BY <1>1 DEF SaveSettings
<1>3. \A key \in ToSet(ConnectKeys) : settings[key] \in Values
  BY <1>1, SettingsAreWords DEF Stored
<1> QED
  BY <1>1, <1>2, <1>3, WithSettled DEF Stored, Written

LEMMA AttachLasts ==
    ASSUME IInv, NEW m, NEW link, Attach(m, link)
    PROVE  Lasts
BY DEF Attach, InitInWindow, SessionStarts, Shows, Lasts, IInv, TypeOK

LEMMA InitInUpdateStored ==
    ASSUME IInv, Stored, NEW m, NEW compiled, InitInUpdate(m, compiled),
           UNCHANGED configVars, process = "running"
    PROVE  Stored'
<1>1. Written
  BY DEF Written
<1>2. CASE process' = "blocked" /\ UNCHANGED <<ui, past>>
  BY <1>1, <1>2, LastsStored DEF Lasts
<1>3. CASE \E why \in {"unconnected", "mismatch", "refused"} : Ends(why, past)
  BY <1>1, <1>3, EndHereStored
<1>4. CASE SessionStarts(m) /\ UNCHANGED <<process, ui>>
  <2>1. Lasts
    BY <1>4 DEF SessionStarts, Lasts, IInv, TypeOK
  <2> QED
    BY <1>1, <2>1, LastsStored
<1> QED
  BY <1>2, <1>3, <1>4 DEF InitInUpdate

LEMMA CompileFailsStored ==
    ASSUME IInv, Stored, NEW s \in Settings, NEW outcome, CompileFails(s, outcome)
    PROVE  Stored'
<1>1. process = "running" /\ SaveSettings(s, 5) /\ (~ past.odd => Written)
  BY SaveWrites DEF CompileFails, Connects, Clicks
<1>2. CASE Ends(Abort, past)
  <2>1. PICK p, why : p = past /\ why = Abort
    OBVIOUS
  <2>2. p \in Past /\ p.odd = past.odd /\ Ends(why, p) /\ why # "theme"
    BY <1>2, <2>1, Types DEF Abort
  <2> QED
    BY <1>1, <2>2, EndsStored
<1>3. CASE /\ Shows(ui) /\ UNCHANGED process
           /\ past' = [past EXCEPT !.failed = @ \/ CompileResult(machine, outcome) = "throws"]
  <2>1. Lasts
    BY <1>1, <1>3 DEF Shows, Lasts, IInv, TypeOK
  <2> QED
    BY <1>1, <2>1, LastsStored
<1> QED
  BY <1>2, <1>3 DEF CompileFails

LEMMA ConnectStored ==
    ASSUME IInv, Stored, NEW s \in Settings, NEW outcome, NEW link,
           StartEmulator(s, outcome) \/ Connect(s, outcome, link)
    PROVE  Stored'
<1>1. process = "running" /\ SaveSettings(s, 5) /\ (~ past.odd => Written)
  BY SaveWrites DEF StartEmulator, Connect, Connects, Clicks
<1>2. CASE StartEmulator(s, outcome)
  <2>1. Lasts
    BY <1>2 DEF StartEmulator, Lasts
  <2> QED
    BY <1>1, <2>1, LastsStored
<1>3. CASE Connect(s, outcome, link)
  <2>1. PICK m : m = [model EXCEPT !.compiled = outcome]
    OBVIOUS
  <2>2. Attach(m, link)
    BY <1>3, <2>1 DEF Connect
  <2>3. Lasts
    BY <2>2, AttachLasts
  <2> QED
    BY <1>1, <2>3, LastsStored
<1> QED
  BY <1>2, <1>3

LEMMA EmulatorAnswersStored ==
    ASSUME IInv, Stored, NEW found, EmulatorAnswers(found)
    PROVE  Stored'
<1>1. PICK link \in PortFile[found] : Attach(model, link) /\ UNCHANGED configVars
  BY DEF EmulatorAnswers
<1>2. PICK m : m = model
  OBVIOUS
<1>3. Attach(m, link)
  BY <1>1, <1>2
<1>4. Lasts /\ Written
  BY <1>1, <1>3, AttachLasts DEF Written
<1> QED
  BY <1>4, LastsStored

LEMMA KilledInSaveStored ==
    ASSUME IInv, Stored, NEW s \in Settings, KilledInSave(s)
    PROVE  Stored'
<1>1. CASE \E k \in 1 .. 4 : SaveSettings(s, k) /\ Ends("killed", past)
  <2>1. PICK k \in 1 .. 4 : SaveSettings(s, k) /\ Ends("killed", past)
    BY <1>1
  <2>2. k \in 1 .. 5
    OBVIOUS
  <2>3. ~ past.odd => Written
    BY <2>1, <2>2, SaveWrites
  <2>4. PICK p : p = past
    OBVIOUS
  <2>5. p \in Past /\ p.odd = past.odd /\ Ends("killed", p)
    BY <2>1, <2>4, Types
  <2> QED
    BY <2>3, <2>5, EndsStored
<1>2. CASE Ends("cut", past)
  BY <1>2, EndHereStored
<1> QED
  BY <1>1, <1>2 DEF KilledInSave

LEMMA RecompileStored ==
    ASSUME IInv, Stored, NEW outcome, Recompile(outcome)
    PROVE  Stored'
<1>1. process = "running" /\ UNCHANGED configVars /\ Written
  BY DEF Recompile, Written
<1>2. CASE Ends(Abort, past) \/ Ends("compile", past)
  <2>1. Abort # "theme"
    BY DEF Abort
  <2>2. PICK why : why # "theme" /\ Ends(why, past)
    BY <1>2, <2>1
  <2> QED
    BY <1>1, <2>2, EndHereStored
<1>3. CASE Ends("compile", [past EXCEPT !.failed = TRUE])
  <2>1. PICK p : p = [past EXCEPT !.failed = TRUE]
    OBVIOUS
  <2>2. p \in Past /\ p.odd = past.odd /\ Ends("compile", p)
    BY <1>3, <2>1, Types DEF Past
  <2> QED
    BY <1>1, <2>2, EndsStored
<1>4. CASE UNCHANGED <<process, ui, windows, past>>
  BY <1>1, <1>4, LastsStored DEF Lasts
<1>5. CASE InitInUpdate([model EXCEPT !.compiled = outcome], Compiled(machine, outcome))
  <2>1. PICK m, compiled : /\ m = [model EXCEPT !.compiled = outcome]
                           /\ compiled = Compiled(machine, outcome)
    OBVIOUS
  <2>2. InitInUpdate(m, compiled)
    BY <1>5, <2>1
  <2> QED
    BY <1>1, <2>2, InitInUpdateStored
<1> QED
  BY <1>2, <1>3, <1>4, <1>5 DEF Recompile

LEMMA UploadStepStored ==
    ASSUME IInv, Stored, UploadStep
    PROVE  Stored'
<1>1. process = "running" /\ UNCHANGED configVars /\ Written
  BY DEF UploadStep, Written
<1>2. CASE InitInUpdate([model EXCEPT !.upload = FALSE], machine)
  <2>1. PICK m, compiled : m = [model EXCEPT !.upload = FALSE] /\ compiled = machine
    OBVIOUS
  <2>2. InitInUpdate(m, compiled)
    BY <1>2, <2>1
  <2> QED
    BY <1>1, <2>2, InitInUpdateStored
<1>3. CASE Ends("refused", past) \/ Ends("undefined", past)
  BY <1>1, <1>3, EndHereStored
<1> QED
  BY <1>2, <1>3 DEF UploadStep

\* A step that touches neither settings nor path, and does not end the process.
LEMMA QuietStored ==
    ASSUME IInv, Stored,
           ClickOk \/ AutodetectFails \/ LevelThrows \/ \E w \in AllWindows : Collapse(w)
    PROVE  Stored'
<1>1. UNCHANGED <<config_, file, process, past>> /\ process = "running"
  BY DEF ClickOk, AutodetectFails, LevelThrows, Collapse, Clicks
<1>2. ui' = ui \/ \E b \in BOOLEAN : ui' = [ui EXCEPT !.message = b]
  BY DEF ClickOk, AutodetectFails, LevelThrows, Collapse, Shows
<1>3. ui'.path = ui.path
  BY <1>2 DEF IInv, TypeOK
<1>4. Lasts /\ Written
  BY <1>1, <1>3 DEF Lasts, Written, configVars
<1> QED
  BY <1>4, LastsStored

LEMMA InitStored == Init => Stored
<1> SUFFICES ASSUME Init PROVE Stored
  OBVIOUS
<1>1. config_ = Empty /\ file = <<>> /\ ui = NoUi /\ past = NoPast
  BY DEF Init, ConfigInit
<1>2. DOMAIN Empty = {} /\ Empty \in [{} -> Values]
  BY DEF Empty
<1>3. <<>> \in Values
  BY EmptySeq DEF Values
<1>4. Loaded(<<>>) = Empty
  <2>1. Len(<<>>) \div 2 = 0 /\ 1 .. 0 = {}
    OBVIOUS
  <2>2. DOMAIN Loaded(<<>>) = {} /\ Loaded(<<>>) = [key \in {} |-> Loaded(<<>>)[key]]
    BY <2>1 DEF Loaded
  <2> QED
    BY <2>2 DEF Empty
<1>5. Settled(config_) /\ ~ ThemeThrows(config_) /\ OneWord(config_)
  BY <1>1, <1>2 DEF Settled, ThemeThrows, IntThrows, OneWord
<1> QED
  BY <1>1, <1>3, <1>4, <1>5 DEF Stored, ThemeFollowsOddValue, NoUi, NoPast

LEMMA NextStored ==
    ASSUME IInv, Stored, [Next]_vars
    PROVE  Stored'
<1>1. CASE UNCHANGED vars
  BY <1>1 DEF vars, lifeVars, Stored, ThemeFollowsOddValue, Settled, ThemeThrows, IntThrows,
              OneWord
<1>2. CASE StartEmpty \/ \E d \in Definitions : StartWith(d)
  BY <1>2, StartEmptyStored, StartWithStored
<1>3. CASE User
  <2>1. CASE ClickOk \/ AutodetectFails \/ LevelThrows
    BY <2>1, QuietStored
  <2>2. CASE \E path \in MachinePaths, d \in Definitions : Browse(path, d)
    BY <2>2, BrowseStored
  <2>3. CASE \E choice \in BoxChoices : Choose(choice[1], choice[2])
    BY <2>3, ChooseStored
  <2>4. CASE \E w \in AllWindows : OpenWindow(w) \/ Collapse(w) \/ CloseWindow(w)
    BY <2>4, OpenWindowStored, QuietStored, CloseWindowStored
  <2>5. CASE \E s \in Settings : KilledInSave(s)
    BY <2>5, KilledInSaveStored
  <2>6. CASE \E s \in Settings, o \in Outcomes : CompileFails(s, o)
    BY <2>6, CompileFailsStored
  <2>7. CASE \E s \in Settings, o \in Outcomes : StartEmulator(s, o)
    BY <2>7, ConnectStored
  <2>8. CASE \E s \in Settings, o \in Outcomes, link \in Links : Connect(s, o, link)
    BY <2>8, ConnectStored
  <2>9. CASE Quit \/ Kill
    BY <2>9, EndHereStored DEF Quit, Kill, Written
  <2> QED
    BY <1>3, <2>1, <2>2, <2>3, <2>4, <2>5, <2>6, <2>7, <2>8, <2>9 DEF User
<1>4. CASE \E found \in DOMAIN PortFile : EmulatorAnswers(found)
  BY <1>4, EmulatorAnswersStored
<1>5. CASE UploadStep
  BY <1>5, UploadStepStored
<1>6. CASE \E o \in Outcomes : Recompile(o)
  BY <1>6, RecompileStored
<1> QED
  BY <1>1, <1>2, <1>3, <1>4, <1>5, <1>6 DEF Next

-----------------------------------------------------------------------------
\* IInv holds in every process that the user may start, whatever was in the
\* settings file (ui.cc, startup.cc, model.cc).
THEOREM Invariant == Spec => []IInv
BY InitIInv, NextIInv, PTL DEF Spec

\* No variable leaves its type; no window is visible that was not made (ui.cc).
THEOREM TypeCorrect == Spec => []TypeOK
<1>1. IInv => TypeOK
  BY DEF IInv
<1>2. QED
  BY <1>1, Invariant, PTL

\* Behind every session there is a complete definition, on top of the Lua stack,
\* and a computer that answered (startup.cc:92-105, machine.cc).
THEOREM SessionsAreWhole == Spec => []SessionIsWhole
<1>1. IInv => SessionIsWhole
  BY DEF IInv, Behind
<1>2. QED
  BY <1>1, Invariant, PTL

\* The Startup window is not closed in vain, but for a mismatch (startup.cc:92-105,
\* model.cc:58-70).
THEOREM NoDeadEnds == Spec => []NoDeadEnd
<1>1. IInv => NoDeadEnd
  BY DEF IInv, Behind
<1>2. QED
  BY <1>1, Invariant, PTL

\* The debugging windows are as their settings say, but for those closed while
\* collapsed (ui.cc:150-160, window.cc:7-24).
THEOREM WindowsAreAsSaved == Spec => []WindowsAsSaved
<1>1. IInv => WindowsAsSaved
  BY DEF IInv, Shown, Kept, WindowsAsSaved
<1>2. QED
  BY <1>1, Invariant, PTL

\* The settings file keeps what the debugger knows, until a value is empty or
\* has a space, or a save is cut (config.cc).
THEOREM FileKeepsSettings == Spec => []Stored
BY InitStored, NextStored, Invariant, PTL DEF Spec

\* What ends a debugger that nobody quits or kills has an earlier cause: a failed
\* load or compilation, a refused connection, or a setting that the file could
\* not carry (machine.cc, model.cc:103-112, config.cc, ui.cc:119).
THEOREM EndingsHaveCauses == Spec => []Endings
<1>1. IInv /\ Stored => Endings
  BY DEF IInv, Causes, Stored, Endings
<1>2. QED
  BY <1>1, Invariant, FileKeepsSettings, PTL

\* A process starts with the settings of the last one (config.cc), unless a value
\* was odd.
THEOREM RestartsRemember == Spec => RestartRemembers
<1>1. Stored /\ process = "off" /\ (StartEmpty \/ \E d \in Definitions : StartWith(d))
      /\ ~ past.odd => config_' = config_
  BY LoadStored DEF StartEmpty, StartWith
<1>2. QED
  BY <1>1, FileKeepsSettings, PTL DEF RestartRemembers
=============================================================================
