----------------------------- MODULE PromptHook -----------------------------
(***************************************************************************)
(* keyword-detector.ts: which workflow a prompt starts, and what the hook  *)
(* leaves behind for the Stop hook, in one session of an agent of any of   *)
(* the vendors.  PersistentMode takes it from there: its Activate(a, w) is *)
(* this module's choice of a persistent workflow.                          *)
(*                                                                         *)
(* A prompt is a sequence of words and of the signs that the hook reads:   *)
(* blanks, ticks, question marks and slashes.  Words with no sign between  *)
(* them are one: "re" and "plan" are replan.  The characters of a word are *)
(* left out, so the window of 60 characters is one of Window of these.     *)
(***************************************************************************)
EXTENDS Integers, Sequences, FiniteSetsExt, Functions

CONSTANTS
    Workflows,   \* triggers.json, in its order: [persistent, excluded, keywords]
    Info,        \* informationalPatterns
    Cjk,         \* cjkScripts
    NonAscii,    \* words in characters beyond ASCII
    Window,      \* the 60 characters
    Dirs, Root,  \* directories; the one the agent was started in
    Languages,   \* values of language in user-preferences.yaml
    Sessions,    \* [vendor, keys, id]: kinds of sessions
    NoId,        \* no id
    Prompts,     \* what users may say
    MaxPrompts   \* bound: prompts of the session

Vendors == {"claude", "codex", "gemini", "qwen"}
Ids == {s.id : s \in Sessions} \cup {"unknown"}
Chosen == 1 .. Len(Workflows)

\* A keyword is a sequence of words, an informational phrase one of words and blanks.
\* Those of a language, if there are any:
Of(lists, lang) == IF lang \in DOMAIN lists THEN lists[lang] ELSE {}

ASSUME PromptAssumption ==
    /\ Root \in Dirs /\ Window \in Nat \ {0} /\ NoId \notin Ids /\ MaxPrompts \in Nat
    /\ \A s \in Sessions : s.vendor \in Vendors /\ s.keys \subseteq {"sessionId", "session_id"}
    /\ \A w \in Chosen : Workflows[w].persistent \in BOOLEAN /\ Workflows[w].excluded \in BOOLEAN

\* "Codex uses snake_case session_id, Claude uses camelCase sessionId"
ASSUME KeysAssumption ==
    \A s \in Sessions : /\ s.vendor = "codex" => s.keys = {"session_id"}
                        /\ s.vendor = "claude" => s.keys # {"session_id"}

-----------------------------------------------------------------------------
(***************************************************************************)
(* What the hooks are given, and what they make of it                      *)
(***************************************************************************)
Event(vendor, hook) ==
    IF vendor = "gemini" THEN IF hook = "prompt" THEN "BeforeAgent" ELSE "AfterAgent"
    ELSE IF hook = "prompt" THEN "UserPromptSubmit" ELSE "Stop"

\* The input of a hook, and its environment: <vendor>_PROJECT_DIR is set to Root by
\* every agent but Codex, which gives its working directory.
Input(s, hook, dir) == [event |-> Event(s.vendor, hook), keys |-> s.keys, id |-> s.id,
                        cwd |-> dir, env |-> {s.vendor} \ {"codex"}]

\* (a faulty variant: Gemini's event is not known)
FaultyPromptVendor(in) ==
    IF in.event = "UserPromptSubmit" /\ in.keys = {"session_id"} THEN "codex"
    ELSE IF "qwen" \in in.env THEN "qwen" ELSE "claude"

\* detectVendor of the prompt hook and of the Stop hook
PromptVendor(in) ==
    CASE in.event = "BeforeAgent" -> "gemini"
      [] in.event = "UserPromptSubmit" /\ in.keys = {"session_id"} -> "codex"
      [] OTHER -> IF "qwen" \in in.env THEN "qwen" ELSE "claude"
StopVendor(in) ==
    CASE in.event = "AfterAgent" -> "gemini"
      [] in.event = "Stop" /\ in.keys = {"session_id"} -> "codex"
      [] OTHER -> IF "qwen" \in in.env THEN "qwen" ELSE "claude"

ProjectDir(vendor, in) ==
    IF vendor # "codex" /\ vendor \in in.env THEN Root ELSE in.cwd
SessionId(in) == IF in.keys = {} THEN "unknown" ELSE in.id

\* "none": no user-preferences.yaml, or one that does not parse
DetectLanguage(prefs) == IF prefs = "none" THEN "en" ELSE prefs

\* makePromptOutput: the shape of the answer
PromptOutput(vendor) ==
    CASE vendor = "claude" -> "additionalContext"
      [] vendor \in {"codex", "qwen"} -> "UserPromptSubmit"
      [] vendor = "gemini" -> "BeforeAgent"

\* makeBlockOutput: its decision
BlockOutput(vendor) == IF vendor = "gemini" THEN "deny" ELSE "block"

-----------------------------------------------------------------------------
Space == "blank"
Tick == "tick"
Signs == {Space, Tick, "?", "/"}

(***************************************************************************)
(* stripCodeBlocks: two replacements of all matches from left to right.    *)
(* ends[i] is where the match that starts at i ends, 0 if there is none.   *)
(***************************************************************************)
Fence(t, i) == i + 2 \in DOMAIN t /\ \A j \in i .. i + 2 : t[j] = Tick
LeastOf(S) == IF S = {} THEN 0 ELSE Min(S)

Without(t, ends) ==
    LET from[i \in 1 .. Len(t) + 1] ==
            IF i > Len(t) THEN <<>>
            ELSE IF ends[i] = 0 THEN <<t[i]>> \o from[i + 1] ELSE from[ends[i] + 1]
    IN  from[1]

\* /```[\s\S]*?```/g, then /`[^`]+`/g
Fenced(t) ==
    [i \in DOMAIN t |->
        LeastOf({j \in i + 5 .. Len(t) : Fence(t, i) /\ Fence(t, j - 2)})]
Inline(t) ==
    [i \in DOMAIN t |->
        LeastOf({j \in i + 2 .. Len(t) : /\ t[i] = Tick /\ t[j] = Tick
                                         /\ \A k \in i + 1 .. j - 1 : t[k] # Tick})]

StripCodeBlocks(t) ==
    LET u == Without(t, Fenced(t)) IN Without(u, Inline(u))

(***************************************************************************)
(* buildPatterns and buildInformationalPatterns.  Keywords are looked for  *)
(* as whole words, unless the language has none or they are not ASCII.     *)
(***************************************************************************)
\* (a faulty variant: a language of its own replaces English)
FaultyPatterns(lists, lang) == Of(lists, "*") \cup Of(lists, lang)

Patterns(lists, lang) == Of(lists, "*") \cup Of(lists, "en") \cup Of(lists, lang)

\* \b on both sides of a keyword or phrase that begins at i and ends at j
Bounded(t, i, j) == \A x \in {i - 1, j + 1} \cap DOMAIN t : t[x] \in Signs \cup NonAscii

\* The words of a keyword at these places, \s+ between them
Stands(t, keyword, at, loose) ==
    /\ \A j \in DOMAIN keyword : t[at[j]] = keyword[j]
    /\ \A j \in 1 .. Len(keyword) - 1 :
          /\ at[j] + 1 < at[j + 1]
          /\ \A x \in at[j] + 1 .. at[j + 1] - 1 : t[x] = Space
    /\ loose \/ Bounded(t, at[1], at[Len(keyword)])

\* A phrase at i as it is written: one blank is one blank.
Literal(t, phrase, i, loose) ==
    /\ i + Len(phrase) - 1 <= Len(t)
    /\ \A j \in DOMAIN phrase : t[i + j - 1] = phrase[j]
    /\ loose \/ Bounded(t, i, i + Len(phrase) - 1)

\* A keyword or phrase of triggers.json is not empty, and a keyword's words no signs.
Phrase(k) == k \in Seq(Range(k)) \ {<<>>}
ASSUME WordsAssumption ==
    /\ \A p \in Prompts : p \in Seq(Range(p))
    /\ \A lang \in DOMAIN Info : \A f \in Info[lang] : Phrase(f)
    /\ \A w \in Chosen : \A lang \in DOMAIN Workflows[w].keywords :
          \A k \in Workflows[w].keywords[lang] :
              Phrase(k) /\ \A j \in DOMAIN k : k[j] \notin Signs

Loose(keyword) == \E j \in DOMAIN keyword : keyword[j] \in NonAscii

\* pattern.exec: where the first match begins, 0 if there is none
Match(t, keyword, lang) ==
    LeastOf({i \in DOMAIN t : \E at \in [DOMAIN keyword -> DOMAIN t] :
                at[1] = i /\ Stands(t, keyword, at, lang \in Cjk \/ Loose(keyword))})

\* The characters from 60 before the match to 60 after its start.
Around(t, i) == SubSeq(t, IF i > Window THEN i - Window ELSE 1,
                       IF i + Window <= Len(t) THEN i + Window - 1 ELSE Len(t))

\* (a faulty variant: what follows the match is not looked at)
FaultyInformational(t, i, lang) ==
    LET window == SubSeq(t, IF i > Window THEN i - Window ELSE 1, i) IN
    \E p \in Of(Info, "en") \cup Of(Info, lang), j \in DOMAIN window :
        Literal(window, p, j, Loose(p))

\* isInformationalContext: one of the phrases in the window, or a "?" as the last of
\* its characters, blanks included
Informational(t, i, lang) ==
    LET window == Around(t, i) IN
    \/ window[Len(window)] = "?"
    \/ \E p \in Of(Info, "en") \cup Of(Info, lang), j \in DOMAIN window :
          Literal(window, p, j, Loose(p))

\* prompt.trim() begins with "/" and a letter
StartsWithSlashCommand(p) ==
    \E i \in DOMAIN p : /\ p[i] = "/" /\ \A j \in 1 .. i - 1 : p[j] = Space
                        /\ i + 1 \in DOMAIN p /\ p[i + 1] \notin Signs \cup NonAscii
Blank(p) == \A i \in DOMAIN p : p[i] = Space

\* The loop of main: the first workflow one of whose patterns has its first match
\* outside of informational contexts.
Choose(prompt, lang) ==
    LET t == StripCodeBlocks(prompt) IN
    LeastOf({w \in Chosen :
        /\ ~Workflows[w].excluded
        /\ \E k \in Patterns(Workflows[w].keywords, lang) :
              LET i == Match(t, k, lang) IN i # 0 /\ ~Informational(t, i, lang)})

-----------------------------------------------------------------------------
VARIABLES
    session,   \* the session
    prefs,     \* language in .agents/config/user-preferences.yaml of Root
    cwd,       \* its working directory
    state,     \* <workflow>-state.json in every directory: its session's id
    hook,      \* the prompt hook
    prompts,   \* how many there were
    told       \* history: the workflow it last told the agent to follow, and
               \* whether the working directory has changed since

vars == <<session, prefs, cwd, state, hook, prompts, told>>

\* "quiet": the hook exits without an output; "done": it has exited.
Pcs == {"quiet", "done", "main", "activate", "print"}
NoHook(pc) == [pc |-> pc, prompt |-> <<>>, workflow |-> 0, out |-> "none"]
At(pc) == hook.pc = pc
Goto(pc) == hook' = [hook EXCEPT !.pc = pc]

In(name) == Input(session, name, cwd)
Vendor == PromptVendor(In("prompt"))
Lang == DetectLanguage(IF ProjectDir(Vendor, In("prompt")) = Root THEN prefs ELSE "none")

Init ==
    /\ session \in Sessions
    /\ prefs \in Languages \cup {"none"}
    /\ cwd = Root
    /\ state = [d \in Dirs |-> [w \in Chosen |-> NoId]]
    /\ hook = NoHook("done")
    /\ prompts = 0
    /\ told = [workflow |-> 0, moved |-> FALSE]

Say ==
    /\ At("done") /\ prompts < MaxPrompts /\ prompts' = prompts + 1
    /\ \E p \in Prompts : hook' = [NoHook("main") EXCEPT !.prompt = p]
    /\ UNCHANGED <<session, prefs, cwd, state, told>>

\* main up to the choice: no output for blank prompts, slash commands, and those
\* that match nothing.
Main ==
    /\ At("main")
    /\ IF Blank(hook.prompt) \/ StartsWithSlashCommand(hook.prompt) THEN Goto("quiet")
       ELSE LET w == Choose(hook.prompt, Lang) IN
            IF w = 0 THEN Goto("quiet")
            ELSE hook' = [hook EXCEPT !.workflow = w,
                              !.pc = IF Workflows[w].persistent THEN "activate" ELSE "print"]
    /\ UNCHANGED <<session, prefs, cwd, state, prompts, told>>

\* (a faulty variant: the directory is always the working directory)
FaultyActivateMode ==
    /\ At("activate") /\ Goto("print")
    /\ state' = [state EXCEPT ![cwd][hook.workflow] = SessionId(In("prompt"))]
    /\ UNCHANGED <<session, prefs, cwd, prompts, told>>

ActivateMode ==
    /\ At("activate") /\ Goto("print")
    /\ state' = [state EXCEPT ![ProjectDir(Vendor, In("prompt"))][hook.workflow] =
                     SessionId(In("prompt"))]
    /\ UNCHANGED <<session, prefs, cwd, prompts, told>>

Tell ==
    /\ At("print")
    /\ hook' = [NoHook("done") EXCEPT !.out = PromptOutput(Vendor)]
    /\ told' = [workflow |-> hook.workflow, moved |-> FALSE]
    /\ UNCHANGED <<session, prefs, cwd, state, prompts>>

\* The end of a quiet hook; a file that cannot be read or written; the timeout of
\* 5 seconds.
Exit ==
    /\ ~At("done") /\ hook' = NoHook("done")
    /\ UNCHANGED <<session, prefs, cwd, state, prompts, told>>

\* The agent works elsewhere.
Move(dir) ==
    /\ At("done") /\ dir # cwd /\ cwd' = dir
    /\ told' = [told EXCEPT !.moved = told.workflow # 0]
    /\ UNCHANGED <<session, prefs, state, hook, prompts>>

Next ==
    \/ Say \/ Main \/ ActivateMode \/ Tell \/ Exit
    \/ \E d \in Dirs : Move(d)

Spec == Init /\ [][Next]_vars

-----------------------------------------------------------------------------
(***************************************************************************)
(* Types; what the hooks print has the form that the agent at hand reads.  *)
(***************************************************************************)
TypeOK ==
    /\ session \in Sessions /\ prefs \in Languages \cup {"none"}
    /\ cwd \in Dirs /\ state \in [Dirs -> [Chosen -> Ids \cup {NoId}]]
    /\ hook.pc \in Pcs /\ hook.workflow \in Chosen \cup {0}
    /\ hook.out \in {"none", CASE session.vendor = "claude" -> "additionalContext"
                             [] session.vendor = "gemini" -> "BeforeAgent"
                             [] OTHER -> "UserPromptSubmit"}
    /\ BlockOutput(StopVendor(In("stop"))) = "deny" <=> session.vendor = "gemini"
    /\ prompts \in 0 .. MaxPrompts
    /\ told \in [workflow : Chosen \cup {0}, moved : BOOLEAN]

(***************************************************************************)
(* What a reader of the prompt takes for code, if its ticks come in threes *)
(* (fences, which pair up) and alone (of which the last may be left over). *)
(***************************************************************************)
TickAt(p, i) == i \in DOMAIN p /\ p[i] = Tick
Alone(p, i) == TickAt(p, i) /\ ~TickAt(p, i - 1) /\ ~TickAt(p, i + 1)
Before(S, i) == Cardinality({j \in S : j < i})

\* i is in the block that one of the marks in S opens and the next one closes, itself
\* w + 1 long.
InBlock(S, w, i) ==
    \E o, c \in S : /\ Before(S, o) % 2 = 0 /\ o < c /\ \A j \in S : j <= o \/ c <= j
                    /\ i \in o .. c + w

Fences(p) == {i \in DOMAIN p : Fence(p, i) /\ ~TickAt(p, i - 1) /\ ~TickAt(p, i + 3)}
Singles(p) == {i \in DOMAIN p : Alone(p, i) /\ ~InBlock(Fences(p), 2, i)}
Readable(p) ==
    /\ \A f \in Fences(p) : InBlock(Fences(p), 2, f)
    /\ \A i \in DOMAIN p : TickAt(p, i) => Alone(p, i) \/ \E f \in Fences(p) : i \in f .. f + 2

\* The rest of it, in its order.
Code(p, i) == InBlock(Fences(p), 2, i) \/ InBlock(Singles(p), 0, i)
Seen(p) ==
    LET V == {i \in DOMAIN p : ~Code(p, i)} IN
    [m \in 1 .. Cardinality(V) |-> p[CHOOSE i \in V : Before(V, i) + 1 = m]]

Listed(lists, langs) == UNION {Of(lists, l) : l \in langs}

\* In what is seen there stands keyword k, no informational phrase lies within Window
\* of where it begins, and what is seen does not end there with a question mark.
Asks(t, lang, k) ==
    \E at \in [DOMAIN k -> DOMAIN t] :
        LET near == DOMAIN t \cap (at[1] - Window .. at[1] + Window - 1) IN
        /\ Stands(t, k, at, lang \in Cjk \/ Loose(k))
        /\ \A f \in Listed(Info, {"en", lang}), i \in near :
              i + Len(f) - 1 \in near => ~Literal(t, f, i, Loose(f))
        /\ Len(t) \in near => t[Len(t)] # "?"
Asked(p, lang, w) ==
    /\ ~Workflows[w].excluded
    /\ \E k \in Listed(Workflows[w].keywords, {"*", "en", lang}) : Asks(Seen(p), lang, k)

\* Nothing in the prompt could make a hook hesitate: no tick, no question mark, no
\* phrase, not even inside of a word, and no command at its start.
Plain(p, lang) ==
    /\ \A i \in DOMAIN p : p[i] \notin {Tick, "?"}
    /\ \A f \in Listed(Info, {"en", lang}), i \in DOMAIN p : ~Literal(p, f, i, TRUE)
    /\ ~StartsWithSlashCommand(p)

(***************************************************************************)
(* The hook starts a workflow only if the prompt, read without its code,   *)
(* asks for it: a keyword of the workflow stands there, no informational   *)
(* phrase, of however many words, is within the window around it, and the  *)
(* text does not end in the window with a question mark.  The last says no *)
(* more than the code does: a blank behind the question mark, or two       *)
(* within a phrase, and the workflow starts.                               *)
(***************************************************************************)
OnlyAsked ==
    At("print") /\ Readable(hook.prompt) =>
        /\ Asked(hook.prompt, Lang, hook.workflow)
        /\ ~StartsWithSlashCommand(hook.prompt)

(***************************************************************************)
(* A prompt in plain words that holds a keyword is not passed over, in     *)
(* whatever language and vendor: none of the early exits swallows it.      *)
(***************************************************************************)
AskedIsHeard ==
    At("quiet") /\ Plain(hook.prompt, Lang) =>
        \A w \in Chosen : ~Asked(hook.prompt, Lang, w)

\* Codex tells its hooks nothing but the working directory.  Both hooks look for
\* session_id before they look at QWEN_PROJECT_DIR, and take a session of Qwen that
\* gives session_id alone for one of Codex.
TellsProject == In("stop").env # {}
TakenForCodex == session.vendor = "qwen" /\ session.keys = {"session_id"}

(***************************************************************************)
(* What the agent was told to follow to its end, the Stop hook guards: it  *)
(* finds the state in the directory and under the id that it derives from  *)
(* its own input, in every session that stays where it is, and wherever it *)
(* moves in a session whose agent tells its hooks the project's directory, *)
(* but for the sessions of Qwen that are taken for Codex's: the directory  *)
(* that they tell is not looked at.                                        *)
(***************************************************************************)
Guarded ==
    LET stop == In("stop") IN
    told.workflow # 0 /\ Workflows[told.workflow].persistent =>
        \/ state[ProjectDir(StopVendor(stop), stop)][told.workflow] = SessionId(stop)
        \/ told.moved /\ (~TellsProject \/ TakenForCodex)

=============================================================================
