-------------------------- MODULE PromptHookProofs --------------------------
(***************************************************************************)
(* Theorems about PromptHook, for any workflows, languages, directories,   *)
(* prompts and kinds of sessions.                                          *)
(***************************************************************************)
EXTENDS PromptHook, FiniteSetTheorems, SequenceTheorems, WellFoundedInduction, TLAPS

-----------------------------------------------------------------------------
(***************************************************************************)
(* The choice of a workflow is one of the list, or none.                   *)
(***************************************************************************)
LEMMA LeastNumber ==
    ASSUME NEW T \in SUBSET Nat
    PROVE  /\ LeastOf(T) \in T \cup {0}
           /\ T # {} => LeastOf(T) \in T /\ \A y \in T : LeastOf(T) <= y
<1>1. CASE T = {}
  BY <1>1 DEF LeastOf
<1>2. CASE T # {}
  <2>1. PICK x \in T : \A y \in T : ~(<<y, x>> \in OpToRel(<, Nat))
    BY <1>2, NatLessThanWellFounded, WFMin
  <2>2. \A y \in T : ~(y < x)
    BY <2>1, Zenon DEF OpToRel
  <2>3. Min(T) \in T /\ \A y \in T : Min(T) <= y
    <3>1. \A y \in T : x <= y
      BY <2>2
    <3>2. QED
      BY <3>1 DEF Min
  <2>4. QED
    BY <1>2, <2>3 DEF LeastOf
<1>3. QED
  BY <1>1, <1>2

LEMMA ChosenNats == Chosen \subseteq Nat
  BY DEF Chosen

LEMMA ChooseType == \A prompt, lang : Choose(prompt, lang) \in Chosen \cup {0}
<1> SUFFICES ASSUME NEW prompt, NEW lang PROVE Choose(prompt, lang) \in Chosen \cup {0}
  OBVIOUS
<1> DEFINE t == StripCodeBlocks(prompt)
           T == {w \in Chosen :
                    /\ ~Workflows[w].excluded
                    /\ \E k \in Patterns(Workflows[w].keywords, lang) :
                          LET i == Match(t, k, lang) IN i # 0 /\ ~Informational(t, i, lang)}
<1>1. T \in SUBSET Nat /\ T \subseteq Chosen
  BY ChosenNats
<1>2. Choose(prompt, lang) = LeastOf(T)
  BY DEF Choose
<1> HIDE DEF T
<1>3. QED
  BY <1>1, <1>2, LeastNumber

-----------------------------------------------------------------------------
(***************************************************************************)
(* What the two hooks make of their inputs.                                *)
(***************************************************************************)

\* The hooks of one session take it for the same vendor's, and pass over the project's
\* directory only in one of Codex, or one of Qwen that looks like it.
LEMMA Detection ==
    ASSUME NEW s \in Sessions, NEW d, NEW e
    PROVE  /\ StopVendor(Input(s, "stop", e)) = PromptVendor(Input(s, "prompt", d))
           /\ StopVendor(Input(s, "stop", d)) = StopVendor(Input(s, "stop", e))
           /\ ProjectDir(PromptVendor(Input(s, "prompt", d)), Input(s, "prompt", d)) =
                 IF StopVendor(Input(s, "stop", e)) = "codex" THEN d ELSE Root
           /\ ProjectDir(StopVendor(Input(s, "stop", d)), Input(s, "stop", d)) =
                 IF StopVendor(Input(s, "stop", e)) = "codex" THEN d ELSE Root
           /\ SessionId(Input(s, "stop", d)) = SessionId(Input(s, "prompt", e))
           /\ StopVendor(Input(s, "stop", e)) = "codex" =>
                 \/ Input(s, "stop", d).env = {}
                 \/ s.vendor = "qwen" /\ s.keys = {"session_id"}
<1> DEFINE in == Input(s, "prompt", d)
           stop(x) == Input(s, "stop", x)
<1>1. /\ in.event = IF s.vendor = "gemini" THEN "BeforeAgent" ELSE "UserPromptSubmit"
      /\ in.keys = s.keys /\ in.id = s.id /\ in.cwd = d /\ in.env = {s.vendor} \ {"codex"}
  BY DEF Input, Event
<1>2. \A x : /\ stop(x).event = IF s.vendor = "gemini" THEN "AfterAgent" ELSE "Stop"
             /\ stop(x).keys = s.keys /\ stop(x).id = s.id /\ stop(x).cwd = x
             /\ stop(x).env = {s.vendor} \ {"codex"}
  BY DEF Input, Event
<1>3. Input(s, "prompt", e).keys = s.keys /\ Input(s, "prompt", e).id = s.id
  BY DEF Input
<1> DEFINE V == IF s.vendor = "gemini" THEN "gemini"
                ELSE IF s.keys = {"session_id"} THEN "codex"
                ELSE IF s.vendor = "qwen" THEN "qwen" ELSE "claude"
<1> HIDE DEF in, stop
<1>4. PromptVendor(in) = V
  BY <1>1 DEF PromptVendor
<1>5. \A x : StopVendor(stop(x)) = V
  BY <1>2 DEF StopVendor
<1>6. V # "codex" => V = s.vendor
  BY PromptAssumption, KeysAssumption DEF Vendors
<1>11. V = "codex" => \/ s.vendor = "qwen" /\ s.keys = {"session_id"}
                      \/ {s.vendor} \ {"codex"} = {}
  BY PromptAssumption, KeysAssumption DEF Vendors
<1> HIDE DEF V
<1>7. ProjectDir(V, in) = IF V = "codex" THEN d ELSE Root
  BY <1>1, <1>6 DEF ProjectDir
<1>8. ProjectDir(V, stop(d)) = IF V = "codex" THEN d ELSE Root
  BY <1>2, <1>6 DEF ProjectDir
<1>9. SessionId(stop(d)) = SessionId(Input(s, "prompt", e))
  BY <1>2, <1>3 DEF SessionId
<1>10. QED
  BY <1>2, <1>4, <1>5, <1>7, <1>8, <1>9, <1>11 DEF in, stop

LEMMA SessionIdType ==
    ASSUME NEW s \in Sessions, NEW d
    PROVE  SessionId(Input(s, "prompt", d)) \in Ids
  BY DEF SessionId, Input, Ids

\* What the session's agent reads of an answer.
Form == CASE session.vendor = "claude" -> "additionalContext"
          [] session.vendor = "gemini" -> "BeforeAgent"
          [] OTHER -> "UserPromptSubmit"

LEMMA OutputForm ==
    ASSUME session \in Sessions
    PROVE  /\ PromptOutput(Vendor) = Form
           /\ \A d : BlockOutput(StopVendor(Input(session, "stop", d))) = "deny"
                       <=> session.vendor = "gemini"
<1> DEFINE in == In("prompt")
<1>1. /\ in.event = IF session.vendor = "gemini" THEN "BeforeAgent" ELSE "UserPromptSubmit"
      /\ in.keys = session.keys /\ in.env = {session.vendor} \ {"codex"}
  BY DEF In, Input, Event
<1> HIDE DEF in
<1>2. /\ session.vendor \in Vendors
      /\ session.vendor = "codex" => session.keys = {"session_id"}
      /\ session.vendor = "claude" => session.keys # {"session_id"}
  BY PromptAssumption, KeysAssumption
<1>3. PromptVendor(in) =
         IF session.vendor = "gemini" THEN "gemini"
         ELSE IF session.keys = {"session_id"} THEN "codex" ELSE session.vendor
  BY <1>1, <1>2 DEF PromptVendor, Vendors
<1>4. PromptOutput(PromptVendor(in)) = Form
  BY <1>2, <1>3 DEF PromptOutput, Form, Vendors
<1>5. \A d : StopVendor(Input(session, "stop", d)) = PromptVendor(in)
  BY Detection DEF in, In
<1>6. QED
  BY <1>2, <1>3, <1>4, <1>5 DEF Vendor, BlockOutput, in, Vendors

-----------------------------------------------------------------------------
(***************************************************************************)
(* Types.                                                                  *)
(***************************************************************************)
ShapeOK ==
    /\ hook = [pc |-> hook.pc, prompt |-> hook.prompt, workflow |-> hook.workflow,
               out |-> hook.out]
    /\ At("activate") \/ At("print") => hook.workflow \in Chosen

TypeInv == TypeOK /\ ShapeOK

LEMMA TypeInit == Init => TypeInv
<1> SUFFICES ASSUME Init PROVE TypeInv
  OBVIOUS
<1>1. session \in Sessions /\ cwd = Root
  BY DEF Init
<1>2. BlockOutput(StopVendor(In("stop"))) = "deny" <=> session.vendor = "gemini"
  BY <1>1, OutputForm DEF In
<1>3. QED
  BY <1>1, <1>2, PromptAssumption
     DEF Init, TypeInv, TypeOK, ShapeOK, NoHook, At, Pcs

LEMMA TypeStep == TypeInv /\ [Next]_vars => TypeInv'
<1> SUFFICES ASSUME TypeInv, [Next]_vars PROVE TypeInv'
  OBVIOUS
<1>1. /\ session' = session /\ prefs' = prefs
      /\ session \in Sessions /\ prefs \in Languages \cup {"none"}
  BY DEF Next, vars, Say, Main, ActivateMode, Tell, Exit, Move, TypeInv, TypeOK
<1>2. (BlockOutput(StopVendor(In("stop"))) = "deny" <=> session.vendor = "gemini")'
  BY <1>1, OutputForm DEF In
<1>3. cwd' \in Dirs
  BY DEF Next, vars, Say, Main, ActivateMode, Tell, Exit, Move, TypeInv, TypeOK
<1>4. prompts' \in 0 .. MaxPrompts
  BY PromptAssumption
     DEF Next, vars, Say, Main, ActivateMode, Tell, Exit, Move, TypeInv, TypeOK
<1>5. state' \in [Dirs -> [Chosen -> Ids \cup {NoId}]]
  <2>1. CASE ActivateMode
    <3>1. SessionId(In("prompt")) \in Ids
      BY <1>1, SessionIdType DEF In
    <3>2. hook.workflow \in Chosen
      BY <2>1 DEF ActivateMode, TypeInv, ShapeOK
    <3>3. QED
      BY <2>1, <3>1, <3>2 DEF ActivateMode, TypeInv, TypeOK
  <2>2. CASE ~ActivateMode
    BY <2>2 DEF Next, vars, Say, Main, Tell, Exit, Move, TypeInv, TypeOK
  <2>3. QED
    BY <2>1, <2>2
<1>6. /\ ShapeOK' /\ hook'.pc \in Pcs /\ hook'.workflow \in Chosen \cup {0}
      /\ hook'.out \in {"none", Form}
  <2>1. ShapeOK /\ hook.pc \in Pcs /\ hook.workflow \in Chosen \cup {0} /\ hook.out \in {"none", Form}
    BY DEF TypeInv, TypeOK, Form
  <2>2. CASE Say
    BY <2>2 DEF Say, NoHook, ShapeOK, At, Pcs
  <2>3. CASE Main
    <3>1. Choose(hook.prompt, Lang) \in Chosen \cup {0}
      BY ChooseType
    <3> DEFINE w == Choose(hook.prompt, Lang)
    <3>2. \/ hook' = [hook EXCEPT !.pc = "quiet"]
          \/ w # 0 /\ \E pc \in {"activate", "print"} :
                hook' = [hook EXCEPT !.workflow = w, !.pc = pc]
      BY <2>3 DEF Main, Goto
    <3> HIDE DEF w
    <3>3. w \in Chosen \cup {0}
      BY <3>1 DEF w
    <3>4. QED
      BY <2>1, <3>2, <3>3 DEF ShapeOK, At, Pcs
  <2>4. CASE ActivateMode
    BY <2>1, <2>4 DEF ActivateMode, Goto, ShapeOK, At, Pcs
  <2>5. CASE Tell
    <3>1. hook' = [pc |-> "done", prompt |-> <<>>, workflow |-> 0, out |-> Form]
      BY <1>1, <2>5, OutputForm DEF Tell, NoHook
    <3>2. QED
      BY <3>1 DEF ShapeOK, At, Pcs
  <2>6. CASE Exit
    BY <2>6 DEF Exit, NoHook, ShapeOK, At, Pcs
  <2>7. CASE hook' = hook
    BY <2>1, <2>7 DEF ShapeOK, At
  <2>8. QED
    BY <2>2, <2>3, <2>4, <2>5, <2>6, <2>7 DEF Next, Move, vars
<1>7. told' \in [workflow : Chosen \cup {0}, moved : BOOLEAN]
  <2>1. told \in [workflow : Chosen \cup {0}, moved : BOOLEAN]
    BY DEF TypeInv, TypeOK
  <2>2. CASE Tell
    <3>1. hook.workflow \in Chosen
      BY <2>2 DEF Tell, TypeInv, ShapeOK
    <3>2. QED
      BY <2>2, <3>1 DEF Tell
  <2>3. ASSUME NEW d \in Dirs, Move(d)
        PROVE  told' \in [workflow : Chosen \cup {0}, moved : BOOLEAN]
    <3>1. PICK b \in BOOLEAN : told' = [told EXCEPT !.moved = b]
      BY <2>3 DEF Move
    <3>2. QED
      BY <2>1, <3>1
  <2>4. QED
    BY <2>1, <2>2, <2>3 DEF Next, vars, Say, Main, ActivateMode, Exit
<1>8. QED
  BY <1>1, <1>2, <1>3, <1>4, <1>5, <1>6, <1>7 DEF TypeInv, TypeOK, Form

(***************************************************************************)
(* The hooks answer each vendor in its own form, whatever keys and         *)
(* variables its sessions give them.                                       *)
(***************************************************************************)
THEOREM HookTypeCorrect == Spec => []TypeOK
  BY TypeInit, TypeStep, PTL DEF Spec, TypeInv

-----------------------------------------------------------------------------
(***************************************************************************)
(* The Stop hook finds the state.                                          *)
(***************************************************************************)
FromCodex == StopVendor(In("stop")) = "codex"
StateDir == IF FromCodex THEN cwd ELSE Root
MyId == SessionId(In("stop"))

\* The state is where the Stop hook looks, before the agent is told.
Written == At("print") /\ Workflows[hook.workflow].persistent
              => state[StateDir][hook.workflow] = MyId

Found == told.workflow # 0 /\ Workflows[told.workflow].persistent
            => state[StateDir][told.workflow] = MyId \/ (told.moved /\ FromCodex)

GuardInv == TypeInv /\ Written /\ Found

LEMMA HooksAgree ==
    ASSUME session \in Sessions
    PROVE  /\ ProjectDir(Vendor, In("prompt")) = StateDir
           /\ ProjectDir(StopVendor(In("stop")), In("stop")) = StateDir
           /\ SessionId(In("prompt")) = MyId
  BY Detection DEF Vendor, In, StateDir, FromCodex, MyId

LEMMA GuardInit == Init => GuardInv
  BY TypeInit DEF Init, GuardInv, Written, Found, At, NoHook

LEMMA GuardStep == GuardInv /\ [Next]_vars => GuardInv'
<1> SUFFICES ASSUME GuardInv, [Next]_vars PROVE GuardInv'
  OBVIOUS
<1>1. TypeInv' /\ TypeOK /\ ShapeOK /\ Written /\ Found /\ session \in Sessions
  BY TypeStep DEF GuardInv, TypeInv, TypeOK
<1>2. session' = session
  BY DEF Next, vars, Say, Main, ActivateMode, Tell, Exit, Move
<1>3. FromCodex' = FromCodex /\ MyId' = MyId
  BY <1>1, <1>2, Detection DEF FromCodex, MyId, In
<1>4. cwd' = cwd => StateDir' = StateDir
  BY <1>3 DEF StateDir
<1>5. ASSUME state' = state, told' = told, cwd' = cwd PROVE Found'
  BY <1>1, <1>3, <1>4, <1>5 DEF Found
<1>6. CASE Say \/ Exit
  <2>1. hook'.pc # "print"
    BY <1>6 DEF Say, Exit, NoHook
  <2>2. QED
    BY <1>1, <1>5, <1>6, <2>1 DEF Say, Exit, GuardInv, Written, At
<1>7. CASE Main
  <2>1. ~(At("print") /\ Workflows[hook.workflow].persistent)'
    <3> DEFINE w == Choose(hook.prompt, Lang)
    <3>1. \/ hook' = [hook EXCEPT !.pc = "quiet"]
          \/ hook' = [hook EXCEPT !.workflow = w, !.pc = "activate"]
          \/ ~Workflows[w].persistent /\ hook' = [hook EXCEPT !.workflow = w, !.pc = "print"]
      BY <1>7 DEF Main, Goto
    <3> HIDE DEF w
    <3>2. \/ hook'.pc = "quiet" \/ hook'.pc = "activate"
          \/ ~Workflows[w].persistent /\ hook'.workflow = w
      BY <1>1, <3>1 DEF ShapeOK
    <3>3. QED
      BY <3>2 DEF At
  <2>2. QED
    BY <1>1, <1>5, <1>7, <2>1 DEF Main, GuardInv, Written
<1>8. CASE ActivateMode
  <2>1. state' = [state EXCEPT ![StateDir][hook.workflow] = MyId]
    BY <1>1, <1>8, HooksAgree DEF ActivateMode
  <2>2. StateDir \in Dirs /\ hook.workflow \in Chosen
    BY <1>1, <1>8, PromptAssumption DEF ActivateMode, ShapeOK, TypeOK, StateDir
  <2>3. state \in [Dirs -> [Chosen -> Ids \cup {NoId}]] /\ told.workflow \in Chosen \cup {0}
    BY <1>1 DEF TypeOK
  <2>4. state'[StateDir][hook.workflow] = MyId
    BY <2>1, <2>2, <2>3
  <2>5. \A w \in Chosen : state[StateDir][w] = MyId => state'[StateDir][w] = MyId
    BY <2>1, <2>2, <2>3
  <2>6. hook'.workflow = hook.workflow /\ told' = told /\ cwd' = cwd
    BY <1>1, <1>8 DEF ActivateMode, Goto, ShapeOK
  <2>7. Written'
    BY <1>3, <1>4, <2>4, <2>6 DEF Written
  <2>8. Found'
    BY <1>1, <1>3, <1>4, <2>3, <2>5, <2>6 DEF Found
  <2>9. QED
    BY <1>1, <2>7, <2>8 DEF GuardInv
<1>9. CASE Tell
  <2>1. hook'.pc # "print" /\ told'.workflow = hook.workflow
    BY <1>9 DEF Tell, NoHook
  <2>2. At("print") /\ state' = state /\ cwd' = cwd
    BY <1>9 DEF Tell
  <2>3. Found'
    BY <1>1, <1>3, <1>4, <2>1, <2>2 DEF Written, Found
  <2>4. QED
    BY <1>1, <2>1, <2>3 DEF GuardInv, Written, At
<1>10. ASSUME NEW d \in Dirs, Move(d) PROVE GuardInv'
  <2>1. At("done") /\ hook' = hook /\ state' = state
    BY <1>10 DEF Move
  <2>2. told'.workflow = told.workflow /\ (told.workflow # 0 => told'.moved)
    BY <1>1, <1>10 DEF Move, TypeOK
  <2>3. ~FromCodex => StateDir' = StateDir
    BY <1>3 DEF StateDir
  <2>4. ~FromCodex /\ told.workflow # 0 /\ Workflows[told.workflow].persistent
           => state[StateDir][told.workflow] = MyId
    BY <1>1 DEF Found
  <2>5. Found'
    BY <1>3, <2>1, <2>2, <2>3, <2>4 DEF Found
  <2>6. QED
    BY <1>1, <2>1, <2>5 DEF GuardInv, Written, At
<1>11. CASE UNCHANGED vars
  <2>1. Written'
    BY <1>1, <1>3, <1>4, <1>11 DEF vars, Written, At
  <2>2. QED
    BY <1>1, <1>5, <1>11, <2>1 DEF vars, GuardInv
<1>12. QED
  BY <1>6, <1>7, <1>8, <1>9, <1>10, <1>11 DEF Next

(***************************************************************************)
(* A persistent workflow that the agent was told to follow is guarded: its *)
(* state is in the directory and under the id that the Stop hook derives   *)
(* from its own input.  When the session has moved, it may be lost in two  *)
(* cases: the agent tells its hooks nothing but the working directory, or  *)
(* it is Qwen and both hooks take it for Codex.                            *)
(***************************************************************************)
THEOREM StopHookFindsState == Spec => []Guarded
<1>1. GuardInv => Guarded
  <2> SUFFICES ASSUME GuardInv PROVE Guarded
    OBVIOUS
  <2>1. session \in Sessions /\ Found
    BY DEF GuardInv, TypeInv, TypeOK
  <2>2. FromCodex => ~TellsProject \/ TakenForCodex
    BY <2>1, Detection DEF FromCodex, TellsProject, TakenForCodex, In
  <2>3. /\ ProjectDir(StopVendor(In("stop")), In("stop")) = StateDir
        /\ SessionId(In("stop")) = MyId
    BY <2>1, HooksAgree DEF MyId
  <2> QED
    BY <2>1, <2>2, <2>3 DEF Guarded, Found
<1>2. QED
  BY <1>1, GuardInit, GuardStep, PTL DEF Spec

-----------------------------------------------------------------------------
(***************************************************************************)
(* Numbers: how many elements of a set come before a number, and which     *)
(* comes last before it or first from it on.                               *)
(***************************************************************************)
LEMMA Induction ==
    ASSUME NEW S \in SUBSET Nat, 0 \in S, \A n \in S : n + 1 \in S
    PROVE  S = Nat
<1> SUFFICES ASSUME Nat \ S # {} PROVE FALSE
  OBVIOUS
<1>1. PICK x \in Nat \ S : \A y \in Nat \ S : ~(<<y, x>> \in OpToRel(<, Nat))
  BY NatLessThanWellFounded, WFMin
<1>2. \A y \in Nat \ S : ~(y < x)
  BY <1>1, Zenon DEF OpToRel
<1>3. x \in Nat /\ x \notin S /\ x # 0
  BY <1>1
<1>4. x - 1 \in Nat /\ x - 1 < x /\ (x - 1) + 1 = x
  BY <1>3
<1>5. x - 1 \in S
  BY <1>2, <1>4
<1>6. (x - 1) + 1 \in S
  BY <1>5
<1> QED
  BY <1>3, <1>4, <1>6

LEMMA NextOne ==
    ASSUME NEW S \in SUBSET Nat, NEW x \in Nat, \E i \in S : i >= x
    PROVE  \E i \in S : i >= x /\ \A j \in S : j < x \/ j >= i
<1> DEFINE T == {i \in S : i >= x}
<1>1. T \in SUBSET Nat /\ T # {}
  OBVIOUS
<1>2. PICK i \in T : \A y \in T : i <= y
  BY <1>1, LeastNumber
<1>3. \A j \in S : j < x \/ j >= i
  BY <1>2
<1> QED
  BY <1>2, <1>3

LEMMA LastOne ==
    ASSUME NEW S \in SUBSET Nat, NEW x \in Nat, \E i \in S : i < x
    PROVE  \E i \in S : i < x /\ \A j \in S : j >= x \/ j <= i
<1> DEFINE T == {d \in 1 .. x : x - d \in S}
<1>1. T \in SUBSET Nat /\ T # {}
  <2>1. PICK i \in S : i < x
    OBVIOUS
  <2>2. x - i \in 1 .. x /\ x - (x - i) = i
    BY <2>1
  <2>3. x - i \in T
    BY <2>2
  <2>4. T \in SUBSET Nat
    OBVIOUS
  <2> HIDE DEF T
  <2> QED
    BY <2>3, <2>4
<1>2. PICK d \in T : \A y \in T : d <= y
  BY <1>1, LeastNumber
<1>3. d \in 1 .. x /\ x - d \in S /\ x - d < x
  BY <1>2
<1>4. ASSUME NEW j \in S, j < x PROVE j <= x - d
  <2>1. x - j \in 1 .. x /\ x - (x - j) = j
    BY <1>4
  <2>2. d <= x - j
    BY <1>2, <2>1
  <2> QED
    BY <1>3, <1>4, <2>2
<1>5. \A j \in S : j >= x \/ j <= x - d
  BY <1>4
<1> QED
  BY <1>3, <1>5

LEMMA BeforeType ==
    ASSUME NEW n \in Nat, NEW S \in SUBSET (1 .. n), NEW x
    PROVE  /\ Before(S, x) \in Nat /\ IsFiniteSet({j \in S : j < x}) /\ IsFiniteSet(S)
           /\ Cardinality(S) \in Nat
<1>1. IsFiniteSet(1 .. n)
  BY FS_Interval
<1>2. IsFiniteSet(S) /\ IsFiniteSet({j \in S : j < x})
  BY <1>1, FS_Subset
<1> QED
  BY <1>2, FS_CardinalityType DEF Before

\* Nothing between x and y.
LEMMA BeforeNext ==
    ASSUME NEW n \in Nat, NEW S \in SUBSET (1 .. n), NEW i \in S, NEW y \in Nat, i < y,
           \A j \in S : j < y => j <= i
    PROVE  Before(S, y) = Before(S, i) + 1
<1>1. i \in Nat /\ \A j \in S : j \in Nat
  OBVIOUS
<1>2. \A j \in S : j < y <=> j < i \/ j = i
  BY <1>1
<1>3. {j \in S : j < y} = {j \in S : j < i} \cup {i}
  BY <1>2
<1>4. IsFiniteSet({j \in S : j < i})
  BY BeforeType
<1>5. i \notin {j \in S : j < i}
  BY <1>1
<1> QED
  BY <1>3, <1>4, <1>5, FS_AddElement DEF Before

LEMMA OddBefore ==
    ASSUME NEW n \in Nat, NEW S \in SUBSET (1 .. n), NEW y \in Nat, Before(S, y) % 2 = 1
    PROVE  \E i \in S : /\ i < y /\ Before(S, i) % 2 = 0
                        /\ \A j \in S : j >= y \/ j <= i
<1>1. \E i \in S : i < y
  <2>1. {j \in S : j < y} # {}
    BY FS_EmptySet DEF Before
  <2> QED
    BY <2>1
<1>2. S \in SUBSET Nat
  OBVIOUS
<1>3. PICK i \in S : i < y /\ \A j \in S : j >= y \/ j <= i
  BY <1>1, <1>2, LastOne
<1>4. \A j \in S : j < y => j <= i
  BY <1>2, <1>3
<1>5. Before(S, y) = Before(S, i) + 1
  BY <1>3, <1>4, BeforeNext
<1>6. Before(S, i) \in Nat
  BY BeforeType
<1>7. Before(S, i) % 2 = 0
  BY <1>5, <1>6
<1> QED
  BY <1>3, <1>7

\* What comes next after an even one is odd.
LEMMA OddNext ==
    ASSUME NEW n \in Nat, NEW S \in SUBSET (1 .. n), NEW i \in S, Before(S, i) % 2 = 0,
           NEW y \in Nat, i < y, \A j \in S : j < y => j <= i
    PROVE  Before(S, y) % 2 = 1
<1>1. Before(S, y) = Before(S, i) + 1
  BY BeforeNext
<1>2. Before(S, i) \in Nat
  BY BeforeType
<1> QED
  BY <1>1, <1>2

-----------------------------------------------------------------------------
(***************************************************************************)
(* Without cuts blocks out of a text.                                      *)
(***************************************************************************)

\* u is t at the positions of K, in their order.
Picks(pos, u, t, K) ==
    /\ K \subseteq Nat /\ Len(u) \in Nat
    /\ pos \in [1 .. Len(u) -> K]
    /\ \A m \in 1 .. Len(u) : u[m] = t[pos[m]]
    /\ \A l, m \in 1 .. Len(u) : l < m => pos[l] < pos[m]
    /\ \A i \in K : \E m \in 1 .. Len(u) : pos[m] = i

Ranged(t, ends) == \A i \in 1 .. Len(t) : ends[i] \in {0} \cup i .. Len(t)

\* The blocks begin at B: they lie apart, and outside of them no match begins.
Blocks(t, ends, B) ==
    /\ B \subseteq 1 .. Len(t)
    /\ \A b \in B : ends[b] # 0 /\ \A c \in B : c <= b \/ c > ends[b]
    /\ \A i \in 1 .. Len(t) : (\A b \in B : i < b \/ i > ends[b]) => ends[i] = 0

Left(t, ends, B) == {i \in 1 .. Len(t) : \A b \in B : i < b \/ i > ends[b]}

\* f is what is left of t from m on, and from every later position.
Scan(f, t, ends, m) ==
    f = [i \in m .. Len(t) + 1 |->
            IF i > Len(t) THEN <<>>
            ELSE IF ends[i] = 0 THEN <<t[i]>> \o f[i + 1] ELSE f[ends[i] + 1]]

LEMMA ScanExists ==
    ASSUME NEW t, Len(t) \in Nat, NEW ends, Ranged(t, ends)
    PROVE  \E f : Scan(f, t, ends, 1)
<1> DEFINE n == Len(t)
           S == {d \in Nat : d <= n => \E f : Scan(f, t, ends, n + 1 - d)}
<1>1. 0 \in S
  <2> DEFINE f == [i \in n + 1 .. n + 1 |-> <<>>]
  <2>1. f = [i \in n + 1 .. n + 1 |->
               IF i > Len(t) THEN <<>>
               ELSE IF ends[i] = 0 THEN <<t[i]>> \o f[i + 1] ELSE f[ends[i] + 1]]
    OBVIOUS
  <2> HIDE DEF f
  <2>2. Scan(f, t, ends, n + 1)
    BY <2>1 DEF Scan
  <2>3. n + 1 - 0 = n + 1
    OBVIOUS
  <2> QED
    BY <2>2, <2>3
<1>2. ASSUME NEW d \in S PROVE d + 1 \in S
  <2> SUFFICES ASSUME d + 1 <= n PROVE \E f : Scan(f, t, ends, n + 1 - (d + 1))
    OBVIOUS
  <2> DEFINE m == n - d
  <2>1. m \in 1 .. n /\ n + 1 - (d + 1) = m /\ n + 1 - d = m + 1
    OBVIOUS
  <2>2. PICK f : Scan(f, t, ends, m + 1)
    BY <2>1
  <2> DEFINE first == IF ends[m] = 0 THEN <<t[m]>> \o f[m + 1] ELSE f[ends[m] + 1]
             g == [i \in m .. n + 1 |-> IF i = m THEN first ELSE f[i]]
  <2>3. ASSUME NEW i \in m .. n + 1
        PROVE  g[i] = IF i > n THEN <<>>
                      ELSE IF ends[i] = 0 THEN <<t[i]>> \o g[i + 1] ELSE g[ends[i] + 1]
    <3> HIDE DEF m
    <3>1. CASE i = m
      <4>1. g[i] = first /\ ~(i > n) /\ i + 1 \in m + 1 .. n + 1
        BY <2>1, <3>1
      <4>2. g[i + 1] = f[i + 1]
        BY <2>1, <3>1, <4>1
      <4>3. ends[i] # 0 => g[ends[i] + 1] = f[ends[i] + 1]
        <5>1. ends[i] # 0 => ends[i] \in i .. n
          BY <2>1, <3>1 DEF Ranged
        <5> QED
          BY <2>1, <3>1, <5>1
      <4> QED
        BY <3>1, <4>1, <4>2, <4>3
    <3>2. CASE i \in m + 1 .. n + 1
      <4>1. f[i] = IF i > n THEN <<>>
                   ELSE IF ends[i] = 0 THEN <<t[i]>> \o f[i + 1] ELSE f[ends[i] + 1]
        <5> HIDE DEF g
        <5> QED
          BY <2>2, <3>2 DEF Scan
      <4>2. g[i] = f[i]
        BY <2>1, <3>2
      <4>3. ~(i > n) => g[i + 1] = f[i + 1]
        BY <2>1, <3>2
      <4>4. ~(i > n) /\ ends[i] # 0 => g[ends[i] + 1] = f[ends[i] + 1]
        <5>1. ~(i > n) /\ ends[i] # 0 => ends[i] \in i .. n
          BY <2>1, <3>2 DEF Ranged
        <5> QED
          BY <2>1, <3>2, <5>1
      <4> QED
        BY <4>1, <4>2, <4>3, <4>4
    <3> QED
      BY <2>1, <3>1, <3>2
  <2>4. Scan(g, t, ends, m)
    <3>1. g = [i \in m .. n + 1 |-> g[i]]
      OBVIOUS
    <3> HIDE DEF g
    <3> QED
      BY <2>3, <3>1 DEF Scan
  <2> HIDE DEF g, m
  <2> QED
    BY <2>1, <2>4
<1>3. S = Nat
  <2>1. \A d \in S : d + 1 \in S
    BY <1>2
  <2>2. S \in SUBSET Nat
    OBVIOUS
  <2> HIDE DEF S
  <2> QED
    BY <1>1, <2>1, <2>2, Induction
<1>4. n \in S /\ n + 1 - n = 1
  BY <1>3
<1> QED
  BY <1>4

LEMMA WithoutScan ==
    ASSUME NEW t, Len(t) \in Nat, NEW ends, Ranged(t, ends)
    PROVE  \E f : Scan(f, t, ends, 1) /\ Without(t, ends) = f[1]
<1> DEFINE from == CHOOSE f : Scan(f, t, ends, 1)
<1>1. Scan(from, t, ends, 1)
  BY ScanExists
<1>2. Without(t, ends) = from[1]
  BY Zenon DEF Without, Scan
<1> QED
  BY <1>1, <1>2

From(K, i) == {l \in K : l >= i}

LEMMA PickFirst ==
    ASSUME NEW W, NEW t, NEW u \in Seq(W), NEW K \in SUBSET Nat, NEW i \in K, t[i] \in W,
           NEW pos, Picks(pos, u, t, From(K, i + 1))
    PROVE  /\ <<t[i]>> \o u \in Seq(W)
           /\ \E p : Picks(p, <<t[i]>> \o u, t, From(K, i))
<1> DEFINE v == <<t[i]>> \o u
           n == Len(u)
           p == [m \in 1 .. n + 1 |-> IF m = 1 THEN i ELSE pos[m - 1]]
<1>1. /\ v \in Seq(W) /\ Len(v) = n + 1 /\ n \in Nat /\ v[1] = t[i]
      /\ \A m \in 2 .. n + 1 : v[m] = u[m - 1]
  OBVIOUS
<1> HIDE DEF v, n
<1>2. /\ pos \in [1 .. n -> From(K, i + 1)]
      /\ \A m \in 1 .. n : u[m] = t[pos[m]]
      /\ \A l, m \in 1 .. n : l < m => pos[l] < pos[m]
      /\ \A l \in From(K, i + 1) : \E m \in 1 .. n : pos[m] = l
  BY DEF Picks, n
<1>3. i \in Nat /\ From(K, i + 1) \subseteq From(K, i) /\ From(K, i) \subseteq Nat
  <2>1. i \in Nat /\ \A l \in K : l \in Nat
    OBVIOUS
  <2>2. \A l \in K : l >= i + 1 => l >= i
    BY <2>1
  <2> QED
    BY <2>1, <2>2 DEF From
<1>4. /\ DOMAIN p = 1 .. n + 1 /\ p[1] = i /\ 1 \in 1 .. n + 1
      /\ \A m \in 2 .. n + 1 : p[m] = pos[m - 1] /\ m - 1 \in 1 .. n /\ pos[m - 1] \in From(K, i + 1)
  <2>1. \A m \in 2 .. n + 1 : m - 1 \in 1 .. n /\ m \in 1 .. n + 1 /\ m # 1
    BY <1>1
  <2>2. 1 \in 1 .. n + 1
    BY <1>1
  <2> QED
    BY <1>2, <2>1, <2>2
<1>5. p \in [1 .. n + 1 -> From(K, i)]
  <2>1. i \in From(K, i)
    BY <1>3 DEF From
  <2>2. \A m \in 1 .. n + 1 : p[m] \in From(K, i)
    <3> HIDE DEF p
    <3>1. \A m \in 1 .. n + 1 : m = 1 \/ m \in 2 .. n + 1
      BY <1>1
    <3> QED
      BY <1>3, <1>4, <2>1, <3>1
  <2> QED
    BY <1>4, <2>2
<1> HIDE DEF p
<1>6. \A m \in 1 .. n + 1 : m = 1 \/ m \in 2 .. n + 1
  BY <1>1
<1>7. \A m \in 1 .. n + 1 : v[m] = t[p[m]]
  <2> SUFFICES ASSUME NEW m \in 2 .. n + 1 PROVE v[m] = t[p[m]]
    BY <1>1, <1>4, <1>6
  <2> QED
    BY <1>1, <1>2, <1>4
<1>8. \A l, m \in 1 .. n + 1 : l < m => p[l] < p[m]
  <2> SUFFICES ASSUME NEW l \in 1 .. n + 1, NEW m \in 1 .. n + 1, l < m PROVE p[l] < p[m]
    OBVIOUS
  <2>1. m \in 2 .. n + 1
    BY <1>1
  <2>2. CASE l = 1
    <3>1. p[m] \in From(K, i + 1)
      BY <1>4, <2>1
    <3> QED
      BY <1>3, <1>4, <2>2, <3>1 DEF From
  <2>3. CASE l \in 2 .. n + 1
    <3>1. l - 1 < m - 1 /\ l - 1 \in 1 .. n /\ m - 1 \in 1 .. n
      BY <1>1, <2>1, <2>3
    <3>2. pos[l - 1] < pos[m - 1]
      BY <1>2, <3>1
    <3> QED
      BY <1>4, <2>1, <2>3, <3>2
  <2> QED
    BY <1>6, <2>2, <2>3
<1>9. \A l \in From(K, i) : \E m \in 1 .. n + 1 : p[m] = l
  <2> SUFFICES ASSUME NEW l \in From(K, i) PROVE \E m \in 1 .. n + 1 : p[m] = l
    OBVIOUS
  <2>1. CASE l = i
    BY <1>4, <2>1
  <2>2. CASE l # i
    <3>1. l \in From(K, i + 1)
      BY <1>3, <2>2 DEF From
    <3>2. PICK m \in 1 .. n : pos[m] = l
      BY <1>2, <3>1
    <3>3. m + 1 \in 2 .. n + 1 /\ (m + 1) - 1 = m /\ m + 1 \in 1 .. n + 1
      BY <1>1, <3>2
    <3>4. p[m + 1] = l
      BY <1>4, <3>2, <3>3
    <3> QED
      BY <3>3, <3>4
  <2> QED
    BY <2>1, <2>2
<1>10. Picks(p, v, t, From(K, i))
  BY <1>1, <1>3, <1>5, <1>7, <1>8, <1>9 DEF Picks
<1> QED
  BY <1>1, <1>10 DEF v

\* What Without leaves is what stands outside of the blocks.
LEMMA WithoutPicks ==
    ASSUME NEW W, NEW t \in Seq(W), NEW ends, Ranged(t, ends), NEW B, Blocks(t, ends, B)
    PROVE  /\ Without(t, ends) \in Seq(W)
           /\ \E pos : Picks(pos, Without(t, ends), t, Left(t, ends, B))
<1> DEFINE n == Len(t)
           K == Left(t, ends, B)
           Free(i) == \A b \in B : i <= b \/ i > ends[b]
<1>1. n \in Nat /\ \A i \in 1 .. n : t[i] \in W
  OBVIOUS
<1>2. PICK f : Scan(f, t, ends, 1) /\ Without(t, ends) = f[1]
  BY <1>1, WithoutScan
<1> DEFINE Good(i) == f[i] \in Seq(W) /\ \E pos : Picks(pos, f[i], t, From(K, i))
           S == {d \in Nat : \A i \in 1 .. n + 1 : i >= n + 1 - d /\ Free(i) => Good(i)}
<1>3. /\ B \subseteq 1 .. n
      /\ \A b \in B : ends[b] \in b .. n /\ \A c \in B : c <= b \/ c > ends[b]
      /\ \A i \in K : i \in 1 .. n /\ ends[i] = 0
      /\ K \in SUBSET Nat
      /\ \A i \in K : \A b \in B : i < b \/ i > ends[b]
      /\ \A i \in 1 .. n : (\A b \in B : i < b \/ i > ends[b]) => i \in K
  BY <1>1 DEF Blocks, Left, Ranged
<1>4. /\ f[n + 1] = <<>>
      /\ \A i \in 1 .. n : ends[i] = 0 => f[i] = <<t[i]>> \o f[i + 1]
      /\ \A i \in 1 .. n : ends[i] # 0 => f[i] = f[ends[i] + 1]
  <2>1. \A i \in 1 .. n + 1 : f[i] = IF i > n THEN <<>>
                                     ELSE IF ends[i] = 0 THEN <<t[i]>> \o f[i + 1]
                                          ELSE f[ends[i] + 1]
    BY <1>2 DEF Scan
  <2>2. /\ n + 1 \in 1 .. n + 1 /\ n + 1 > n
        /\ \A i \in 1 .. n : i \in 1 .. n + 1 /\ ~(i > n)
    BY <1>1
  <2> HIDE DEF n
  <2> QED
    BY <2>1, <2>2
<1> HIDE DEF K, n
<1>5. Good(n + 1)
  <2>1. f[n + 1] = <<>>
    BY <1>4
  <2>2. From(K, n + 1) = {}
    <3>1. \A l \in K : ~(l >= n + 1)
      BY <1>1, <1>3
    <3> QED
      BY <3>1 DEF From
  <2>3. Picks(<<>>, <<>>, t, {})
    BY DEF Picks
  <2>4. f[n + 1] \in Seq(W)
    BY <2>1
  <2> QED
    BY <2>1, <2>2, <2>3, <2>4
<1>6. ASSUME NEW i \in 1 .. n, Free(i), i \in B
      PROVE  /\ ends[i] + 1 \in i + 1 .. n + 1 /\ Free(ends[i] + 1)
             /\ Good(ends[i] + 1) => Good(i)
  <2>1. ends[i] \in i .. n /\ ends[i] # 0 /\ i \in 1 .. n + 1
    BY <1>1, <1>3, <1>6
  <2>2. ASSUME NEW c \in B PROVE ends[i] + 1 <= c \/ ends[i] + 1 > ends[c]
    <3>1. c \in 1 .. n /\ ends[c] \in c .. n
      BY <1>3
    <3>2. c <= i \/ c > ends[i]
      BY <1>3, <1>6
    <3>3. i <= c \/ i > ends[c]
      BY <1>6
    <3> QED
      BY <2>1, <3>1, <3>2, <3>3
  <2>3. f[i] = f[ends[i] + 1]
    BY <1>4, <2>1
  <2>4. \A l \in K : l >= i <=> l >= ends[i] + 1
    BY <1>1, <1>3, <1>6, <2>1
  <2>5. From(K, i) = From(K, ends[i] + 1)
    BY <2>4 DEF From
  <2>6. ends[i] + 1 \in i + 1 .. n + 1
    BY <1>1, <2>1
  <2>7. Free(ends[i] + 1)
    BY <2>2
  <2>8. Good(ends[i] + 1) => Good(i)
    BY <2>3, <2>5
  <2> HIDE DEF Free, Good
  <2> QED
    BY <2>6, <2>7, <2>8
<1>7. ASSUME NEW i \in 1 .. n, Free(i), i \notin B
      PROVE  i + 1 \in i + 1 .. n + 1 /\ Free(i + 1) /\ (Good(i + 1) => Good(i))
  <2>1. \A b \in B : i < b \/ i > ends[b]
    BY <1>1, <1>3, <1>7
  <2>2. i \in K /\ ends[i] = 0 /\ t[i] \in W
    BY <1>1, <1>3, <2>1 DEF n
  <2>3. f[i] = <<t[i]>> \o f[i + 1]
    BY <1>4, <2>2
  <2>4. Free(i + 1)
    BY <1>1, <1>3, <2>1
  <2>5. ASSUME Good(i + 1) PROVE Good(i)
    BY <1>3, <2>2, <2>3, <2>5, PickFirst
  <2>6. i + 1 \in i + 1 .. n + 1
    BY <1>1
  <2> HIDE DEF Free, Good
  <2> QED
    BY <2>4, <2>5, <2>6
<1> HIDE DEF Free, Good
<1>8. ASSUME NEW i \in 1 .. n, Free(i)
      PROVE  \E j \in i + 1 .. n + 1 : Free(j) /\ (Good(j) => Good(i))
  BY <1>6, <1>7, <1>8
<1>9. 0 \in S
  BY <1>1, <1>5
<1>10. ASSUME NEW d \in S PROVE d + 1 \in S
  <2>1. d \in Nat /\ \A i \in 1 .. n + 1 : i >= n + 1 - d /\ Free(i) => Good(i)
    OBVIOUS
  <2> SUFFICES ASSUME NEW i \in 1 .. n + 1, i >= n + 1 - (d + 1), Free(i) PROVE Good(i)
    BY <2>1
  <2>2. CASE i = n + 1
    BY <1>5, <2>2
  <2>3. CASE i # n + 1
    <3>1. i \in 1 .. n
      BY <1>1, <2>3
    <3>2. PICK j \in i + 1 .. n + 1 : Free(j) /\ (Good(j) => Good(i))
      BY <1>8, <3>1
    <3>3. j \in 1 .. n + 1 /\ j >= n + 1 - d
      BY <1>1, <2>1
    <3> QED
      BY <2>1, <3>2, <3>3
  <2> QED
    BY <2>2, <2>3
<1>11. S = Nat
  <2>1. \A d \in S : d + 1 \in S
    BY <1>10
  <2>2. S \in SUBSET Nat
    OBVIOUS
  <2> HIDE DEF S
  <2> QED
    BY <1>9, <2>1, <2>2, Induction
<1>12. Good(1)
  <2>1. n \in S /\ 1 \in 1 .. n + 1 /\ 1 >= n + 1 - n
    <3>1. n \in S
      BY <1>1, <1>11
    <3> HIDE DEF S
    <3> QED
      BY <1>1, <3>1
  <2>2. Free(1)
    BY <1>3 DEF Free
  <2> QED
    BY <2>1, <2>2
<1>13. From(K, 1) = K
  <2>1. \A l \in K : l >= 1
    BY <1>3
  <2> QED
    BY <2>1 DEF From
<1> QED
  BY <1>2, <1>12, <1>13 DEF Good, K

-----------------------------------------------------------------------------
(***************************************************************************)
(* Marks that open and close blocks in turn.                               *)
(***************************************************************************)
Openings(S) == {b \in S : Before(S, b) % 2 = 0 /\ \E g \in S : g > b}

\* The marks are w + 1 words long; a block reaches from one to the end of the next.
Marks(t, ends, S, w) ==
    /\ S \subseteq 1 .. Len(t)
    /\ \A f, g \in S : f < g => f + w < g
    /\ \A i \in 1 .. Len(t) : ends[i] # 0 => i \in S /\ \E g \in S : g > i
    /\ \A b \in S : (\E g \in S : g > b) =>
          \E g \in S : g > b /\ ends[b] = g + w /\ \A j \in S : j <= b \/ j >= g

LEMMA Alternate ==
    ASSUME NEW t, Len(t) \in Nat, NEW ends, NEW S, NEW w \in Nat, Marks(t, ends, S, w)
    PROVE  /\ Blocks(t, ends, Openings(S))
           /\ Left(t, ends, Openings(S)) = {i \in 1 .. Len(t) : ~InBlock(S, w, i)}
<1> DEFINE n == Len(t)
           B == Openings(S)
<1>1. /\ n \in Nat /\ S \in SUBSET (1 .. n) /\ S \subseteq Nat
      /\ \A f, g \in S : f < g => f + w < g
      /\ \A i \in 1 .. n : ends[i] # 0 => i \in S /\ \E g \in S : g > i
  BY DEF Marks
<1>2. \A b \in S : (\E g \in S : g > b) =>
         \E g \in S : g > b /\ ends[b] = g + w /\ \A j \in S : j <= b \/ j >= g
  BY DEF Marks
<1>3. \A b \in S : b \in B <=> Before(S, b) % 2 = 0 /\ \E g \in S : g > b
  BY DEF Openings
<1>4. /\ B \subseteq S
      /\ Left(t, ends, B) = {i \in 1 .. n : \A b \in B : i < b \/ i > ends[b]}
  BY DEF Openings, Left
<1> HIDE DEF n, B
\* An opening, and the mark that closes it.
<1>5. ASSUME NEW b \in B
      PROVE  \E g \in S : /\ g > b /\ ends[b] = g + w /\ Before(S, g) % 2 = 1
                          /\ \A j \in S : j <= b \/ j >= g
  <2>1. b \in S /\ Before(S, b) % 2 = 0 /\ \E g \in S : g > b
    BY <1>3, <1>4
  <2>2. PICK g \in S : g > b /\ ends[b] = g + w /\ \A j \in S : j <= b \/ j >= g
    BY <1>2, <2>1
  <2>3. g \in Nat /\ b < g /\ \A j \in S : j < g => j <= b
    BY <1>1, <2>1, <2>2
  <2>4. Before(S, g) % 2 = 1
    BY <1>1, <2>1, <2>3, OddNext
  <2> QED
    BY <2>2, <2>4
\* With an odd number of marks before i, and one at or after it, i is in a block.
<1>6. ASSUME NEW i \in 1 .. n, Before(S, i) % 2 = 1, NEW h \in S, h >= i
      PROVE  \E b \in B : b < i /\ \E g \in S : g >= i /\ ends[b] = g + w
                                             /\ \A j \in S : j <= b \/ j >= g
  <2>1. i \in Nat
    BY <1>1
  <2>2. PICK b \in S : /\ b < i /\ Before(S, b) % 2 = 0
                       /\ \A j \in S : j >= i \/ j <= b
    BY <1>1, <1>6, <2>1, OddBefore
  <2>3. b \in Nat /\ h \in Nat /\ h > b
    BY <1>1, <1>6, <2>1, <2>2
  <2>4. b \in B
    BY <1>3, <2>2, <2>3
  <2>5. PICK g \in S : g > b /\ ends[b] = g + w /\ \A j \in S : j <= b \/ j >= g
    BY <1>5, <2>4
  <2>6. g >= i
    BY <1>1, <2>1, <2>2, <2>3, <2>5
  <2> QED
    BY <2>2, <2>4, <2>5, <2>6
\* So is a mark that another one follows.
<1>7. ASSUME NEW f \in S, \E g \in S : g > f
      PROVE  \E b \in B : b <= f /\ f <= ends[b]
  <2>1. f \in 1 .. n /\ f \in Nat /\ Before(S, f) \in Nat
    <3>1. f \in 1 .. n /\ f \in Nat
      BY <1>1
    <3> QED
      BY <1>1, <3>1, BeforeType
  <2>2. CASE Before(S, f) % 2 = 0
    <3>1. f \in B
      BY <1>3, <1>7, <2>2
    <3>2. PICK g \in S : g > f /\ ends[f] = g + w
      BY <1>5, <3>1
    <3>3. g \in Nat /\ f <= ends[f]
      BY <1>1, <2>1, <3>2
    <3> QED
      BY <2>1, <3>1, <3>3
  <2>3. CASE Before(S, f) % 2 = 1
    <3>1. f >= f
      BY <2>1
    <3>2. PICK b \in B : b < f /\ \E g \in S : g >= f /\ ends[b] = g + w
      BY <1>6, <2>1, <2>3, <3>1
    <3>3. PICK g \in S : g >= f /\ ends[b] = g + w
      BY <3>2
    <3>4. b \in Nat /\ g \in Nat
      BY <1>1, <1>4
    <3>5. b <= f /\ f <= ends[b]
      BY <2>1, <3>2, <3>3, <3>4
    <3> QED
      BY <3>5
  <2>4. Before(S, f) % 2 = 0 \/ Before(S, f) % 2 = 1
    BY <2>1
  <2> QED
    BY <2>2, <2>3, <2>4
<1>8. Blocks(t, ends, B)
  <2>1. B \subseteq 1 .. n
    BY <1>1, <1>4
  <2>2. ASSUME NEW b \in B PROVE ends[b] # 0 /\ \A c \in B : c <= b \/ c > ends[b]
    <3>1. PICK g \in S : /\ g > b /\ ends[b] = g + w /\ Before(S, g) % 2 = 1
                         /\ \A j \in S : j <= b \/ j >= g
      BY <1>5
    <3>2. b \in Nat /\ g \in Nat
      BY <1>1, <1>4
    <3>3. ends[b] # 0
      BY <3>1, <3>2
    <3>4. ASSUME NEW c \in B, ~(c <= b) PROVE c > ends[b]
      <4>1. c \in S /\ c >= g /\ Before(S, c) % 2 = 0 /\ c \in Nat
        BY <1>1, <1>3, <1>4, <3>1, <3>4
      <4>2. c # g
        BY <3>1, <4>1
      <4>3. g < c
        BY <3>2, <4>1, <4>2
      <4> QED
        BY <1>1, <3>1, <4>1, <4>3
    <3> QED
      BY <3>3, <3>4
  <2>3. ASSUME NEW i \in 1 .. n, ends[i] # 0 PROVE \E b \in B : ~(i < b) /\ ~(i > ends[b])
    <3>1. i \in S /\ \E g \in S : g > i
      BY <1>1, <2>3
    <3>3. PICK b \in B : b <= i /\ i <= ends[b]
      BY <1>7, <3>1
    <3>4. b \in Nat /\ ends[b] \in Nat /\ i \in Nat
      <4>1. PICK g \in S : ends[b] = g + w
        BY <1>5
      <4> QED
        BY <1>1, <1>4, <3>1, <4>1
    <3> QED
      BY <3>3, <3>4
  <2> QED
    BY <2>1, <2>2, <2>3 DEF Blocks, n
\* A block reaches from its opening to the end of the next mark.
<1>9. ASSUME NEW i \in 1 .. n, NEW b \in B, ~(i < b), ~(i > ends[b]) PROVE InBlock(S, w, i)
  <2>1. PICK g \in S : g > b /\ ends[b] = g + w /\ \A j \in S : j <= b \/ j >= g
    BY <1>5
  <2>2. b \in S /\ Before(S, b) % 2 = 0 /\ b \in Nat /\ g \in Nat /\ i \in Nat
    BY <1>1, <1>3, <1>4
  <2>3. b < g /\ i \in b .. g + w /\ \A j \in S : j <= b \/ g <= j
    BY <1>1, <1>9, <2>1, <2>2
  <2> QED
    BY <2>2, <2>3 DEF InBlock
<1>10. ASSUME NEW i \in 1 .. n, InBlock(S, w, i) PROVE \E b \in B : ~(i < b) /\ ~(i > ends[b])
  <2>1. PICK o \in S, c \in S : /\ Before(S, o) % 2 = 0 /\ o < c
                                /\ \A j \in S : j <= o \/ c <= j
                                /\ i \in o .. c + w
    BY <1>10 DEF InBlock
  <2>2. o \in Nat /\ c \in Nat /\ i \in Nat /\ c > o
    BY <1>1, <2>1
  <2>3. o \in B
    BY <1>3, <2>1, <2>2
  <2>4. PICK g \in S : g > o /\ ends[o] = g + w /\ \A j \in S : j <= o \/ j >= g
    BY <1>5, <2>3
  <2>5. g = c
    <3>1. g \in Nat /\ (g <= o \/ c <= g) /\ (c <= o \/ c >= g)
      BY <1>1, <2>1, <2>4
    <3> QED
      BY <2>2, <2>4, <3>1
  <2>6. ~(i < o) /\ ~(i > ends[o])
    BY <2>1, <2>2, <2>4, <2>5
  <2> QED
    BY <2>3, <2>6
<1>11. \A i \in 1 .. n : (\A b \in B : i < b \/ i > ends[b]) <=> ~InBlock(S, w, i)
  BY <1>9, <1>10
<1>12. Left(t, ends, B) = {i \in 1 .. n : ~InBlock(S, w, i)}
  BY <1>4, <1>11
<1> QED
  BY <1>8, <1>12 DEF n, B

-----------------------------------------------------------------------------
(***************************************************************************)
(* StripCodeBlocks of a readable prompt: fences, then single ticks.        *)
(***************************************************************************)
LEMMA FenceFacts ==
    ASSUME NEW W, NEW p \in Seq(W), Readable(p)
    PROVE  LET F == Fences(p) IN
           /\ F \in SUBSET (1 .. Len(p))
           /\ \A i \in 1 .. Len(p) : Fence(p, i) => i \in F
           /\ \A f \in F : Fence(p, f) /\ f + 2 \in 1 .. Len(p) /\ \A i \in f .. f + 2 : TickAt(p, i)
           /\ \A f \in F : ~TickAt(p, f - 1) /\ ~TickAt(p, f + 3)
           /\ \A f, g \in F : f < g => f + 3 < g
<1> DEFINE F == Fences(p)
           n == Len(p)
<1>1. DOMAIN p = 1 .. n /\ n \in Nat
  OBVIOUS
<1>2. F \in SUBSET (1 .. n) /\ \A f \in F : Fence(p, f) /\ ~TickAt(p, f - 1) /\ ~TickAt(p, f + 3)
  BY <1>1 DEF Fences
<1>3. \A i \in 1 .. n : Fence(p, i) => i + 2 \in 1 .. n /\ \A j \in i .. i + 2 : TickAt(p, j)
  <2> SUFFICES ASSUME NEW i \in 1 .. n, Fence(p, i)
               PROVE  i + 2 \in 1 .. n /\ \A j \in i .. i + 2 : TickAt(p, j)
    OBVIOUS
  <2>1. i + 2 \in 1 .. n /\ \A j \in i .. i + 2 : p[j] = Tick
    BY <1>1 DEF Fence
  <2>2. \A j \in i .. i + 2 : j \in 1 .. n
    BY <1>1, <2>1
  <2> QED
    BY <1>1, <2>1, <2>2 DEF TickAt
<1>4. ASSUME NEW i \in 1 .. n, Fence(p, i) PROVE i \in F
  <2>1. i \in i .. i + 2 /\ i + 1 \in i .. i + 2 /\ i + 2 \in i .. i + 2
    BY <1>1
  <2>2. TickAt(p, i) /\ TickAt(p, i + 1) /\ TickAt(p, i + 2)
    BY <1>3, <1>4, <2>1
  <2>3. PICK f \in F : i \in f .. f + 2
    BY <1>1, <2>2 DEF Readable, Alone
  <2>4. f \in Nat /\ i \in Nat
    BY <1>2
  <2>5. i = f \/ i + 2 = f + 3 \/ i + 1 = f + 3
    BY <2>3, <2>4
  <2>6. ~TickAt(p, f + 3)
    BY <1>2
  <2> QED
    BY <2>2, <2>5, <2>6
<1>5. ASSUME NEW f \in F, NEW g \in F, f < g PROVE f + 3 < g
  <2>1. f \in Nat /\ g \in Nat
    BY <1>2
  <2> SUFFICES ASSUME g <= f + 3 PROVE FALSE
    BY <2>1
  <2>2. f + 3 \in g .. g + 2
    BY <1>5, <2>1
  <2>3. TickAt(p, f + 3)
    BY <1>2, <1>3, <2>2
  <2> QED
    BY <1>2, <2>3
<1> HIDE DEF F, n
<1> QED
  BY <1>2, <1>3, <1>4, <1>5 DEF F, n

\* The first replacement: every other fence opens a block that the next one closes.
LEMMA FenceMarks ==
    ASSUME NEW W, NEW p \in Seq(W), Readable(p)
    PROVE  /\ Ranged(p, Fenced(p))
           /\ Marks(p, Fenced(p), Fences(p), 2)
<1> DEFINE F == Fences(p)
           n == Len(p)
           E(i) == {j \in i + 5 .. n : Fence(p, i) /\ Fence(p, j - 2)}
<1>1. DOMAIN p = 1 .. n /\ n \in Nat
  OBVIOUS
<1>2. /\ F \in SUBSET (1 .. n) /\ F \subseteq Nat
      /\ \A i \in 1 .. n : Fence(p, i) => i \in F
      /\ \A f \in F : Fence(p, f) /\ f + 2 \in 1 .. n
      /\ \A f, g \in F : f < g => f + 3 < g
  BY FenceFacts
<1>3. \A i \in 1 .. n : Fenced(p)[i] = LeastOf(E(i))
  BY <1>1 DEF Fenced
<1> HIDE DEF F, n
\* The ends of matches from i on are those of later fences.
<1>4. \A i \in 1 .. n : \A j \in E(i) : i \in F /\ j \in 1 .. n /\ j - 2 \in F /\ j - 2 > i
  <2> SUFFICES ASSUME NEW i \in 1 .. n, NEW j \in E(i)
               PROVE  i \in F /\ j \in 1 .. n /\ j - 2 \in F /\ j - 2 > i
    OBVIOUS
  <2>1. Fence(p, i) /\ Fence(p, j - 2) /\ j \in i + 5 .. n
    OBVIOUS
  <2>2. j \in 1 .. n /\ j - 2 \in 1 .. n /\ j - 2 > i
    BY <1>1, <2>1
  <2> QED
    BY <1>2, <2>1, <2>2
<1>5. \A i \in F : \A g \in F : g > i => g + 2 \in E(i)
  <2> SUFFICES ASSUME NEW i \in F, NEW g \in F, g > i PROVE g + 2 \in E(i)
    OBVIOUS
  <2>1. i \in Nat /\ g \in Nat /\ Fence(p, i) /\ Fence(p, g) /\ g + 2 \in 1 .. n
    BY <1>2
  <2>2. i + 3 < g /\ (g + 2) - 2 = g
    BY <1>2, <2>1
  <2>3. g + 2 \in i + 5 .. n
    BY <1>1, <2>1, <2>2
  <2> QED
    BY <2>1, <2>2, <2>3
<1>6. \A i \in 1 .. n : E(i) \in SUBSET Nat
  BY <1>1, <1>4
<1> HIDE DEF E
<1>7. Ranged(p, Fenced(p))
  <2> SUFFICES ASSUME NEW i \in 1 .. n PROVE Fenced(p)[i] \in {0} \cup i .. n
    BY DEF Ranged, n
  <2>1. Fenced(p)[i] \in E(i) \cup {0}
    BY <1>3, <1>6, LeastNumber
  <2>2. \A j \in E(i) : j \in i .. n
    BY <1>1, <1>4
  <2> QED
    BY <2>1, <2>2
<1>8. ASSUME NEW i \in 1 .. n, Fenced(p)[i] # 0 PROVE i \in F /\ \E g \in F : g > i
  <2>1. Fenced(p)[i] \in E(i)
    BY <1>3, <1>6, <1>8, LeastNumber
  <2> QED
    BY <1>4, <2>1
<1>9. ASSUME NEW b \in F, \E g \in F : g > b
      PROVE  \E g \in F : g > b /\ Fenced(p)[b] = g + 2 /\ \A j \in F : j <= b \/ j >= g
  <2>1. b \in 1 .. n /\ b \in Nat /\ E(b) \in SUBSET Nat
    BY <1>2, <1>6
  <2>2. E(b) # {}
    BY <1>5, <1>9
  <2>3. Fenced(p)[b] \in E(b) /\ \A y \in E(b) : Fenced(p)[b] <= y
    BY <1>3, <2>1, <2>2, LeastNumber
  <2> DEFINE g == Fenced(p)[b] - 2
  <2>4. g \in F /\ g > b /\ Fenced(p)[b] = g + 2
    BY <1>1, <1>4, <2>1, <2>3
  <2> HIDE DEF g
  <2>5. ASSUME NEW j \in F PROVE j <= b \/ j >= g
    <3>1. j \in Nat /\ g \in Nat
      BY <1>2, <2>4
    <3>2. j > b => g + 2 <= j + 2
      BY <1>5, <2>3, <2>4
    <3> QED
      BY <2>1, <3>1, <3>2
  <2> QED
    BY <2>4, <2>5
<1>10. \A f, g \in F : f < g => f + 2 < g
  BY <1>2
<1> QED
  BY <1>2, <1>7, <1>8, <1>9, <1>10 DEF Marks, F, n

\* What it leaves are the words outside of fenced blocks and the single ticks, each of
\* them followed by such a word.
LEMMA OutsideFences ==
    ASSUME NEW W, NEW p \in Seq(W), Readable(p)
    PROVE  LET K == {i \in 1 .. Len(p) : ~InBlock(Fences(p), 2, i)} IN
           /\ Left(p, Fenced(p), Openings(Fences(p))) = K
           /\ Singles(p) = {i \in K : p[i] = Tick}
           /\ \A i \in Singles(p) : i + 1 \in 1 .. Len(p) => i + 1 \in K /\ p[i + 1] # Tick
<1> DEFINE F == Fences(p)
           n == Len(p)
           In2(i) == InBlock(F, 2, i)
<1>1. DOMAIN p = 1 .. n /\ n \in Nat
  OBVIOUS
<1>2. F \in SUBSET (1 .. n) /\ \A f \in F : \A i \in f .. f + 2 : TickAt(p, i)
  BY FenceFacts
<1>3. Left(p, Fenced(p), Openings(F)) = {i \in 1 .. n : ~In2(i)}
  BY <1>1, FenceMarks, Alternate
<1>4. \A i : TickAt(p, i) <=> i \in 1 .. n /\ p[i] = Tick
  BY <1>1 DEF TickAt
<1>5. Singles(p) = {i \in 1 .. n : Alone(p, i) /\ ~In2(i)}
  BY <1>1 DEF Singles
<1>6. /\ \A f \in F : In2(f)
      /\ \A i \in 1 .. n : TickAt(p, i) => Alone(p, i) \/ \E f \in F : i \in f .. f + 2
  BY <1>1 DEF Readable
<1> HIDE DEF F, n
\* A fence that is in a block is one of its ends, or lies between them.
<1>7. ASSUME NEW f \in F, NEW i \in f .. f + 2 PROVE In2(i)
  <2>1. PICK o \in F, c \in F : /\ Before(F, o) % 2 = 0 /\ o < c
                                /\ \A j \in F : j <= o \/ c <= j
                                /\ f \in o .. c + 2
    BY <1>6 DEF InBlock
  <2>2. f \in Nat /\ o \in Nat /\ c \in Nat /\ i \in Nat
    BY <1>2
  <2>3. f = o \/ f = c
    <3>1. \A g, h \in F : g < h => g + 3 < h
      BY FenceFacts DEF F
    <3>2. f > c => c + 3 < f
      BY <3>1
    <3>3. f <= o \/ c <= f
      BY <2>1
    <3> QED
      BY <2>1, <2>2, <3>2, <3>3
  <2>4. o + 2 <= c
    <3>1. \A g, h \in F : g < h => g + 3 < h
      BY FenceFacts DEF F
    <3> QED
      BY <2>1, <2>2, <3>1
  <2>5. i \in o .. c + 2
    BY <2>2, <2>3, <2>4, <2>1
  <2> QED
    BY <2>1, <2>5 DEF InBlock
<1>8. \A i \in 1 .. n : i \in Singles(p) <=> ~In2(i) /\ p[i] = Tick
  <2> SUFFICES ASSUME NEW i \in 1 .. n PROVE i \in Singles(p) <=> ~In2(i) /\ p[i] = Tick
    OBVIOUS
  <2>1. i \in Singles(p) => ~In2(i) /\ p[i] = Tick
    BY <1>4, <1>5 DEF Alone
  <2>2. ASSUME ~In2(i), p[i] = Tick PROVE i \in Singles(p)
    BY <1>4, <1>5, <1>6, <1>7, <2>2
  <2> QED
    BY <2>1, <2>2
<1>9. Singles(p) = {i \in {j \in 1 .. n : ~In2(j)} : p[i] = Tick}
  BY <1>5, <1>8
<1>10. ASSUME NEW i \in Singles(p), i + 1 \in 1 .. n PROVE ~In2(i + 1) /\ p[i + 1] # Tick
  <2>1. i \in 1 .. n /\ i \in Nat /\ ~TickAt(p, i + 1) /\ ~In2(i)
    BY <1>1, <1>5 DEF Alone
  <2>2. p[i + 1] # Tick
    BY <1>4, <1>10, <2>1
  <2>3. ASSUME In2(i + 1) PROVE FALSE
    <3>1. PICK o \in F, c \in F : /\ Before(F, o) % 2 = 0 /\ o < c
                                  /\ \A j \in F : j <= o \/ c <= j
                                  /\ i + 1 \in o .. c + 2
      BY <2>3 DEF InBlock
    <3>2. o \in Nat /\ c \in Nat
      BY <1>2
    <3>3. i + 1 # o
      <4>1. o \in o .. o + 2
        BY <3>2
      <4> QED
        BY <1>2, <2>1, <4>1
    <3>4. i \in o .. c + 2
      BY <2>1, <3>1, <3>2, <3>3
    <3> QED
      BY <2>1, <3>1, <3>4 DEF InBlock
  <2> QED
    BY <2>2, <2>3
<1> QED
  BY <1>3, <1>9, <1>10 DEF F, n

\* The second replacement: every other tick opens a block that the next one closes.
Ticks(u) == {m \in 1 .. Len(u) : u[m] = Tick}

LEMMA TickMarks ==
    ASSUME NEW W, NEW u \in Seq(W), \A m \in Ticks(u) : m + 1 \notin Ticks(u)
    PROVE  /\ Ranged(u, Inline(u))
           /\ Marks(u, Inline(u), Ticks(u), 0)
<1> DEFINE T == Ticks(u)
           n == Len(u)
           E(i) == {j \in i + 2 .. n : /\ u[i] = Tick /\ u[j] = Tick
                                       /\ \A k \in i + 1 .. j - 1 : u[k] # Tick}
<1>1. DOMAIN u = 1 .. n /\ n \in Nat
  OBVIOUS
<1>2. /\ T \in SUBSET (1 .. n) /\ T \subseteq Nat
      /\ \A i \in 1 .. n : i \in T <=> u[i] = Tick
  BY <1>1 DEF Ticks
<1>3. \A i \in 1 .. n : Inline(u)[i] = LeastOf(E(i))
  BY <1>1 DEF Inline
<1> HIDE DEF T, n
<1>4. \A i \in 1 .. n : \A j \in E(i) : i \in T /\ j \in T /\ j > i
                                        /\ \A k \in T : k <= i \/ k >= j
  <2> SUFFICES ASSUME NEW i \in 1 .. n, NEW j \in E(i)
               PROVE  i \in T /\ j \in T /\ j > i /\ \A k \in T : k <= i \/ k >= j
    OBVIOUS
  <2>1. j \in i + 2 .. n /\ u[i] = Tick /\ u[j] = Tick
    OBVIOUS
  <2>2. \A k \in i + 1 .. j - 1 : u[k] # Tick
    OBVIOUS
  <2> HIDE DEF E
  <2>3. i \in Nat /\ j \in 1 .. n /\ j > i
    BY <1>1, <2>1
  <2>4. i \in T /\ j \in T
    BY <1>2, <2>1, <2>3
  <2>5. ASSUME NEW k \in T PROVE k <= i \/ k >= j
    <3>1. k \in 1 .. n /\ u[k] = Tick /\ k \in Nat /\ j \in Nat
      BY <1>2, <2>4
    <3>2. k \notin i + 1 .. j - 1
      BY <2>2, <3>1
    <3> QED
      BY <2>3, <3>1, <3>2
  <2> QED
    BY <2>3, <2>4, <2>5
<1>5. \A i \in T : \A g \in T : g > i /\ (\A k \in T : k <= i \/ k >= g) => g \in E(i)
  <2> SUFFICES ASSUME NEW i \in T, NEW g \in T, g > i, \A k \in T : k <= i \/ k >= g
               PROVE  g \in E(i)
    OBVIOUS
  <2>1. i \in 1 .. n /\ g \in 1 .. n /\ u[i] = Tick /\ u[g] = Tick /\ i \in Nat /\ g \in Nat
    BY <1>2
  <2>2. g # i + 1
    BY DEF T
  <2>3. g \in i + 2 .. n
    BY <1>1, <2>1, <2>2
  <2>4. ASSUME NEW k \in i + 1 .. g - 1 PROVE u[k] # Tick
    <3>1. k \in 1 .. n /\ ~(k <= i) /\ ~(k >= g)
      BY <1>1, <2>1
    <3> QED
      BY <1>2, <3>1
  <2> QED
    BY <2>1, <2>3, <2>4
<1>6. \A i \in 1 .. n : E(i) \in SUBSET Nat
  BY <1>2, <1>4
<1> HIDE DEF E
<1>7. Ranged(u, Inline(u))
  <2> SUFFICES ASSUME NEW i \in 1 .. n PROVE Inline(u)[i] \in {0} \cup i .. n
    BY DEF Ranged, n
  <2>1. Inline(u)[i] \in E(i) \cup {0}
    BY <1>3, <1>6, LeastNumber
  <2>2. \A j \in E(i) : j \in i .. n
    <3> SUFFICES ASSUME NEW j \in E(i) PROVE j \in i .. n
      OBVIOUS
    <3>1. j \in 1 .. n /\ j > i
      BY <1>2, <1>4
    <3> QED
      BY <1>1, <3>1
  <2> QED
    BY <2>1, <2>2
<1>8. ASSUME NEW i \in 1 .. n, Inline(u)[i] # 0 PROVE i \in T /\ \E g \in T : g > i
  <2>1. Inline(u)[i] \in E(i)
    BY <1>3, <1>6, <1>8, LeastNumber
  <2> QED
    BY <1>4, <2>1
<1>9. ASSUME NEW b \in T, \E g \in T : g > b
      PROVE  \E g \in T : g > b /\ Inline(u)[b] = g + 0 /\ \A j \in T : j <= b \/ j >= g
  <2>1. b \in 1 .. n /\ b \in Nat /\ b + 1 \in Nat /\ E(b) \in SUBSET Nat
    BY <1>2, <1>6
  <2>2. T \in SUBSET Nat /\ \E i \in T : i >= b + 1
    BY <1>2, <1>9, <2>1
  <2>3. PICK h \in T : h >= b + 1 /\ \A j \in T : j < b + 1 \/ j >= h
    BY <2>1, <2>2, NextOne
  <2>4. h > b /\ \A k \in T : k <= b \/ k >= h
    <3>1. h \in Nat /\ \A k \in T : k \in Nat
      BY <1>2
    <3> QED
      BY <2>1, <2>3, <3>1
  <2>5. h \in E(b)
    BY <1>5, <2>4
  <2> DEFINE g == Inline(u)[b]
  <2>6. g \in E(b)
    BY <1>3, <2>1, <2>5, LeastNumber
  <2>7. g \in T /\ g > b /\ \A k \in T : k <= b \/ k >= g
    BY <1>4, <2>1, <2>6
  <2>8. g = g + 0
    <3>1. g \in Nat
      BY <1>2, <2>7
    <3> HIDE DEF g
    <3> QED
      BY <3>1
  <2> QED
    BY <2>7, <2>8
<1>10. \A f, g \in T : f < g => f + 0 < g
  BY <1>2
<1> QED
  BY <1>2, <1>7, <1>8, <1>9, <1>10 DEF Marks, T, n

Origin(pos, u, S) == {l \in 1 .. Len(u) : pos[l] \in S}

\* Elements that are picked come after as many as they did.
LEMMA Rank ==
    ASSUME NEW p, NEW u, Len(u) \in Nat, NEW K \in SUBSET Nat, NEW pos, Picks(pos, u, p, K),
           NEW S \in SUBSET K, NEW m \in 1 .. Len(u)
    PROVE  Before(S, pos[m]) = Before(Origin(pos, u, S), m)
<1> DEFINE n == Len(u)
           T == Origin(pos, u, S)
           A == {l \in T : l < m}
           C == {j \in S : j < pos[m]}
           g == [l \in A |-> pos[l]]
<1>1. /\ n \in Nat /\ pos \in [1 .. n -> K]
      /\ \A k, l \in 1 .. n : k < l => pos[k] < pos[l]
      /\ \A i \in K : \E k \in 1 .. n : pos[k] = i
  BY DEF Picks
<1>2. \A k \in 1 .. n : pos[k] \in Nat
  BY <1>1
<1>3. \A k, l \in 1 .. n : pos[k] < pos[l] => k < l
  <2> SUFFICES ASSUME NEW k \in 1 .. n, NEW l \in 1 .. n, pos[k] < pos[l] PROVE k < l
    OBVIOUS
  <2>1. pos[k] \in Nat /\ pos[l] \in Nat
    BY <1>2
  <2>2. k # l /\ ~(l < k)
    BY <1>1, <2>1
  <2> QED
    BY <1>1, <2>2
<1>4. \A l \in A : l \in 1 .. n /\ pos[l] \in C
  BY <1>1 DEF Origin
<1>5. \A j \in C : \E l \in A : pos[l] = j
  <2> SUFFICES ASSUME NEW j \in C PROVE \E l \in A : pos[l] = j
    OBVIOUS
  <2>1. j \in K /\ j \in S /\ j < pos[m]
    OBVIOUS
  <2>2. PICK l \in 1 .. n : pos[l] = j
    BY <1>1, <2>1
  <2>3. l < m
    BY <1>3, <2>1, <2>2
  <2> QED
    BY <2>1, <2>2, <2>3 DEF Origin
<1>6. IsFiniteSet(A)
  <2>1. IsFiniteSet(1 .. n)
    BY <1>1, FS_Interval
  <2>2. A \subseteq 1 .. n
    BY DEF Origin
  <2> QED
    BY <2>1, <2>2, FS_Subset
<1> HIDE DEF A, C
<1>7. \A k, l \in A : pos[k] = pos[l] => k = l
  <2> SUFFICES ASSUME NEW k \in A, NEW l \in A, pos[k] = pos[l] PROVE k = l
    OBVIOUS
  <2>1. k \in 1 .. n /\ l \in 1 .. n /\ pos[k] \in Nat
    BY <1>2, <1>4
  <2>2. ~(k < l) /\ ~(l < k)
    BY <1>1, <2>1
  <2> QED
    BY <2>1, <2>2
<1>8. g \in [A -> C] /\ \A l \in A : g[l] = pos[l]
  BY <1>4
<1> HIDE DEF g
<1>9. g \in Bijection(A, C)
  <2>1. g \in Injection(A, C)
    <3>1. IsInjective(g)
      BY <1>7, <1>8 DEF IsInjective
    <3> QED
      BY <1>8, <3>1 DEF Injection
  <2>2. g \in Surjection(A, C)
    BY <1>5, <1>8 DEF Surjection
  <2> QED
    BY <2>1, <2>2 DEF Bijection
<1>10. Cardinality(C) = Cardinality(A)
  <2>1. ExistsBijection(A, C)
    BY <1>9 DEF ExistsBijection
  <2> QED
    BY <1>6, <2>1, FS_Bijection
<1> QED
  BY <1>10 DEF Before, A, C, n

Image(f, J) == {f[m] : m \in J}

LEMMA PickTwice ==
    ASSUME NEW p, NEW u, NEW v, Len(u) \in Nat, Len(v) \in Nat,
           NEW K \in SUBSET Nat, NEW J \in SUBSET (1 .. Len(u)),
           NEW f, Picks(f, u, p, K), NEW g, Picks(g, v, u, J)
    PROVE  \E h : Picks(h, v, p, Image(f, J))
<1> DEFINE h == [m \in 1 .. Len(v) |-> f[g[m]]]
           I == {f[m] : m \in J}
<1>1. /\ f \in [1 .. Len(u) -> K]
      /\ \A m \in 1 .. Len(u) : u[m] = p[f[m]]
      /\ \A l, m \in 1 .. Len(u) : l < m => f[l] < f[m]
  BY DEF Picks
<1>2. /\ g \in [1 .. Len(v) -> J]
      /\ \A m \in 1 .. Len(v) : v[m] = u[g[m]]
      /\ \A l, m \in 1 .. Len(v) : l < m => g[l] < g[m]
      /\ \A i \in J : \E m \in 1 .. Len(v) : g[m] = i
  BY DEF Picks
<1>3. \A m \in 1 .. Len(v) : g[m] \in J /\ g[m] \in 1 .. Len(u) /\ h[m] = f[g[m]]
  BY <1>2
<1>4. h \in [1 .. Len(v) -> I]
  <2>1. \A m \in 1 .. Len(v) : f[g[m]] \in I
    BY <1>3
  <2> HIDE DEF I
  <2> QED
    BY <2>1
<1> HIDE DEF h
<1>5. \A m \in 1 .. Len(v) : v[m] = p[h[m]]
  BY <1>1, <1>2, <1>3
<1>6. \A l, m \in 1 .. Len(v) : l < m => h[l] < h[m]
  BY <1>1, <1>2, <1>3
<1>7. \A i \in I : \E m \in 1 .. Len(v) : h[m] = i
  <2> SUFFICES ASSUME NEW j \in J PROVE \E m \in 1 .. Len(v) : h[m] = f[j]
    OBVIOUS
  <2>1. PICK m \in 1 .. Len(v) : g[m] = j
    BY <1>2
  <2> QED
    BY <1>3, <2>1
<1>8. I \subseteq Nat
  <2> SUFFICES ASSUME NEW j \in J PROVE f[j] \in Nat
    OBVIOUS
  <2>1. f[j] \in K
    BY <1>1
  <2> QED
    BY <2>1
<1> HIDE DEF I
<1>9. Picks(h, v, p, I)
  BY <1>4, <1>5, <1>6, <1>7, <1>8 DEF Picks
<1> QED
  BY <1>9 DEF I, Image

\* What picks all of V lists it in its order.
Listing(p, V) == [m \in 1 .. Cardinality(V) |-> p[CHOOSE i \in V : Before(V, i) + 1 = m]]

LEMMA Enumerated ==
    ASSUME NEW W, NEW p, NEW u \in Seq(W), NEW V \in SUBSET Nat, NEW pos, Picks(pos, u, p, V)
    PROVE  u = Listing(p, V)
<1> DEFINE n == Len(u)
<1>1. /\ n \in Nat /\ pos \in [1 .. n -> V]
      /\ \A m \in 1 .. n : u[m] = p[pos[m]]
      /\ \A l, m \in 1 .. n : l < m => pos[l] < pos[m]
      /\ \A i \in V : \E m \in 1 .. n : pos[m] = i
  BY DEF Picks
<1>2. u = [m \in 1 .. n |-> u[m]]
  OBVIOUS
<1>3. \A m \in 1 .. n : Before(1 .. n, m) = m - 1
  <2> SUFFICES ASSUME NEW m \in 1 .. n PROVE Before(1 .. n, m) = m - 1
    OBVIOUS
  <2>1. {j \in 1 .. n : j < m} = 1 .. m - 1
    BY <1>1
  <2>2. 1 \in Int /\ m - 1 \in Int /\ m - 1 - 1 + 1 = m - 1 /\ m - 1 >= 0
    BY <1>1
  <2>3. Cardinality(1 .. m - 1) = m - 1
    BY <2>2, FS_Interval
  <2> QED
    BY <2>1, <2>3 DEF Before
<1>4. \A m \in 1 .. n : Before(V, pos[m]) = m - 1
  <2> SUFFICES ASSUME NEW m \in 1 .. n PROVE Before(V, pos[m]) = m - 1
    OBVIOUS
  <2>1. Origin(pos, u, V) = 1 .. n
    BY <1>1 DEF Origin
  <2>2. Before(V, pos[m]) = Before(Origin(pos, u, V), m)
    BY <1>1, Rank
  <2> QED
    BY <1>3, <2>1, <2>2
<1>5. Cardinality(V) = n
  <2>1. \A l, m \in 1 .. n : pos[l] = pos[m] => l = m
    <3> SUFFICES ASSUME NEW l \in 1 .. n, NEW m \in 1 .. n, pos[l] = pos[m] PROVE l = m
      OBVIOUS
    <3>1. l - 1 = m - 1
      BY <1>4
    <3> QED
      BY <3>1
  <2>2. pos \in Bijection(1 .. n, V)
    <3>1. pos \in Injection(1 .. n, V)
      <4>1. IsInjective(pos)
        BY <1>1, <2>1 DEF IsInjective
      <4> QED
        BY <1>1, <4>1 DEF Injection
    <3>2. pos \in Surjection(1 .. n, V)
      BY <1>1 DEF Surjection
    <3> QED
      BY <3>1, <3>2 DEF Bijection
  <2>3. IsFiniteSet(1 .. n) /\ Cardinality(1 .. n) = n
    <3>1. 1 \in Int /\ n \in Int /\ n - 1 + 1 = n /\ n >= 0
      BY <1>1
    <3> HIDE DEF n
    <3> QED
      BY <3>1, FS_Interval
  <2>4. ExistsBijection(1 .. n, V)
    BY <2>2 DEF ExistsBijection
  <2> QED
    BY <2>3, <2>4, FS_Bijection
<1> HIDE DEF n
<1>6. ASSUME NEW m \in 1 .. n PROVE u[m] = p[CHOOSE i \in V : Before(V, i) + 1 = m]
  <2>1. pos[m] \in V /\ Before(V, pos[m]) + 1 = m
    BY <1>1, <1>4
  <2>2. ASSUME NEW i \in V, Before(V, i) + 1 = m PROVE i = pos[m]
    <3>1. PICK l \in 1 .. n : pos[l] = i
      BY <1>1
    <3>2. Before(V, i) = l - 1
      BY <1>4, <3>1
    <3>3. l = m
      BY <2>2, <3>2, <1>1
    <3> QED
      BY <3>1, <3>3
  <2>3. (CHOOSE i \in V : Before(V, i) + 1 = m) = pos[m]
    BY <2>1, <2>2
  <2> QED
    BY <1>1, <2>3
<1> QED
  BY <1>2, <1>5, <1>6 DEF Listing

\* What remains of a readable prompt is what stands outside of code, in its order.
LEMMA Stripped ==
    ASSUME NEW W, NEW p \in Seq(W), Readable(p)
    PROVE  StripCodeBlocks(p) \in Seq(W) /\ StripCodeBlocks(p) = Seen(p)
<1> DEFINE n == Len(p)
           S == Singles(p)
           J == {i \in 1 .. Len(p) : ~InBlock(Fences(p), 2, i)}
           u == Without(p, Fenced(p))
           T == Ticks(u)
           L == {m \in 1 .. Len(u) : ~InBlock(T, 0, m)}
           v == Without(u, Inline(u))
           V == {i \in 1 .. Len(p) : ~Code(p, i)}
<1>1. /\ n \in Nat /\ J \in SUBSET (1 .. n) /\ J \in SUBSET Nat
      /\ Left(p, Fenced(p), Openings(Fences(p))) = J
      /\ S = {i \in J : p[i] = Tick}
      /\ \A i \in S : i + 1 \in 1 .. n => i + 1 \in J /\ p[i + 1] # Tick
  BY OutsideFences
<1>2. u \in Seq(W) /\ \E pos : Picks(pos, u, p, J)
  <2>1. Blocks(p, Fenced(p), Openings(Fences(p))) /\ Ranged(p, Fenced(p))
    BY FenceMarks, Alternate
  <2> QED
    BY <1>1, <2>1, WithoutPicks
<1>3. PICK f : Picks(f, u, p, J)
  BY <1>2
<1>4. StripCodeBlocks(p) = v
  BY DEF StripCodeBlocks
<1>5. /\ V = {i \in J : ~InBlock(S, 0, i)}
      /\ V \in SUBSET Nat
  BY DEF Code
<1>6. Seen(p) = Listing(p, V)
  <2>1. DOMAIN p = 1 .. Len(p)
    OBVIOUS
  <2> QED
    BY <2>1 DEF Seen, Listing
<1> HIDE DEF n, S, J, u, L, v, V
<1>7. /\ Len(u) \in Nat /\ f \in [1 .. Len(u) -> J]
      /\ \A m \in 1 .. Len(u) : u[m] = p[f[m]]
      /\ \A l, m \in 1 .. Len(u) : l < m => f[l] < f[m]
      /\ \A i \in J : \E m \in 1 .. Len(u) : f[m] = i
  BY <1>2, <1>3 DEF Picks
<1>8. \A m \in 1 .. Len(u) : f[m] \in J /\ f[m] \in 1 .. n /\ f[m] \in Nat
  BY <1>1, <1>7
<1>9. T = {m \in 1 .. Len(u) : f[m] \in S}
  <2>1. \A m \in 1 .. Len(u) : u[m] = Tick <=> f[m] \in S
    BY <1>1, <1>7, <1>8
  <2> QED
    BY <2>1 DEF Ticks
<1> HIDE DEF T
<1>10. \A m \in 1 .. Len(u) : Before(S, f[m]) = Before(T, m)
  <2>1. S \in SUBSET J /\ J \in SUBSET Nat /\ Len(u) \in Nat
    BY <1>1, <1>7
  <2>2. T = Origin(f, u, S)
    BY <1>9 DEF Origin
  <2>3. \A m \in 1 .. Len(u) : Before(S, f[m]) = Before(Origin(f, u, S), m)
    BY <1>3, <2>1, Rank
  <2> QED
    BY <2>2, <2>3
\* f keeps the order.
<1>11. \A l, m \in 1 .. Len(u) : /\ l < m <=> f[l] < f[m]
                                /\ l <= m <=> f[l] <= f[m]
  <2> SUFFICES ASSUME NEW l \in 1 .. Len(u), NEW m \in 1 .. Len(u)
               PROVE  (l < m <=> f[l] < f[m]) /\ (l <= m <=> f[l] <= f[m])
    OBVIOUS
  <2>1. f[l] \in Nat /\ f[m] \in Nat /\ l \in Nat /\ m \in Nat
    BY <1>8
  <2>2. (l < m => f[l] < f[m]) /\ (m < l => f[m] < f[l]) /\ (l = m => f[l] = f[m])
    BY <1>7
  <2> QED
    BY <2>1, <2>2
\* Behind a single tick stands a word that is left.
<1>12. ASSUME NEW m \in T PROVE m + 1 \notin T
  <2> SUFFICES ASSUME m + 1 \in T PROVE FALSE
    OBVIOUS
  <2>1. m \in 1 .. Len(u) /\ m + 1 \in 1 .. Len(u) /\ f[m] \in S /\ f[m + 1] \in S
    BY <1>9
  <2>2. f[m] < f[m + 1] /\ f[m] \in Nat /\ f[m + 1] \in Nat /\ f[m + 1] \in 1 .. n
    BY <1>7, <1>8, <2>1
  <2>3. f[m] + 1 \in 1 .. n
    BY <1>1, <2>2
  <2>4. f[m] + 1 \in J /\ f[m] + 1 \notin S
    BY <1>1, <2>1, <2>3
  <2>5. PICK l \in 1 .. Len(u) : f[l] = f[m] + 1
    BY <1>7, <2>4
  <2>6. f[l] # f[m + 1] /\ f[l] > f[m] /\ f[l] < f[m + 1]
    BY <2>1, <2>2, <2>4, <2>5
  <2>7. m < l /\ l < m + 1
    BY <1>11, <2>1, <2>2, <2>5, <2>6
  <2> QED
    BY <2>1, <2>7
<1>13. Ranged(u, Inline(u)) /\ Marks(u, Inline(u), T, 0)
  BY <1>2, <1>12, TickMarks DEF T
<1>14. Blocks(u, Inline(u), Openings(T)) /\ Left(u, Inline(u), Openings(T)) = L
  BY <1>7, <1>13, Alternate DEF L
<1>15. v \in Seq(W) /\ \E g : Picks(g, v, u, L)
  BY <1>2, <1>13, <1>14, WithoutPicks DEF v
<1>16. L \in SUBSET (1 .. Len(u)) /\ Len(v) \in Nat
  BY <1>15 DEF L
\* Blocks of single ticks are the same before and after the fences are removed.
<1>17. ASSUME NEW m \in 1 .. Len(u), InBlock(T, 0, m) PROVE InBlock(S, 0, f[m])
  <2>1. PICK o \in T, c \in T : /\ Before(T, o) % 2 = 0 /\ o < c
                                /\ \A j \in T : j <= o \/ c <= j
                                /\ m \in o .. c + 0
    BY <1>17 DEF InBlock
  <2>2. o \in 1 .. Len(u) /\ c \in 1 .. Len(u) /\ f[o] \in S /\ f[c] \in S
    BY <1>9
  <2>3. f[o] < f[c] /\ Before(S, f[o]) % 2 = 0
    BY <1>7, <1>10, <2>1, <2>2
  <2>4. ASSUME NEW j \in S PROVE j <= f[o] \/ f[c] <= j
    <3>1. PICK l \in 1 .. Len(u) : f[l] = j
      BY <1>1, <1>7
    <3>2. l <= o \/ c <= l
      BY <1>9, <2>1, <3>1
    <3> QED
      BY <1>8, <1>11, <2>2, <3>1, <3>2
  <2>5. o <= m /\ m <= c
    BY <2>1, <2>2
  <2>6. f[o] <= f[m] /\ f[m] <= f[c]
    BY <1>8, <1>11, <2>2, <2>5
  <2>7. f[m] \in f[o] .. f[c] + 0
    BY <1>8, <2>2, <2>6
  <2> QED
    BY <2>2, <2>3, <2>4, <2>7 DEF InBlock
<1>18. ASSUME NEW m \in 1 .. Len(u), InBlock(S, 0, f[m]) PROVE InBlock(T, 0, m)
  <2>1. PICK x \in S, y \in S : /\ Before(S, x) % 2 = 0 /\ x < y
                                /\ \A j \in S : j <= x \/ y <= j
                                /\ f[m] \in x .. y + 0
    BY <1>18 DEF InBlock
  <2>2. PICK o \in 1 .. Len(u) : f[o] = x
    BY <1>1, <1>7
  <2>3. PICK c \in 1 .. Len(u) : f[c] = y
    BY <1>1, <1>7
  <2>4. o \in T /\ c \in T /\ o < c /\ Before(T, o) % 2 = 0
    <3>1. f[o] < f[c] /\ f[o] \in S /\ f[c] \in S /\ Before(S, f[o]) % 2 = 0
      BY <2>1, <2>2, <2>3
    <3>2. o < c
      <4>1. ~(c < o) /\ c # o
        BY <1>7, <1>8, <2>2, <2>3, <3>1
      <4> QED
        BY <2>2, <2>3, <4>1
    <3> QED
      BY <1>9, <1>10, <2>2, <2>3, <3>1, <3>2
  <2>5. ASSUME NEW j \in T PROVE j <= o \/ c <= j
    <3>1. j \in 1 .. Len(u) /\ f[j] \in S
      BY <1>9
    <3>2. f[j] <= f[o] \/ f[c] <= f[j]
      BY <2>1, <2>2, <2>3, <3>1
    <3> QED
      BY <1>11, <2>2, <2>3, <3>1, <3>2
  <2>6. f[o] <= f[m] /\ f[m] <= f[c]
    BY <1>8, <2>1, <2>2, <2>3
  <2>7. o <= m /\ m <= c
    BY <1>11, <2>2, <2>3, <2>6
  <2>8. m \in o .. c + 0
    BY <2>2, <2>3, <2>7
  <2> QED
    BY <2>4, <2>5, <2>8 DEF InBlock
<1>19. Image(f, L) = V
  <2>1. ASSUME NEW m \in L PROVE f[m] \in V
    BY <1>5, <1>8, <1>18 DEF L
  <2>2. ASSUME NEW i \in V PROVE \E m \in L : f[m] = i
    <3>1. i \in J /\ ~InBlock(S, 0, i)
      BY <1>5
    <3>2. PICK m \in 1 .. Len(u) : f[m] = i
      BY <1>7, <3>1
    <3>3. m \in L
      BY <1>17, <3>1, <3>2 DEF L
    <3> QED
      BY <3>2, <3>3
  <2> QED
    BY <2>1, <2>2 DEF Image
<1>20. \E h : Picks(h, v, p, V)
  <2>1. PICK g : Picks(g, v, u, L)
    BY <1>15
  <2> QED
    BY <1>1, <1>3, <1>7, <1>16, <1>19, <2>1, PickTwice
<1>21. v = Listing(p, V)
  <2>1. PICK h : Picks(h, v, p, V)
    BY <1>20
  <2>2. v \in Seq(W) /\ V \in SUBSET Nat
    BY <1>5, <1>15
  <2> QED
    BY <2>1, <2>2, Enumerated
<1> QED
  BY <1>4, <1>6, <1>15, <1>21

-----------------------------------------------------------------------------
(***************************************************************************)
(* The window around a match: what stands in it stands in the text, and    *)
(* its ends are bounds of words.                                           *)
(***************************************************************************)
\* The window around a position of a text.
LEMMA WindowFacts ==
    ASSUME NEW W, NEW t \in Seq(W), NEW i \in 1 .. Len(t)
    PROVE  \E a, b \in 1 .. Len(t) :
              /\ a <= i /\ i <= b
              /\ \A m \in 1 .. Len(t) : i - Window <= m /\ m <= i + Window - 1 => a <= m /\ m <= b
              /\ DOMAIN Around(t, i) = 1 .. b - a + 1 /\ Len(Around(t, i)) = b - a + 1
              /\ \A j \in 1 .. b - a + 1 : Around(t, i)[j] = t[a + j - 1]
<1> DEFINE a == IF i > Window THEN i - Window ELSE 1
           b == IF i + Window <= Len(t) THEN i + Window - 1 ELSE Len(t)
<1>1. Window \in Nat \ {0}
  BY PromptAssumption
<1>2. Len(t) \in Nat /\ i \in Nat
  OBVIOUS
<1>3. a \in 1 .. Len(t) /\ b \in 1 .. Len(t) /\ a <= i /\ i <= b
  BY <1>1, <1>2
<1>4. \A m \in 1 .. Len(t) : i - Window <= m /\ m <= i + Window - 1 => a <= m /\ m <= b
  BY <1>1, <1>2
<1>5. Around(t, i) = SubSeq(t, a, b)
  BY DEF Around
<1> HIDE DEF a, b
<1>6. SubSeq(t, a, b) = [j \in 1 .. (1 + b - a) |-> t[j + a - 1]]
  BY <1>3
<1>7. 1 + b - a = b - a + 1 /\ b - a + 1 \in Nat
  BY <1>2, <1>3
<1>8. DOMAIN Around(t, i) = 1 .. b - a + 1 /\ Len(Around(t, i)) = b - a + 1
  BY <1>5, <1>6, <1>7
<1>9. ASSUME NEW j \in 1 .. b - a + 1 PROVE Around(t, i)[j] = t[a + j - 1]
  <2>1. j + a - 1 = a + j - 1
    BY <1>3, <1>7
  <2> QED
    BY <1>5, <1>6, <1>7, <2>1
<1> QED
  BY <1>3, <1>4, <1>8, <1>9

LEMMA InWindow ==
    ASSUME NEW W, NEW t \in Seq(W), NEW i \in 1 .. Len(t),
           NEW f, Len(f) \in Nat \ {0}, DOMAIN f = 1 .. Len(f),
           NEW x \in 1 .. Len(t), i - Window <= x, x + Len(f) - 1 <= i + Window - 1,
           NEW loose \in BOOLEAN, Literal(t, f, x, loose)
    PROVE  \E j \in DOMAIN Around(t, i) : Literal(Around(t, i), f, j, loose)
<1> DEFINE v == Around(t, i)
           y == x + Len(f) - 1
<1>1. /\ Window \in Nat /\ Len(t) \in Nat /\ DOMAIN t = 1 .. Len(t)
      /\ y \in 1 .. Len(t) /\ \A h \in 1 .. Len(f) : t[x + h - 1] = f[h]
      /\ loose \/ Bounded(t, x, y)
  BY PromptAssumption DEF Literal
<1>0. \E a, b \in 1 .. Len(t) :
         /\ a <= i /\ i <= b
         /\ \A m \in 1 .. Len(t) : i - Window <= m /\ m <= i + Window - 1 => a <= m /\ m <= b
         /\ DOMAIN v = 1 .. b - a + 1 /\ Len(v) = b - a + 1
         /\ \A j \in 1 .. b - a + 1 : v[j] = t[a + j - 1]
  BY WindowFacts
<1>2. PICK a \in 1 .. Len(t), b \in 1 .. Len(t) :
         /\ \A m \in 1 .. Len(t) : i - Window <= m /\ m <= i + Window - 1 => a <= m /\ m <= b
         /\ DOMAIN v = 1 .. b - a + 1 /\ Len(v) = b - a + 1
         /\ \A j \in 1 .. b - a + 1 : v[j] = t[a + j - 1]
  BY <1>0
<1>3. a <= x /\ y <= b
  BY <1>1, <1>2
<1> DEFINE j == x - a + 1
<1>4. /\ j \in 1 .. b - a + 1 /\ j + Len(f) - 1 <= b - a + 1
      /\ j + Len(f) - 1 = y - a + 1
  BY <1>1, <1>3
<1>5. \A h \in 1 .. Len(f) : v[j + h - 1] = f[h]
  <2> SUFFICES ASSUME NEW h \in 1 .. Len(f) PROVE v[j + h - 1] = f[h]
    OBVIOUS
  <2>1. j + h - 1 \in 1 .. b - a + 1 /\ a + (j + h - 1) - 1 = x + h - 1
    BY <1>1, <1>3
  <2> HIDE DEF v, j
  <2>2. v[j + h - 1] = t[a + (j + h - 1) - 1]
    BY <1>2, <2>1
  <2> QED
    BY <1>1, <2>1, <2>2
<1>6. ASSUME Bounded(t, x, y) PROVE Bounded(v, j, y - a + 1)
  <2> SUFFICES ASSUME NEW z \in {j - 1, y - a + 2} \cap (1 .. b - a + 1)
               PROVE  v[z] \in Signs \cup NonAscii
    <3>1. y - a + 1 + 1 = y - a + 2
      BY <1>1
    <3> QED
      BY <1>2, <3>1 DEF Bounded
  <2>1. a + z - 1 \in {x - 1, y + 1} \cap (1 .. Len(t))
    BY <1>1, <1>3
  <2>2. v[z] = t[a + z - 1]
    BY <1>2
  <2>3. t[a + z - 1] \in Signs \cup NonAscii
    BY <1>1, <1>6, <2>1 DEF Bounded
  <2> QED
    BY <2>2, <2>3
<1> HIDE DEF v, j, y
<1>7. Literal(v, f, j, loose)
  BY <1>1, <1>2, <1>4, <1>5, <1>6 DEF Literal
<1> QED
  BY <1>2, <1>4, <1>7 DEF v

LEMMA FromWindow ==
    ASSUME NEW W, NEW t \in Seq(W), NEW i \in 1 .. Len(t),
           NEW f, Len(f) \in Nat \ {0}, DOMAIN f = 1 .. Len(f),
           NEW j \in DOMAIN Around(t, i), NEW loose, Literal(Around(t, i), f, j, loose)
    PROVE  \E x \in DOMAIN t : Literal(t, f, x, TRUE)
<1> DEFINE v == Around(t, i)
<1>0. \E a, b \in 1 .. Len(t) :
         /\ a <= i /\ i <= b
         /\ \A m \in 1 .. Len(t) : i - Window <= m /\ m <= i + Window - 1 => a <= m /\ m <= b
         /\ DOMAIN v = 1 .. b - a + 1 /\ Len(v) = b - a + 1
         /\ \A h \in 1 .. b - a + 1 : v[h] = t[a + h - 1]
  BY WindowFacts
<1>1. PICK a \in 1 .. Len(t), b \in 1 .. Len(t) :
         /\ DOMAIN v = 1 .. b - a + 1 /\ Len(v) = b - a + 1
         /\ \A h \in 1 .. b - a + 1 : v[h] = t[a + h - 1]
  BY <1>0
<1>2. /\ j \in 1 .. b - a + 1 /\ j + Len(f) - 1 <= b - a + 1
      /\ \A h \in 1 .. Len(f) : v[j + h - 1] = f[h]
  BY <1>1 DEF Literal
<1>3. Len(t) \in Nat /\ DOMAIN t = 1 .. Len(t)
  OBVIOUS
<1> HIDE DEF v
<1> DEFINE x == a + j - 1
<1>4. x \in 1 .. Len(t) /\ x + Len(f) - 1 <= Len(t)
  BY <1>2, <1>3
<1>5. \A h \in 1 .. Len(f) : t[x + h - 1] = f[h]
  <2> SUFFICES ASSUME NEW h \in 1 .. Len(f) PROVE t[x + h - 1] = f[h]
    OBVIOUS
  <2>1. j + h - 1 \in 1 .. b - a + 1 /\ a + (j + h - 1) - 1 = x + h - 1
    BY <1>2, <1>3
  <2>2. v[j + h - 1] = t[a + (j + h - 1) - 1]
    BY <1>1, <2>1
  <2> QED
    BY <1>2, <2>1, <2>2
<1> HIDE DEF x
<1>6. Literal(t, f, x, TRUE)
  BY <1>4, <1>5 DEF Literal
<1> QED
  BY <1>3, <1>4, <1>6

-----------------------------------------------------------------------------
(***************************************************************************)
(* Keywords and phrases of triggers.json.                                  *)
(***************************************************************************)
LEMMA ListedPhrases ==
    ASSUME NEW lang
    PROVE  /\ Of(Info, "en") \cup Of(Info, lang) = Listed(Info, {"en", lang})
           /\ \A f \in Listed(Info, {"en", lang}) : Len(f) \in Nat \ {0} /\ DOMAIN f = 1 .. Len(f)
<1>1. Of(Info, "en") \cup Of(Info, lang) = Listed(Info, {"en", lang})
  BY DEF Listed
<1>2. \A l : \A f \in Of(Info, l) : Phrase(f)
  BY WordsAssumption DEF Of
<1>3. \A f : Phrase(f) => Len(f) \in Nat \ {0} /\ DOMAIN f = 1 .. Len(f)
  BY DEF Phrase
<1> QED
  BY <1>1, <1>2, <1>3

LEMMA ListedKeywords ==
    ASSUME NEW w \in Chosen, NEW lang
    PROVE  /\ Patterns(Workflows[w].keywords, lang) =
                 Listed(Workflows[w].keywords, {"*", "en", lang})
           /\ \A k \in Patterns(Workflows[w].keywords, lang) :
                 /\ Len(k) \in Nat \ {0} /\ DOMAIN k = 1 .. Len(k)
                 /\ \A j \in 1 .. Len(k) : k[j] \notin Signs
<1> DEFINE lists == Workflows[w].keywords
<1>1. Patterns(lists, lang) = Listed(lists, {"*", "en", lang})
  BY DEF Patterns, Listed
<1>2. \A l : \A k \in Of(lists, l) : Phrase(k) /\ \A j \in DOMAIN k : k[j] \notin Signs
  BY WordsAssumption DEF Of
<1>3. \A f : Phrase(f) => Len(f) \in Nat \ {0} /\ DOMAIN f = 1 .. Len(f)
  BY DEF Phrase
<1>4. \A k \in Patterns(lists, lang) : Phrase(k) /\ \A j \in DOMAIN k : k[j] \notin Signs
  BY <1>2 DEF Patterns
<1> QED
  BY <1>1, <1>3, <1>4

\* The choice: a keyword of the workflow matches, and not in an informational context.
Triggers(t, w, lang) ==
    /\ ~Workflows[w].excluded
    /\ \E k \in Patterns(Workflows[w].keywords, lang) :
          Match(t, k, lang) # 0 /\ ~Informational(t, Match(t, k, lang), lang)

LEMMA ChooseTriggers ==
    ASSUME NEW p, NEW lang
    PROVE  /\ Choose(p, lang) # 0 =>
                 Choose(p, lang) \in Chosen /\ Triggers(StripCodeBlocks(p), Choose(p, lang), lang)
           /\ \A w \in Chosen : Triggers(StripCodeBlocks(p), w, lang) => Choose(p, lang) # 0
<1> DEFINE t == StripCodeBlocks(p)
           T == {w \in Chosen : Triggers(t, w, lang)}
<1>1. Choose(p, lang) = LeastOf(T)
  BY DEF Choose, Triggers
<1>2. T \in SUBSET Nat /\ 0 \notin T /\ T \subseteq Chosen
  BY DEF Chosen
<1>3. LeastOf(T) \in T \cup {0} /\ (T # {} => LeastOf(T) \in T)
  BY <1>2, LeastNumber
<1>4. \A w \in T : Triggers(t, w, lang)
  OBVIOUS
<1>5. \A w \in Chosen : Triggers(t, w, lang) => T # {}
  OBVIOUS
<1> HIDE DEF T, t
<1> QED
  BY <1>1, <1>2, <1>3, <1>4, <1>5 DEF t

LEMMA MatchFacts ==
    ASSUME NEW W, NEW t \in Seq(W), NEW k, NEW lang, 1 \in DOMAIN k
    PROVE  LET loose == lang \in Cjk \/ Loose(k) IN
           /\ Match(t, k, lang) # 0 =>
                 /\ Match(t, k, lang) \in 1 .. Len(t)
                 /\ \E at \in [DOMAIN k -> DOMAIN t] :
                       at[1] = Match(t, k, lang) /\ Stands(t, k, at, loose)
           /\ \A at \in [DOMAIN k -> DOMAIN t] : Stands(t, k, at, loose) => Match(t, k, lang) # 0
<1> DEFINE loose == lang \in Cjk \/ Loose(k)
           T == {i \in DOMAIN t : \E at \in [DOMAIN k -> DOMAIN t] :
                    at[1] = i /\ Stands(t, k, at, loose)}
<1>1. Match(t, k, lang) = LeastOf(T)
  BY DEF Match
<1>2. DOMAIN t = 1 .. Len(t)
  OBVIOUS
<1>3. T \in SUBSET Nat /\ T \subseteq 1 .. Len(t) /\ 0 \notin T
  BY <1>2
<1>4. LeastOf(T) \in T \cup {0} /\ (T # {} => LeastOf(T) \in T)
  BY <1>3, LeastNumber
<1>5. \A i \in T : \E at \in [DOMAIN k -> DOMAIN t] : at[1] = i /\ Stands(t, k, at, loose)
  OBVIOUS
<1>6. \A at \in [DOMAIN k -> DOMAIN t] : Stands(t, k, at, loose) => at[1] \in T
  OBVIOUS
<1> HIDE DEF T, loose
<1> QED
  BY <1>1, <1>3, <1>4, <1>5, <1>6 DEF loose

-----------------------------------------------------------------------------
(***************************************************************************)
(* What the hook chooses for a readable prompt was asked for.              *)
(***************************************************************************)
LEMMA NotInformational ==
    ASSUME NEW W, NEW t \in Seq(W), NEW i \in 1 .. Len(t), NEW lang, ~Informational(t, i, lang)
    PROVE  LET near == DOMAIN t \cap (i - Window .. i + Window - 1) IN
           /\ \A f \in Listed(Info, {"en", lang}), x \in near :
                 x + Len(f) - 1 \in near => ~Literal(t, f, x, Loose(f))
           /\ Len(t) \in near => t[Len(t)] # "?"
<1> DEFINE v == Around(t, i)
<1>1. PICK a \in 1 .. Len(t), b \in 1 .. Len(t) :
         /\ \A m \in 1 .. Len(t) : i - Window <= m /\ m <= i + Window - 1 => a <= m /\ m <= b
         /\ DOMAIN v = 1 .. b - a + 1 /\ Len(v) = b - a + 1
         /\ \A j \in 1 .. b - a + 1 : v[j] = t[a + j - 1]
  BY WindowFacts
<1>2. /\ v[Len(v)] # "?"
      /\ \A f \in Of(Info, "en") \cup Of(Info, lang) : \A j \in DOMAIN v :
            ~Literal(v, f, j, Loose(f))
  BY DEF Informational
<1>3. DOMAIN t = 1 .. Len(t) /\ Len(t) \in Nat /\ Window \in Nat
  BY PromptAssumption
<1>4. ASSUME NEW f \in Listed(Info, {"en", lang}), NEW x \in 1 .. Len(t),
             i - Window <= x, x + Len(f) - 1 <= i + Window - 1, Literal(t, f, x, Loose(f))
      PROVE  FALSE
  <2>1. Len(f) \in Nat \ {0} /\ DOMAIN f = 1 .. Len(f)
    BY ListedPhrases
  <2>2. Loose(f) \in BOOLEAN
    BY DEF Loose
  <2>3. \E j \in DOMAIN v : Literal(v, f, j, Loose(f))
    BY <1>4, <2>1, <2>2, InWindow
  <2>4. f \in Of(Info, "en") \cup Of(Info, lang)
    BY <1>4, ListedPhrases
  <2> QED
    BY <1>2, <2>3, <2>4
<1>5. ASSUME i - Window <= Len(t), Len(t) <= i + Window - 1 PROVE t[Len(t)] # "?"
  <2>1. b = Len(t)
    <3>1. Len(t) \in 1 .. Len(t)
      BY <1>3
    <3>2. b \in Nat /\ Len(t) <= b /\ b <= Len(t)
      BY <1>1, <1>3, <1>5, <3>1
    <3>3. \A x, y \in Nat : x <= y /\ y <= x => x = y
      OBVIOUS
    <3> QED
      BY <1>3, <3>2, <3>3, Zenon
  <2>2. Len(v) \in 1 .. b - a + 1 /\ a + Len(v) - 1 = Len(t)
    BY <1>1, <1>3, <2>1
  <2>3. v[Len(v)] = t[a + Len(v) - 1]
    BY <1>1, <2>2
  <2> QED
    BY <1>2, <2>2, <2>3
<1> HIDE DEF v
<1> DEFINE near == DOMAIN t \cap (i - Window .. i + Window - 1)
<1>6. \A x \in near : x \in 1 .. Len(t) /\ i - Window <= x /\ x <= i + Window - 1
  BY <1>3
<1> HIDE DEF near
<1>7. \A f \in Listed(Info, {"en", lang}), x \in near :
         x + Len(f) - 1 \in near => ~Literal(t, f, x, Loose(f))
  BY <1>4, <1>6
<1>8. Len(t) \in near => t[Len(t)] # "?"
  BY <1>5, <1>6
<1> QED
  BY <1>7, <1>8 DEF near

LEMMA ChosenAsked ==
    ASSUME NEW p \in Prompts, NEW lang, Readable(p), Choose(p, lang) # 0
    PROVE  Asked(p, lang, Choose(p, lang))
<1> DEFINE t == StripCodeBlocks(p)
           W == Range(p)
           w == Choose(p, lang)
<1>1. p \in Seq(W)
  BY WordsAssumption
<1>2. t \in Seq(W) /\ t = Seen(p)
  BY <1>1, Stripped
<1>3. w \in Chosen /\ Triggers(t, w, lang)
  BY ChooseTriggers
<1> HIDE DEF t, W, w
<1>4. ~Workflows[w].excluded
  BY <1>3 DEF Triggers
<1>5. PICK k \in Patterns(Workflows[w].keywords, lang) :
         Match(t, k, lang) # 0 /\ ~Informational(t, Match(t, k, lang), lang)
  BY <1>3 DEF Triggers
<1>6. 1 \in DOMAIN k /\ k \in Listed(Workflows[w].keywords, {"*", "en", lang})
  <2>1. Len(k) \in Nat \ {0} /\ DOMAIN k = 1 .. Len(k)
    BY <1>3, ListedKeywords
  <2>2. k \in Listed(Workflows[w].keywords, {"*", "en", lang})
    BY <1>3, ListedKeywords
  <2> QED
    BY <2>1, <2>2
<1>7. PICK at \in [DOMAIN k -> DOMAIN t] :
         at[1] = Match(t, k, lang) /\ Stands(t, k, at, lang \in Cjk \/ Loose(k))
  BY <1>2, <1>5, <1>6, MatchFacts
<1>8. PICK i \in 1 .. Len(t) : i = at[1]
  BY <1>2, <1>6
<1>9. ~Informational(t, i, lang)
  BY <1>5, <1>7, <1>8
<1>10. Asks(t, lang, k)
  BY <1>2, <1>7, <1>8, <1>9, NotInformational DEF Asks
<1> QED
  BY <1>2, <1>4, <1>6, <1>10 DEF Asked, w

-----------------------------------------------------------------------------
(***************************************************************************)
(* A plain prompt that asks for a workflow makes the hook choose one.      *)
(***************************************************************************)

\* There is no code in it: all of it is seen.
LEMMA PlainText ==
    ASSUME NEW W, NEW p \in Seq(W), NEW lang, Plain(p, lang)
    PROVE  Readable(p) /\ Seen(p) = p
<1>1. DOMAIN p = 1 .. Len(p) /\ Len(p) \in Nat
  OBVIOUS
<1>2. \A i \in 1 .. Len(p) : p[i] # Tick
  BY <1>1 DEF Plain
<1>3. \A i : ~TickAt(p, i)
  BY <1>1, <1>2 DEF TickAt
<1>4. Fences(p) = {}
  <2>1. ASSUME NEW i \in DOMAIN p, Fence(p, i) PROVE FALSE
    <3>1. i \in i .. i + 2
      BY <1>1
    <3>2. p[i] = Tick
      BY <2>1, <3>1 DEF Fence
    <3> QED
      BY <1>1, <1>2, <3>2
  <2> QED
    BY <2>1 DEF Fences
<1>5. Singles(p) = {}
  BY <1>3 DEF Singles, Alone
<1>6. Readable(p)
  BY <1>3, <1>4 DEF Readable
<1>7. \A i : ~Code(p, i)
  BY <1>4, <1>5 DEF Code, InBlock
<1>8. Seen(p) = Listing(p, 1 .. Len(p))
  <2> DEFINE V == {i \in DOMAIN p : ~Code(p, i)}
  <2>1. Seen(p) = Listing(p, V)
    BY DEF Seen, Listing
  <2>2. V = 1 .. Len(p)
    BY <1>1, <1>7
  <2> HIDE DEF V
  <2> QED
    BY <2>1, <2>2
<1> DEFINE pos == [i \in 1 .. Len(p) |-> i]
<1>9. Picks(pos, p, p, 1 .. Len(p))
  BY <1>1 DEF Picks
<1> HIDE DEF pos
<1>10. 1 .. Len(p) \in SUBSET Nat
  OBVIOUS
<1>11. p = Listing(p, 1 .. Len(p))
  BY <1>9, <1>10, Enumerated
<1> QED
  BY <1>6, <1>8, <1>11

LEMMA PlainWindow ==
    ASSUME NEW W, NEW t \in Seq(W), NEW lang, Plain(t, lang), NEW i \in 1 .. Len(t)
    PROVE  ~Informational(t, i, lang)
<1> DEFINE v == Around(t, i)
<1>1. PICK a \in 1 .. Len(t), b \in 1 .. Len(t) :
         /\ a <= i /\ i <= b
         /\ DOMAIN v = 1 .. b - a + 1 /\ Len(v) = b - a + 1
         /\ \A j \in 1 .. b - a + 1 : v[j] = t[a + j - 1]
  BY WindowFacts
<1>2. v[Len(v)] # "?"
  <2>1. Len(v) \in 1 .. b - a + 1 /\ a + Len(v) - 1 \in DOMAIN t
    BY <1>1
  <2>2. v[Len(v)] = t[a + Len(v) - 1]
    BY <1>1, <2>1
  <2> HIDE DEF v
  <2> QED
    BY <2>1, <2>2 DEF Plain
<1>3. ASSUME NEW f \in Of(Info, "en") \cup Of(Info, lang), NEW j \in DOMAIN v,
             Literal(v, f, j, Loose(f))
      PROVE  FALSE
  <2>1. f \in Listed(Info, {"en", lang}) /\ Len(f) \in Nat \ {0} /\ DOMAIN f = 1 .. Len(f)
    BY <1>3, ListedPhrases
  <2>2. \E x \in DOMAIN t : Literal(t, f, x, TRUE)
    BY <1>3, <2>1, FromWindow
  <2> QED
    BY <2>1, <2>2 DEF Plain
<1> QED
  BY <1>2, <1>3 DEF Informational

LEMMA PlainHeard ==
    ASSUME NEW p \in Prompts, NEW lang, Plain(p, lang), NEW w \in Chosen, Asked(p, lang, w)
    PROVE  ~Blank(p) /\ ~StartsWithSlashCommand(p) /\ Choose(p, lang) # 0
<1> DEFINE W == Range(p)
<1>1. p \in Seq(W)
  BY WordsAssumption
<1> HIDE DEF W
<1>2. Readable(p) /\ Seen(p) = p /\ StripCodeBlocks(p) = p
  BY <1>1, PlainText, Stripped
<1>3. PICK k \in Patterns(Workflows[w].keywords, lang) : Asks(p, lang, k)
  BY <1>2, ListedKeywords DEF Asked
<1>4. 1 \in DOMAIN k /\ k[1] \notin Signs
  <2>1. /\ Len(k) \in Nat \ {0} /\ DOMAIN k = 1 .. Len(k)
        /\ \A j \in 1 .. Len(k) : k[j] \notin Signs
    BY ListedKeywords
  <2>2. 1 \in 1 .. Len(k)
    BY <2>1
  <2> QED
    BY <2>1, <2>2
<1>5. PICK at \in [DOMAIN k -> DOMAIN p] : Stands(p, k, at, lang \in Cjk \/ Loose(k))
  BY <1>3 DEF Asks
<1>6. ~Blank(p)
  <2>1. at[1] \in DOMAIN p /\ p[at[1]] = k[1]
    BY <1>4, <1>5 DEF Stands
  <2> QED
    BY <1>4, <2>1 DEF Blank, Signs
<1>7. PICK i \in 1 .. Len(p) : i = Match(p, k, lang) /\ i # 0
  BY <1>1, <1>4, <1>5, MatchFacts
<1>8. ~Informational(p, i, lang)
  BY <1>1, PlainWindow
<1>9. Triggers(p, w, lang)
  BY <1>3, <1>7, <1>8 DEF Triggers, Asked
<1> QED
  BY <1>2, <1>6, <1>9, ChooseTriggers DEF Plain

-----------------------------------------------------------------------------
(***************************************************************************)
(* The hook's prompt, and what it made of it.  Its language does not       *)
(* change while it runs: the agent waits for it where it is.               *)
(***************************************************************************)
QuietOK ==
    At("quiet") => \/ Blank(hook.prompt) \/ StartsWithSlashCommand(hook.prompt)
                   \/ Choose(hook.prompt, Lang) = 0

HeardOK ==
    At("activate") \/ At("print") =>
        /\ ~Blank(hook.prompt) /\ ~StartsWithSlashCommand(hook.prompt)
        /\ Choose(hook.prompt, Lang) # 0 /\ hook.workflow = Choose(hook.prompt, Lang)

PromptInv ==
    /\ ShapeOK
    /\ ~At("done") => hook.prompt \in Prompts
    /\ QuietOK
    /\ HeardOK

LEMMA PromptInit == Init => PromptInv
  BY DEF Init, PromptInv, ShapeOK, QuietOK, HeardOK, NoHook, At

LEMMA PromptStep == TypeInv /\ PromptInv /\ [Next]_vars => PromptInv'
<1> SUFFICES ASSUME TypeInv, PromptInv, [Next]_vars PROVE PromptInv'
  OBVIOUS
<1>1. ShapeOK' /\ ShapeOK
  BY TypeStep DEF TypeInv
<1>2. ~At("done") => hook.prompt \in Prompts
  BY DEF PromptInv
<1>3. QuietOK /\ HeardOK
  BY DEF PromptInv
<1>4. ASSUME session' = session, prefs' = prefs, cwd' = cwd PROVE Lang' = Lang
  BY <1>4 DEF Lang, Vendor, In
<1>5. CASE Say
  <2>1. PICK p \in Prompts : hook' = [NoHook("main") EXCEPT !.prompt = p]
    BY <1>5 DEF Say
  <2>2. hook'.pc = "main" /\ hook'.prompt = p
    BY <2>1 DEF NoHook
  <2> QED
    BY <1>1, <2>2 DEF PromptInv, QuietOK, HeardOK, At
<1>6. CASE Main
  <2> DEFINE w == Choose(hook.prompt, Lang)
             blank == Blank(hook.prompt) \/ StartsWithSlashCommand(hook.prompt)
  <2>1. Lang' = Lang
    BY <1>4, <1>6 DEF Main
  <2>2. /\ blank \/ w = 0 => hook' = [hook EXCEPT !.pc = "quiet"]
        /\ ~blank /\ w # 0 => \E pc \in {"activate", "print"} :
              hook' = [hook EXCEPT !.workflow = w, !.pc = pc]
    BY <1>6 DEF Main, Goto
  <2> HIDE DEF w, blank
  <2>3. /\ blank \/ w = 0 => hook'.pc = "quiet" /\ hook'.prompt = hook.prompt
        /\ ~blank /\ w # 0 => /\ hook'.pc \in {"activate", "print"} /\ hook'.prompt = hook.prompt
                              /\ hook'.workflow = w
    BY <1>1, <2>2 DEF ShapeOK
  <2>4. hook.prompt \in Prompts
    BY <1>2, <1>6 DEF Main, At
  <2>5. CASE blank \/ w = 0
    <3>1. hook'.prompt = hook.prompt /\ hook'.pc = "quiet"
      BY <2>3, <2>5
    <3>2. QuietOK'
      BY <2>1, <2>5, <3>1 DEF QuietOK, w, blank
    <3>3. HeardOK'
      BY <3>1 DEF HeardOK, At
    <3> QED
      BY <1>1, <2>4, <3>1, <3>2, <3>3 DEF PromptInv
  <2>6. CASE ~blank /\ w # 0
    <3>1. hook'.prompt = hook.prompt /\ hook'.workflow = w /\ hook'.pc \in {"activate", "print"}
      BY <2>3, <2>6
    <3>2. QuietOK'
      BY <3>1 DEF QuietOK, At
    <3>3. HeardOK'
      BY <2>1, <2>6, <3>1 DEF HeardOK, w, blank
    <3> QED
      BY <1>1, <2>4, <3>1, <3>2, <3>3 DEF PromptInv
  <2> QED
    BY <2>5, <2>6
<1>7. CASE ActivateMode
  <2>1. hook'.pc = "print" /\ hook'.prompt = hook.prompt /\ hook'.workflow = hook.workflow
    BY <1>1, <1>7 DEF ActivateMode, Goto, ShapeOK
  <2>2. Lang' = Lang /\ At("activate")
    BY <1>4, <1>7 DEF ActivateMode
  <2>3. QuietOK' /\ hook.prompt \in Prompts
    BY <1>2, <2>1, <2>2 DEF QuietOK, At
  <2>4. HeardOK'
    BY <1>3, <2>1, <2>2 DEF HeardOK
  <2> QED
    BY <1>1, <2>1, <2>3, <2>4 DEF PromptInv
<1>8. CASE Tell \/ Exit \/ (\E d \in Dirs : Move(d))
  <2>1. hook'.pc = "done"
    BY <1>8 DEF Tell, Exit, Move, NoHook, At
  <2> QED
    BY <1>1, <2>1 DEF PromptInv, QuietOK, HeardOK, At
<1>9. CASE UNCHANGED vars
  <2>1. Lang' = Lang /\ hook' = hook
    BY <1>4, <1>9 DEF vars
  <2> QED
    BY <1>1, <1>2, <1>3, <2>1 DEF PromptInv, QuietOK, HeardOK, At
<1> QED
  BY <1>5, <1>6, <1>7, <1>8, <1>9 DEF Next

(***************************************************************************)
(* The hook starts a workflow only if the prompt asks for it: in what a    *)
(* reader sees of a prompt without its code there stands a keyword of the  *)
(* workflow, no informational phrase lies within the window around it, and *)
(* the text does not end in the window with a question mark.               *)
(***************************************************************************)
THEOREM StartsOnlyAsked == Spec => []OnlyAsked
<1>1. PromptInv => OnlyAsked
  <2> SUFFICES ASSUME PromptInv, At("print"), Readable(hook.prompt)
               PROVE  /\ Asked(hook.prompt, Lang, hook.workflow)
                      /\ ~StartsWithSlashCommand(hook.prompt)
    BY DEF OnlyAsked
  <2>1. hook.prompt \in Prompts
    BY DEF PromptInv, At
  <2>2. /\ ~StartsWithSlashCommand(hook.prompt) /\ Choose(hook.prompt, Lang) # 0
        /\ hook.workflow = Choose(hook.prompt, Lang)
    BY DEF PromptInv, HeardOK
  <2> QED
    BY <2>1, <2>2, ChosenAsked
<1>2. TypeInv /\ PromptInv /\ [Next]_vars => TypeInv' /\ PromptInv'
  BY TypeStep, PromptStep
<1>3. Init => TypeInv /\ PromptInv
  BY TypeInit, PromptInit
<1> QED
  BY <1>1, <1>2, <1>3, PTL DEF Spec

(***************************************************************************)
(* A prompt in plain words that asks for a workflow is not passed over,    *)
(* whatever language and vendor: the hook does not end without an answer   *)
(* to it because of what the prompt says.                                  *)
(***************************************************************************)
THEOREM PlainIsHeard == Spec => []AskedIsHeard
<1>1. PromptInv => AskedIsHeard
  <2> SUFFICES ASSUME PromptInv, At("quiet"), Plain(hook.prompt, Lang),
                      NEW w \in Chosen, Asked(hook.prompt, Lang, w)
               PROVE  FALSE
    BY DEF AskedIsHeard
  <2>1. hook.prompt \in Prompts
    BY DEF PromptInv, At
  <2>2. Blank(hook.prompt) \/ StartsWithSlashCommand(hook.prompt) \/ Choose(hook.prompt, Lang) = 0
    BY DEF PromptInv, QuietOK
  <2> QED
    BY <2>1, <2>2, PlainHeard
<1>2. TypeInv /\ PromptInv /\ [Next]_vars => TypeInv' /\ PromptInv'
  BY TypeStep, PromptStep
<1>3. Init => TypeInv /\ PromptInv
  BY TypeInit, PromptInit
<1> QED
  BY <1>1, <1>2, <1>3, PTL DEF Spec
=============================================================================
