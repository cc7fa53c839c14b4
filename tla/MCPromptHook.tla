---------------------------- MODULE MCPromptHook ----------------------------
(***************************************************************************)
(* Instances of PromptHook for TLC.                                        *)
(***************************************************************************)
EXTENDS PromptHook, SequencesExt

\* "fix-ko" and "how-ko" stand for words of another language, where replan holds plan;
\* "commit" is the keyword of an excluded workflow.
SomeWorkflows ==
    <<[persistent |-> TRUE, excluded |-> FALSE, keywords |-> [l \in {"*"} |-> {<<"ulw">>}]],
      [persistent |-> FALSE, excluded |-> TRUE, keywords |-> [l \in {"*"} |-> {<<"commit">>}]],
      [persistent |-> TRUE, excluded |-> FALSE,
       keywords |-> [l \in {"en", "ko"} |-> IF l = "en" THEN {<<"fix", "bug">>} ELSE {<<"fix-ko">>}]],
      [persistent |-> FALSE, excluded |-> FALSE, keywords |-> [l \in {"en"} |-> {<<"plan">>}]]>>

HowTo == <<"how", Space, "to">>
SomeInfo == [l \in {"en", "ko"} |-> IF l = "en" THEN {HowTo, <<"explain">>} ELSE {<<"how-ko">>}]

Kind(v, keys, id) == [vendor |-> v, keys |-> keys, id |-> id]
Kinds == {Kind("claude", {"sessionId"}, "s"), Kind("codex", {"session_id"}, "s"),
          Kind("gemini", {}, "s"), Kind("qwen", {"session_id"}, "s"),
          Kind("claude", {}, "s")}

\* Prompts are made of pieces: up to three of them, or up to five of those that code
\* blocks, or the phrase and the window, are about.
Fence3 == <<Tick, Tick, Tick>>
Words(W) == {<<w>> : w \in W}
UpTo(n, pieces) == {FlattenSeq(s) : s \in UNION {[1 .. m -> pieces] : m \in 0 .. n}}

Mixed == {HowTo, <<"fix", Space, "bug">>}
         \cup Words({Tick, Space, "?", "/", "ulw", "plan", "re", "fix-ko", "commit", "explain", "how-ko"})
Blocks == {Fence3} \cup Words({Tick, Space, "fix", "bug", "?"})
Asking == {HowTo, <<Space, Space>>} \cup Words({Space, "to", "ulw"})
SomePrompts == UpTo(3, Mixed) \cup UpTo(5, Blocks) \cup UpTo(5, Asking)

=============================================================================
