-------------------------- MODULE MCSuppressions --------------------------
(* Instances of Suppressions. *)
EXTENDS Suppressions

L(code, comment, found) == [code |-> code, comment |-> comment, found |-> found]
No == <<>>
Note == <<<<"note">>>>
Only(kind) == <<<<kind>>>>
Triage(codes) == <<<<"pytriage">> \o codes>>

\* Toggles and skips in and between statements, comments on brackets
Format == [length |-> 5, active |-> {"TR7"}, lines |->
  {L("none", c, {}) : c \in {No, Only("off"), Only("on"), Only("skip")}}
    \cup {L("one", c, {}) : c \in {No, Only("skip"), Only("off")}}
    \cup {L("head", c, {}) : c \in {No, Only("on")}} \cup {L("item", c, {}) : c \in {No, Only("skip")}}
    \cup {L(code, c, {}) : code \in {"inner", "close"}, c \in {No, Note, Only("skip")}}
    \cup {L("inner", Only("attribute"), {})}]

\* Findings of one line and of two, and directives that name them once or twice
Audit == [length |-> 3, active |-> {"TR1", "TR5", "TR8"}, lines |->
  {L("one", c, f) : c \in {No, Triage(<<"TR5">>), Triage(<<"TR1", "TR5">>), Triage(<<"TR5", "TR5">>),
                           <<<<"pytriage", "TR1">>, <<"pytriage", "TR5", "TR1">>>>, Only("skip")},
                    f \in {{}, {"TR1"}, {"TR5"}}}
    \cup {L("none", Only("off"), {}), L("none", Only("on"), {})}]

MCGrammars == [format |-> Format, audit |-> Audit]

-----------------------------------------------------------------------------
(* Grammars whose files show where the fix is wrong: not in the run *)

\* A comment behind the end of a string of several lines: StringsKept
Strings == [length |-> 4, active |-> {"TR7"}, lines |->
  {L("headtext", No, {}), L("text", No, {}), L("closetext", No, {}), L("closetext", Note, {}), L("one", No, {})}]

\* A # pytriage comment behind a closing bracket: SilencesNothing
Pragmas == [length |-> 4, active |-> {"TR7", "TR9"}, lines |->
  {L("head", No, {}), L("item", No, {}), L("item", No, {"TR9"}), L("close", Note, {}), L("close", Triage(<<"TR9">>), {}), L("one", No, {})}]

Disagreements == [strings |-> Strings, pragmas |-> Pragmas]
=============================================================================
