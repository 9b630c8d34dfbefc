----------------------------- MODULE MCLocalModes -----------------------------
(***************************************************************************)
(* Instances of LocalModes: two requests of every kind, with every refusal; *)
(* a target in each state a front tells apart; scratch files the commands   *)
(* find and scratch files they do not.                                      *)
(***************************************************************************)
EXTENDS LocalModes

Prompt(kind) ==
    [kind |-> kind, workspace |-> IF kind = "chatExam" THEN "ayla" ELSE "ordinary",
     complete |-> TRUE, front |-> "self", scoped |-> TRUE, tests |-> 1]
Engineer(front, tests) == [Prompt("engineer") EXCEPT !.front = front, !.tests = tests]
EngineerPrompts ==
    {Engineer("planner", 1), Engineer("self", 2), Engineer("unknown", 1),
     [Engineer("planner", 1) EXCEPT !.scoped = FALSE],
     [Engineer("self", 1) EXCEPT !.scoped = FALSE]}
Exams == {Prompt("exam"), Prompt("chatExam")}
Workflows == {Prompt("workflow"), [Prompt("workflow") EXCEPT !.workspace = "ayla"]}

Fresh == [p \in Parts |-> "old"]
MCFiles ==
    {Fresh, NoFile, [Fresh EXCEPT !["types"] = "new", !["guard"] = "new", !["status"] = "gone"]}

Absent == [s \in Scratch |-> "absent"]
Left == [s \in Scratch |-> "untyped"]
Other == [s \in Scratch |-> "clean"]

Setting(same, found, prompts, steps) ==
    [same |-> same, found |-> found, prompts |-> prompts, user |-> steps]
Start(text, other, where) == [file |-> text, staged |-> other, setting |-> where]
Edits == Setting(FALSE, Absent, EngineerPrompts, 1)
MCStarts ==
    {Start(text, FALSE, Edits) : text \in MCFiles} \cup {Start(Fresh, TRUE, Edits)}
    \cup {Start(NoFile, FALSE, where) : where \in
            {Setting(TRUE, Absent, Exams, 0), Setting(FALSE, Left, Exams, 0),
             Setting(FALSE, Other, {Prompt("exam")}, 0),
             Setting(TRUE, Absent, Workflows, 0)}}
MCAnswers == [s \in Scratch |->
    CASE s = "exam" -> Codes [] s = "workflow" -> {"clean", "untyped"} [] OTHER -> {"clean"}]

\* A workflow alone, below a root that ends with a separator and one that does not.
OneWorkflow ==
    {Start(NoFile, FALSE, Setting(same, Absent, {Prompt("workflow")}, 0)) : same \in BOOLEAN}
AllAnswers == [s \in Scratch |-> Codes]
=============================================================================
