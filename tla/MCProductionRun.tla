-------------------------- MODULE MCProductionRun --------------------------
(* Runs and replies for TLC.                                               *)
EXTENDS ProductionRun

Task(artifact, validated, createValidate, diagnostic) ==
    [artifact |-> artifact, validation |-> validated, createValidate |-> createValidate,
     diagnostic |-> diagnostic, noTypeScript |-> FALSE,
     oldTarget |-> FALSE, dirty |-> {}, aylaWorkspace |-> TRUE]

MCProfiles ==
    { Task(TRUE, TRUE, FALSE, FALSE),
      [Task(TRUE, TRUE, TRUE, FALSE) EXCEPT !.noTypeScript = TRUE],
      [Task(TRUE, TRUE, TRUE, TRUE) EXCEPT !.oldTarget = TRUE],
      [Task(TRUE, FALSE, FALSE, TRUE) EXCEPT !.dirty = {"helper"}],
      Task(FALSE, TRUE, FALSE, FALSE),
      [Task(FALSE, FALSE, FALSE, FALSE) EXCEPT !.aylaWorkspace = FALSE] }

Bare(action) ==
    [action |-> action, path |-> "none", command |-> "none", content |-> "none",
     fields |-> {}, change |-> "evidence", modifies |-> FALSE, rewrite |-> FALSE]
On(action, path) == [Bare(action) EXCEPT !.path = path]
Edit(action, path, content) ==
    [On(action, path) EXCEPT !.content = content, !.modifies = TRUE]
Notes(fields, change) ==
    [Edit("write_context_notes", "notes", "sound") EXCEPT !.fields = fields, !.change = change]

MCReplies ==
    {Bare(a) : a \in {"inspect_workspace", "propose_plan", "request_clarification",
                      "run_validation", "final_report"}}
    \cup {On("read_file", p) : p \in {"target", "outside", "secret"}}
    \cup {On("search_text", "escape"), On("list_directory", "none")}
    \cup {Notes({"edit"}, "evidence"), Notes({"edit", "plan"}, "same"),
          Notes({"edit", "plan", "repair"}, "evidence"), Notes({"plan"}, "reworded")}
    \cup {Edit(a, "target", c) : a \in {"write_file_new", "edit_file_span"}, c \in {"sound", "flawed"}}
    \cup {Edit("edit_file", "target", "malformed"), Edit("write_file", "target", "sound"),
          Edit("write_file_new", "helper", "sound"), Edit("apply_patch", "helper", "sound"),
          [Edit("write_file_new", "outside", "sound") EXCEPT !.modifies = FALSE],
          Edit("write_file_new", "none", "sound")}
    \cup {[Bare("run_terminal") EXCEPT !.command = c] : c \in {"none", "safe", "unsafe"}}
=============================================================================
