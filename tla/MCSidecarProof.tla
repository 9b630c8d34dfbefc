---------------------------- MODULE MCSidecarProof ----------------------------
(***************************************************************************)
(* Instances of SidecarProof: two requests, of each kind and at once; of    *)
(* each parser one answer for every branch.                                 *)
(***************************************************************************)
EXTENDS SidecarProof

Prompt(kind) == [kind |-> kind, workspace |-> TRUE, enabled |-> TRUE, scoped |-> TRUE,
                 unsafe |-> FALSE]
MCPrompts ==
    {Prompt(kind) : kind \in Kinds}
    \cup {[Prompt("plain") EXCEPT !.scoped = FALSE], [Prompt("structured") EXCEPT !.enabled = FALSE],
          [Prompt("gate") EXCEPT !.workspace = FALSE], [Prompt("gate") EXCEPT !.unsafe = TRUE]}

E(path, text) == [path |-> path, text |-> text, keys |-> TRUE]
Json(files) == [form |-> "json", schema |-> TRUE, command |-> TRUE, files |-> files]
Form(form) == [form |-> form, schema |-> FALSE, command |-> FALSE, files |-> <<>>]
Pair(source, test) == Json(<<E("sum.ts", source), E("sum.test", test)>>)
Four(test) ==
    Json(<<E("safe.ts", "minus"), E("safe.test", test), E("ledger", "ledger"),
           E("rollback", "rollback")>>)

PlainAnswers ==
    {Form("prose"), Form("mention"), Form("broken"), Json(<<E("proof.txt", "exact")>>),
     Json(<<E("elsewhere", "exact")>>), Json(<<E("proof.txt", "other")>>)}
StructuredAnswers ==
    {Pair("plus", "checks"), Pair("odd", "checks"), Pair("plus", "silent"),
     Pair("plus", "other"), Form("prose"), [Pair("plus", "lax") EXCEPT !.command = FALSE],
     [Pair("plus", "lax") EXCEPT !.files[2].keys = FALSE],
     Json(<<E("sum.ts", "plus"), E("sum.ts", "plus")>>), Json(<<E("sum.ts", "plus")>>)}
InitialAnswers ==
    {Four("checks"), Four("lax"), Four("other"), Form("broken"),
     [Four("lax") EXCEPT !.files[4] = E("rollback", "other")],
     [Four("lax") EXCEPT !.files[3] = E("rollback", "rollback")]}
RepairAnswers ==
    {Json(<<E("safe.ts", "plus")>>), Json(<<E("safe.ts", "odd")>>), Form("prose"),
     Json(<<E("safe.test", "lax")>>), Json(<<>>)}
MCAnswers ==
    [stage \in Stages \cup {"harmless"} |->
        CASE stage = "plain" -> PlainAnswers
          [] stage = "structured" -> StructuredAnswers
          [] stage = "initial" -> InitialAnswers
          [] stage = "repair" -> RepairAnswers
          [] OTHER -> {}]
MCFound == {"absent", "exact", "directory"}
=============================================================================
