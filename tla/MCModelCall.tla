------------------------------ MODULE MCModelCall ------------------------------
(***************************************************************************)
(* Instances of ModelCall: two calls by each kind of caller, chunks of one  *)
(* to three lines with every line and with text after the last one, and     *)
(* listings with and without each model.                                    *)
(***************************************************************************)
EXTENDS ModelCall

Api(signal, diagnostic) ==
    [mode |-> "api", signal |-> signal, diagnostic |-> diagnostic, requested |-> Configured]
Requested == [name |-> "requested", tag |-> ""]
Other == [name |-> "other", tag |-> "latest"]
Tagged(model, tag) == [model EXCEPT !.tag = tag]
MCCallers ==
    {Api(TRUE, FALSE), Api(FALSE, TRUE), Api(TRUE, TRUE),
     [mode |-> "native", signal |-> FALSE, diagnostic |-> FALSE, requested |-> Requested]}
MCListings ==
    {<<Other, Tagged(Requested, "7b"), Tagged(Requested, "latest")>>, <<Other, Configured>>,
     <<Tagged(Preferred, "7b"), Other>>, <<Other>>}
MCChunks ==
    {<<line>> : line \in Lines} \cup {<<>>}
    \cup {<<"word", "done", "word">>, <<"word", "garbage">>, <<"space", "word">>,
          <<"thrown", "word">>}
=============================================================================
