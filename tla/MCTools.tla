-------------------------------- MODULE MCTools --------------------------------
(***************************************************************************)
(* The tools a user works with: the language server with an editor and two *)
(* documents, or the interactive shell.                                    *)
(***************************************************************************)
EXTENDS LanguageServer, Repl
VARIABLE tool

MCDocs == {"a", "b"}
MCTexts == {"plain", "uses_b", "uses_a", "broken"}
MCImports == [t \in MCTexts |-> CASE t = "uses_b" -> <<"b">> [] t = "uses_a" -> <<"a">> [] OTHER -> <<>>]
MCTidy == [t \in MCTexts |-> IF t = "uses_b" THEN "plain" ELSE t]

Init == ServerInit /\ ReplInit /\ tool \in {"server", "repl"}
Next == /\ UNCHANGED tool
        /\ \/ tool = "server" /\ ServerNext /\ UNCHANGED replVars
           \/ tool = "repl" /\ ReplNext /\ UNCHANGED serverVars
Spec == Init /\ [][Next]_<<serverVars, replVars, tool>>
=============================================================================
