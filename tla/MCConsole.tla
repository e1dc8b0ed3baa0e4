------------------------------ MODULE MCConsole ------------------------------
(* Console for TLC: a screen of three rows, the shell and a demo task.         *)
EXTENDS Console, TLC

ShellAndTask == "shell" :> {"newline", "return", "tab", "backspace", "a"}
                @@ "task" :> {"newline", "b"}
=============================================================================
