----------------------------- MODULE MCLogFormat -----------------------------
(* Small instance of LogFormat for TLC. *)
EXTENDS LogFormat

(* The two settings of driver.cpp, and one with function names. *)
MCSettings == {{"info", "warn", "error", "noFunctionName"},
               Levels \cup {"noFunctionName"}, Levels}

(* main, Name::main, Name::Class::main, a name that is too long, ::main, and
   names no function has, whose first or last character is a colon. *)
MCNames == {<<Identifier>>, <<Identifier, ":", ":", Identifier>>,
            <<Identifier, ":", ":", Identifier, ":", ":", Identifier>>,
            <<Identifier, Identifier, Identifier>>,
            <<":", ":", Identifier>>, <<":", Identifier>>,
            <<Identifier, ":">>, <<":">>}

MCNumbers == {[cpu |-> 1, id |-> 5], [cpu |-> 4, id |-> 10]}
=============================================================================
