----------------------------- MODULE MCLuaCall -----------------------------
(* Two coroutines that may resume each other, with small limits.           *)
EXTENDS LuaCall

Nested == {[ops |-> {"wrap", "resume", "yield", "create", "error"}, frames |-> 2, extra |-> 1,
            ccalls |-> 6, over |-> 2, threads |-> {1, 2}]}
=============================================================================
