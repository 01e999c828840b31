---------------------------- MODULE MCLuaSandbox ----------------------------
(***************************************************************************)
(* An instance of LuaSandbox for TLC: three modules in files of their own, *)
(* which may require each other and of which only two can be loaded, and a *)
(* name that matches two files.  Reading one module a second time after it *)
(* failed is more source than the limit allows.                            *)
(***************************************************************************)
EXTENDS LuaSandbox

MCNames == {"a", "b", "c", "twice"}
MCFiles == [n \in MCNames |-> IF n = "twice" THEN {"a", "b"} ELSE {n}]
MCSize == [p \in MCNames \ {"twice"} |-> 1]
=============================================================================
