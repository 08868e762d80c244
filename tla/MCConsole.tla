----------------------------- MODULE MCConsole -----------------------------
(* Small instances of Console for TLC.                                      *)
EXTENDS Console
(* "ba" is listed twice.                                                    *)
ThreeCommands == <<<<"a", "b">>, <<"b", "a">>, <<"b", "a">>>>
============================================================================
