------------------------------- MODULE MCFs -------------------------------
(* Small instances of Fs for TLC: an absolute path is a(...), a relative    *)
(* one r(...).                                                              *)
EXTENDS Fs, TLC
CONSTANTS p1, p2

a(e) == [abs |-> TRUE, elems |-> e]
r(e) == [abs |-> FALSE, elems |-> e]
C(op, path) == [op |-> op, path |-> path]
L(old, new) == [op |-> "link", path |-> old, new |-> new]

(* Files /f and /d/f, directories /d and /d/d, and calls relative to a      *)
(* current directory that may have been removed.                            *)
SomeCalls == {
    C("create", r(<<"f">>)), C("mkdir", r(<<"d">>)), C("open", r(<<"f">>)),
    C("unlink", a(<<"d", "f">>)), C("unlink", a(<<"d">>)),
    C("unlink", a(<<"d", "d">>)), C("unlink", a(<<"d", "..">>)),
    L(a(<<"f">>), a(<<"d", "f">>)),
    C("chdir", r(<<"d">>)), C("chdir", r(<<"..">>))}

(* Two processes, one file.                                                 *)
OneFile == {C("create", a(<<"f">>)), C("unlink", a(<<"f">>))}

(* The run goes no further once a call has followed the ".." of a removed   *)
(* directory to another removed one.                                        *)
NotStrayed == ~strayed

Perms == Permutations(Process)
===========================================================================
