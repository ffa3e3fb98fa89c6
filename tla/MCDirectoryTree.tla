-------------------------- MODULE MCDirectoryTree --------------------------
(* An instance of DirectoryTree for TLC. *)
EXTENDS DirectoryTree, TLC

\* A short name and a longer one.
Names == {"a", "bb"}
Lengths == "a" :> 1 @@ "bb" :> 2

At(abs, steps) == [abs |-> abs, steps |-> steps]

\* Absolute and relative paths that reach every directory in a few commands.
Paths == {At(TRUE, <<>>), At(TRUE, <<"a">>), At(TRUE, <<"a", "bb">>),
          At(FALSE, <<"a">>), At(FALSE, <<"bb">>), At(FALSE, <<"..">>),
          At(FALSE, <<>>)}
Results1 == {<<"a", "a">>}
=============================================================================
