-------------------------- MODULE MCArchiveUpload --------------------------
(* Small instances of ArchiveUpload for TLC.  Body "a" is a proper prefix  *)
(* of "ab" and "ac", which diverge; "ac" has the larger digest.            *)
EXTENDS ArchiveUpload

MCBodies == {"a", "ab", "ac"}
MCPrefix == {<<"a", "ab">>, <<"a", "ac">>}
MCWeight == [a |-> 1, ab |-> 2, ac |-> 3]

Plain == [kind |-> "none", root |-> "none", title |-> "t"]
Main  == [kind |-> "main", root |-> "none", title |-> "t"]
MCMetadata == {Plain, Main}

\* A file captured twice as it grew.  Other machines have the same file with a
\* classification, and a divergent copy.
MCVersion == [c1 |-> [body |-> "a", meta |-> Plain], c2 |-> [body |-> "ab", meta |-> Plain]]
MCForeign == {[body |-> "a", meta |-> Main], [body |-> "ac", meta |-> Main]}
=============================================================================
