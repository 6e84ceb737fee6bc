--------------------------- MODULE MCFileTransfer ---------------------------
\* Models of FileTransfer for TLC: the directory left on one server, right on
\* another, near beside it.
EXTENDS FileTransfer

CONSTANTS left, right, near, here

HostOf == left :> "A" @@ near :> "B" @@ right :> "B" @@ here :> "local"

Paths == {<<"a">>, <<"d", "a">>, <<"d", "e", "b">>}

\* Contents 1 and 2 have the same size.
Sizes == 0 :> 0 @@ 1 :> 1 @@ 2 :> 1

Filled(d, P) == [p \in P |-> [data |-> d, mtime |-> 0]]

AtFirst ==
  left :> {Filled(1, Paths)}
  @@ right :> {Empty, Filled(2, {<<"a">>}), Filled(2, {<<"d", "a">>}), Filled(1, Paths)}
  @@ near :> {Filled(2, {<<"a">>})}
  @@ here :> {Filled(2, {<<"a">>})}

AllKinds ==
  [kind : {"tree"}, path : {<<>>}, delete : BOOLEAN, preserve : BOOLEAN]
  \cup [kind : {"glob"}, path : {<<>>}, delete : BOOLEAN, preserve : {FALSE}]
  \cup [kind : {"file"}, path : {<<"a">>}, delete : {TRUE}, preserve : {FALSE}]

InUse == {<<left, right>>, <<near, right>>, <<near, here>>, <<here, right>>}
=============================================================================
