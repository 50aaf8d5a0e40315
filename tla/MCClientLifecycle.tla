------------------------- MODULE MCClientLifecycle -------------------------
(* ClientLifecycle with two callers and up to two ids, or with one caller  *)
(* and global options: none, :undefined, no option, one option.            *)
EXTENDS ClientLifecycle

CONSTANTS a, b, p, q

TwoIds     == {a, b}
OneId      == {a}
OneCaller  == {p}
TwoCallers == {p, q}

AnyGlobalOptions == {Nil, Undefined, << >>, <<[key |-> "debug", value |-> "all"]>>}
=============================================================================
