----------------------------- MODULE MCConsumer -----------------------------
(* Consumer on small instances: a log of three messages, both dispatch     *)
(* modes, callbacks that are short or may outlast the stop, every duration *)
(* of the program and time in ticks of half a second.                      *)
EXTENDS Consumer

HalfSecond == {500}
ShortCalls == {0, 500}      \* below the second that four of backoff leave
LongCalls  == {500, 5500}   \* beyond the five seconds of stop/1

BothModes  == [dispatch_mode : {"one_by_one", "batch"}, callback_times : {ShortCalls, LongCalls}]
=============================================================================
