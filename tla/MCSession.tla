----------------------------- MODULE MCSession ------------------------------
(* An execution event publishes itself and up to two metrics. *)
EXTENDS Session
EventOnly == {<<"event">>}
Mixed == {<<"event">>, <<"event", "metric">>}
Full == Mixed \cup {<<"event", "metric", "metric">>}
=============================================================================
