---------------------------- MODULE MCPluginCall ----------------------------
(* Instances of PluginCall for TLC: the plugins it is run with. *)
EXTENDS PluginCall

Child0(ops) == [ops |-> ops, code |-> 0, json |-> TRUE]

\* Read the request to its end, then log, answer, and exit, fail or hang.
Draining ==
    { Child0(<<"drain", "stdout">>),
      Child0(<<"drain", "stderr", "stderr", "stderr", "stdout", "stdout", "stdout">>),
      Child0(<<"stderr", "drain", "stdout", "stderr">>),
      Child0(<<"read", "stdout", "drain", "stdout">>),
      [ops |-> <<"drain", "stderr">>, code |-> 1, json |-> TRUE],
      [ops |-> <<"drain", "stdout">>, code |-> 0, json |-> FALSE],
      Child0(<<"drain">>) }

\* Also hang at the end or in the middle of the answer, or give up early.
Hanging ==
    { [ops |-> <<"read">>, code |-> 1, json |-> TRUE],
      Child0(<<"drain", "hang">>),
      Child0(<<"drain", "stdout", "hang", "stdout">>),
      Child0(<<"drain", "stdout", "stdout", "stdout", "hang">>) }

\* Writes more than a pipe holds before it reads its request, or reads
\* nothing for a long time.
Blocking == { Child0(<<"stdout", "stdout", "stdout", "drain">>),
              Child0(<<"hang">>) }

\* Answers without reading its request to the end.
Early == { Child0(<<"stdout">>), Child0(<<"read", "stderr", "stdout">>) }

Every == Draining \cup Early \cup Hanging \cup Blocking
=============================================================================
