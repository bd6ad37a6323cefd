------------------------ MODULE MCStreamingExecutor ------------------------
(* Serial calls of StreamingExecutor, with the smallest rings. *)
EXTENDS StreamingExecutor

\* Every kind of call in every mode, next to one that shares its buffers.
MCFollows ==
  {<<"host", "host", "flash">>, <<"host", "measured", "consumer">>,
   <<"host", "transform", "none">>, <<"host", "view", "none">>,
   <<"device_consumer", "consumer", "transform">>, <<"device_consumer", "consumer", "view">>,
   <<"device_consumer", "task", "recompute">>, <<"device_consumer", "cross", "cross">>}

\* A call of the same kind after an interrupted one.
MCRetries == {<<"device_consumer", "consumer", "consumer">>}
=============================================================================
