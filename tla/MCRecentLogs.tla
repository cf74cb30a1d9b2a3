----------------------------- MODULE MCRecentLogs -----------------------------
(* RecentLogs on a small instance. *)
EXTENDS RecentLogs

Plain == [length |-> "fits", json |-> "object", level |-> "info", time |-> TRUE,
          msg |-> {}, attributes |-> [requestId |-> None, req |-> None, words |-> {}]]

\* Lines that differ in what the filters see, and one for each way not to be kept.
MCLines ==
  {Plain,
   [Plain EXCEPT !.level = "error", !.attributes.requestId = "r1"],
   [Plain EXCEPT !.level = "error", !.msg = {"slow"}],
   [Plain EXCEPT !.attributes.req = "r1", !.attributes.words = {"slow"}],
   [Plain EXCEPT !.msg = None, !.attributes.req = "r2"],
   [Plain EXCEPT !.length = "over"],
   [Plain EXCEPT !.json = "other"],
   [Plain EXCEPT !.level = Unknown],
   [Plain EXCEPT !.time = FALSE]}

MCQueries ==
  [limit : {1, 2, 5}, level : {"error", None}, requestId : {"r1", None},
   search : {"slow", None}]
===============================================================================
