----------------------------- MODULE MCSseResume -----------------------------
(* Instances of SseResume for TLC: the sets of scenarios of each run.      *)
EXTENDS SseResume

Of(sdks, modes, reconnects, starts, resends, quicks, cuts) ==
    [ sdk : sdks, mode : modes, reconnect : reconnects, start : starts,
      resends : resends, quick : quicks, slow : {FALSE}, cuts : cuts ]

(* The same scenarios with connects that may take longer than the floor.   *)
Slowly(scenarios) == {[s EXCEPT !.slow = TRUE] : s \in scenarios}

AllSdks  == {"ts", "py", "go"}
AllModes == {"updates", "values", "host"}
AllCuts  == SUBSET {"clean", "drop"}

(* Every SDK, channel and way for host and network to misbehave.           *)
AnyScenario ==
    Of(AllSdks, {"updates"}, {TRUE}, {-1}, {TRUE}, {TRUE}, AllCuts)
      \cup Of(AllSdks, {"updates"}, {TRUE}, {-1, Last}, {TRUE}, {FALSE}, {{}, {"drop"}})
      \cup Of(AllSdks, {"values", "host"}, {TRUE}, {-1}, BOOLEAN, {TRUE}, {{"clean", "drop"}})
      \cup Of(AllSdks, {"values", "host"}, {TRUE}, {-1}, {FALSE}, {FALSE}, {{"drop"}})
      \cup Of(AllSdks, AllModes, {FALSE}, {-1}, {FALSE}, {TRUE}, {{"clean", "drop"}})
      \cup Slowly(Of(AllSdks, {"updates"}, {TRUE}, {-1, Last}, {FALSE}, {FALSE}, {{"drop"}}))

(* Run events over connections that end between frames, or for TypeScript  *)
(* and Python also in the middle of one by a read error, from any starting *)
(* position and with hosts that do or do not re-send it.                   *)
DeliveryScenario ==
    Of(AllSdks, {"updates"}, {TRUE}, -1 .. Last, BOOLEAN, {FALSE}, {{}})
      \cup Of({"ts", "py"}, {"updates"}, {TRUE}, {-1, 0}, BOOLEAN, {FALSE}, {{"drop"}})

(* Those, and every SDK and channel, for what must happen in the end.      *)
LiveScenario ==
    DeliveryScenario
      \cup Of(AllSdks, AllModes, {TRUE}, {-1}, {FALSE}, BOOLEAN, {{}})

(* TypeScript, over connections whose clean end falls inside a frame.      *)
TornScenario == Of({"ts"}, {"updates"}, {TRUE}, {-1}, {FALSE}, {FALSE}, {{"clean"}})

(* Python, the same, with a host that may re-send the resumption point.    *)
PyTornScenario == Of({"py"}, {"updates"}, {TRUE}, {-1}, {TRUE}, {FALSE}, {{"clean"}})

(* Any SDK, behind a proxy that may close a young and silent stream.       *)
QuickScenario == Of(AllSdks, {"updates"}, {TRUE}, {-1}, {FALSE}, {TRUE}, {{}})

(* Any SDK, resuming a run that is over from a host that answers late.     *)
SlowScenario ==
    Slowly(Of(AllSdks, {"updates"}, {TRUE}, {Last}, {FALSE}, {FALSE}, {{}}))
==============================================================================
