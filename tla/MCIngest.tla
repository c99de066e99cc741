------------------------------ MODULE MCIngest ------------------------------
(* Instances of Ingest for TLC. *)
EXTENDS Ingest

CONSTANTS chat, room   \* chats

MCKey == {chat, room}
MCId == (0..MaxTime) \X (0..MaxMsg)
NoWindow == -1

Duty(m, w, o, c, p) == [mode |-> m, window |-> w, opens |-> o, closes |-> c, polled |-> p]
MCPolicies == {Duty("none", NoWindow, 0, 1, FALSE),
               Duty("none", NoWindow, 1, 0, FALSE),
               Duty("latest", NoWindow, 0, 0, FALSE),
               Duty("batch", 1, 0, 0, FALSE),
               Duty("batch", 1, 0, 0, TRUE),
               Duty("adaptive", NoWindow, 0, 0, FALSE)}
MCLatest == {Duty("latest", NoWindow, 0, 0, FALSE)}
MCWindowedBatch == {Duty("batch", 1, 0, 1, FALSE)}
MCBackoff == <<1>>
\* The chats are alike, and the run checks no liveness.
Chats == Permutations(MCKey)
=============================================================================
