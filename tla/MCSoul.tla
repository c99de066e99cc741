------------------------------- MODULE MCSoul -------------------------------
(* An instance of Soul for TLC: one file that every writing state may write,   *)
(* one that only Reflect may; a posting and a settling tool whose prefixes     *)
(* overlap; a required remote and a best-effort mirror.                        *)
EXTENDS Soul

Memory == <<"memory", "note">>
Draft == <<"SOUL.md.draft">>

MCPath == {Memory, Draft}
MCContent == [by : Writer, allowed : BOOLEAN]
MCStart == [p \in MCPath |-> IF p = Draft THEN [by |-> "seed", allowed |-> TRUE] ELSE Absent]

MCTool == {"Write", "wallet_pay", "wallet_look", "post"}
MCBuiltin == [t \in {"Write"} |-> "FileWrite"]
\* wallet_ is listed as a reader, wallet_pay as the settling tool it begins.
MCCapability ==
  {[class |-> "Read", tools |-> {"wallet_pay", "wallet_look"}, listed |-> {}, whole |-> TRUE],
   [class |-> "SettleTx", tools |-> {"wallet_pay"}, listed |-> {"wallet_pay"}, whole |-> FALSE],
   [class |-> "Post", tools |-> {"post"}, listed |-> {}, whole |-> TRUE]}
MCDryRun == {}
MCRoot == <<"soul">>

Under(segs) == [abs |-> FALSE, segs |-> segs]
MCCalls == {[tool |-> "Write", target |-> Under(Memory)],
            [tool |-> "Write", target |-> Under(<<"memory", "..", "SOUL.md.draft">>)],
            [tool |-> "wallet_pay", target |-> NoTarget],
            [tool |-> "post", target |-> NoTarget]}
MCStates == {"perceive", "express", "settle", "reflect"}
MCRemotes == <<"main", "mirror">>
MCNone == {}
MCQuoted == {Memory}
=============================================================================
