-------------------------- MODULE MessageLifecycle --------------------------
(***************************************************************************)
(* What the bus and the queue promise about the messages of a duty,        *)
(* whatever the sensor, the policy, the loop, crashes and failing calls    *)
(* do.  Messages are numbered as they come into being.                     *)
(*   - They are taken in hand in their order, none is passed over, and the *)
(*     next are not taken before these are dealt with.                     *)
(*   - What is in hand is dealt with oldest first: a message goes to the   *)
(*     queue to wait, or it is gone.                                       *)
(*   - What waits is heard, or discarded, or overtaken by a newer message  *)
(*     of its chat, the latter only where the duty asks for it and only    *)
(*     while the newer one is the oldest in hand.                          *)
(*   - What ended never comes back: only messages still in hand may be     *)
(*     put back, all together, or dropped, all together.                   *)
(* Module Ingest implements it.                                            *)
(***************************************************************************)
EXTENDS Naturals

CONSTANTS Message,   \* a set of numbers
          Chat,
          NoChat     \* of a message that is alone

VARIABLES fate,      \* where each message is
          chat,      \* its chat, known when it is taken in hand
          latest     \* does the duty keep the newest of a chat only?

Ended == {"heard", "overtaken", "gone", "dropped"}
Fates == {"new", "inhand", "waiting"} \cup Ended

In(f) == {m \in Message : fate[m] = f}

Init == /\ fate = [m \in Message |-> "new"]
        /\ chat \in [Message -> Chat]
        /\ latest \in BOOLEAN

Move(S, f) == fate' = [m \in Message |-> IF m \in S THEN f ELSE fate[m]]

\* The duty stays what it is, and a message stays in its chat.
KeepChats == /\ latest' = latest
             /\ chat' \in [Message -> Chat]
             /\ \A m \in Message : fate[m] # "new" => chat'[m] = chat[m]

IsOldest(m, S) == m \in S /\ \A n \in S : m <= n

\* New messages appear in the world.
Appear == fate' = fate

Take(S) == /\ In("inhand") = {}
           /\ S # {} /\ S \subseteq In("new")
           /\ \A m \in S, n \in In("new") \ S : m < n
           /\ Move(S, "inhand")

Queue(m) == IsOldest(m, In("inhand")) /\ Move({m}, "waiting")

Lose(m) == IsOldest(m, In("inhand")) /\ Move({m}, "gone")

Overtake(m, n) == /\ latest
                  /\ m \in In("waiting") /\ IsOldest(n, In("inhand"))
                  /\ m < n /\ chat[m] = chat[n] /\ chat[n] # NoChat
                  /\ Move({m}, "overtaken")

Hear(S) == S \subseteq In("waiting") /\ Move(S, "heard")

Discard(S) == S \subseteq In("waiting") /\ Move(S, "gone")

PutBack == Move(In("inhand"), "new")

Drop == Move(In("inhand"), "dropped")

Next == /\ KeepChats
        /\ \/ Appear \/ PutBack \/ Drop
           \/ \E S \in SUBSET Message : Take(S) \/ Hear(S) \/ Discard(S)
           \/ \E m \in Message : Queue(m) \/ Lose(m)
           \/ \E m, n \in Message : Overtake(m, n)

vars == <<fate, chat, latest>>

Spec == Init /\ [][Next]_vars
=============================================================================
