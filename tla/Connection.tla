----------------------------- MODULE Connection -----------------------------
(***************************************************************************)
(* What a client of one of Discord's gateways promises to the rest of the  *)
(* program, whatever its handlers, threads and queues do to keep it: it    *)
(* has one connection at a time, its threads serve that one and no other,  *)
(* and when it says that the connection is gone nothing is left of it.     *)
(* Gateway and VoiceClient implement it, and the steps of RemoteAuth, once *)
(* its first connection has begun, are steps of it.                        *)
(***************************************************************************)
EXTENDS Naturals

VARIABLES
    number,   \* connections begun so far; the last is the one there is
    link,     \* what has become of it
    serving,  \* the connection whose thread runs, 0 if none does
    said      \* "gone" once it was announced that there is none and none is coming

vars == <<number, link, serving, said>>

Init == number = 0 /\ link = "none" /\ serving = 0 /\ said = "going"

Over == link \in {"none", "closed"}

\* A connection is begun when the last is over, and its thread goes before it: the
\* user asks for it, or the client that has not announced the end tries again.
Begin == /\ Over /\ serving' = 0
         /\ number' = number + 1 /\ link' = "connecting"
         /\ said' = "going"

Opens == link = "connecting" /\ link' = "open" /\ UNCHANGED <<number, serving, said>>

Ends == link \in {"connecting", "open"} /\ link' = "closed" /\ UNCHANGED <<number, serving, said>>

\* A thread is begun for the connection there is, when none serves another.
Serve == /\ number > 0 /\ serving = 0 /\ said = "going"
         /\ serving' = number
         /\ UNCHANGED <<number, link, said>>

Release == serving # 0 /\ serving' = 0 /\ UNCHANGED <<number, link, said>>

\* The end is announced when nothing is left, the thread going with the announcement.
Announce == Over /\ serving' = 0 /\ said' = "gone" /\ UNCHANGED <<number, link>>

Next == Begin \/ Opens \/ Ends \/ Serve \/ Release \/ Announce

Spec == Init /\ [][Next]_vars

\* Every variable keeps its type.
TypeOK ==
    /\ number \in Nat /\ serving \in Nat
    /\ link \in {"none", "connecting", "open", "closed"}
    /\ said \in {"going", "gone"}

\* A thread serves the connection there is (Websocket::Send uses m_websocket as it
\* stands, so that a thread of an earlier connection would send on a later one).
ServesOwn == serving \in {0, number}

\* Once the end was announced there is no connection and no thread.
GoneIsOver == said = "gone" => link \in {"none", "closed"} /\ serving = 0
=============================================================================
