----------------------------- MODULE ChatContract -----------------------------
(***************************************************************************)
(* What the chat promises its user (docs/contracts/02-engine-app.md,       *)
(* Delivery guarantees), without a word of how: the engine takes only what *)
(* was sent, the chat takes each of those once and keeps it, and the       *)
(* thread shows one tick for what the engine took, two for what is in the  *)
(* chat, and while the page lives takes either back only to say refused.   *)
(***************************************************************************)
EXTENDS Sequences, Naturals

CONSTANTS Msgs, Sessions, SessionOf

VARIABLES
    sent,   \* messages the user sent
    taken,  \* messages the engine said it took
    log,    \* [Sessions -> Seq(Msgs)]: the chat
    told,   \* [Msgs -> Words]: what the thread shows
    page    \* how often the page has been loaded

contractVars == <<sent, taken, log, told, page>>

Words == {"none", "sending", "sent", "delivered", "failed"}

Logged(m) == \E i \in DOMAIN log[SessionOf[m]] : log[SessionOf[m]][i] = m

Init ==
    /\ sent = {}
    /\ taken = {}
    /\ log = [s \in Sessions |-> <<>>]
    /\ told = [m \in Msgs |-> "none"]
    /\ page = 0

Send(m) ==
    /\ m \notin sent
    /\ sent' = sent \cup {m}
    /\ told' = [told EXCEPT ![m] = "sending"]
    /\ UNCHANGED <<taken, log, page>>

Take(m) ==
    /\ m \in sent
    /\ taken' = taken \cup {m}
    /\ UNCHANGED <<sent, log, told, page>>

Log(m) ==
    /\ m \in taken /\ ~Logged(m)
    /\ log' = [log EXCEPT ![SessionOf[m]] = Append(@, m)]
    /\ UNCHANGED <<sent, taken, told, page>>

\* What the thread may say of a message next.
MayTell(m, w) ==
    \/ w = "sent" /\ told[m] = "sending" /\ m \in taken
    \/ w = "delivered" /\ Logged(m)
    \/ w = "failed" /\ told[m] \in {"sending", "sent", "delivered"}
    \/ w = "sending" /\ told[m] = "failed"
    \/ w = "none" /\ told[m] \in {"sending", "failed"}

Tell(m) ==
    /\ \E w \in Words : MayTell(m, w) /\ told' = [told EXCEPT ![m] = w]
    /\ UNCHANGED <<sent, taken, log, page>>

\* The page is loaded anew: no tick outlives it.
Reload ==
    /\ page' = page + 1
    /\ told' \in [Msgs -> {"none", "sending", "failed"}]
    /\ \A m \in Msgs \ sent : told'[m] = "none"
    /\ UNCHANGED <<sent, taken, log>>

Next == \/ \E m \in Msgs : Send(m) \/ Take(m) \/ Log(m) \/ Tell(m)
        \/ Reload

Spec == Init /\ [][Next]_contractVars
=============================================================================
