-------------------------- MODULE SendReceiveEvent --------------------------
(***************************************************************************)
(* The request/response pair of DOM custom events that                     *)
(* useSendAndReceiveCustomEvent (src/client/src/hooks) serves.  While the  *)
(* component that calls the hook is mounted, a listener for the "send"     *)
(* event of eventName runs cb(e.detail) and, once cb settles, dispatches   *)
(* the "receive" event with { data } or { error }.                        *)
(*                                                                         *)
(* The requesters are the other side: each dispatches the send event with *)
(* its request and then listens for one receive event.  A receive event is *)
(* a broadcast: it carries no request identifier and reaches every         *)
(* listener registered for it.  The identity of a request stands for its  *)
(* detail, and got[r] records whose cb run produced what r received.       *)
(***************************************************************************)
EXTENDS FiniteSets

CONSTANTS
    Requesters,  \* the callers that send a request on eventName
    NoJob        \* got[r] before r has received anything

ASSUME RequestersAssumption == IsFiniteSet(Requesters) /\ NoJob \notin Requesters

VARIABLES
    mounted,  \* the effect's send listener is on the document
    rpc,      \* each requester: "idle", "waiting", "answered" or "failed"
    jobs,     \* requests whose handleSend is suspended at `await cb(...)`
    handled,  \* requests the send listener was there to receive
    got       \* got[r]: the request whose cb run answered r

vars == <<mounted, rpc, jobs, handled, got>>

RequestState == {"idle", "waiting", "answered", "failed"}

-----------------------------------------------------------------------------
Init ==
    /\ mounted = FALSE
    /\ rpc = [r \in Requesters |-> "idle"]
    /\ jobs = {}
    /\ handled = {}
    /\ got = [r \in Requesters |-> NoJob]

\* useEffect's body: register handleSend for the send event.
Mount ==
    /\ ~mounted
    /\ mounted' = TRUE
    /\ UNCHANGED <<rpc, jobs, handled, got>>

\* Mutant of Unmount: the cleanup also drops the handleSend runs in flight.
UnmountCancels ==
    /\ mounted
    /\ mounted' = FALSE
    /\ jobs' = {}
    /\ UNCHANGED <<rpc, handled, got>>

\* The cleanup useEffect returns: remove the send listener.  A handleSend
\* already suspended on cb keeps running; its closure still dispatches.
Unmount ==
    /\ mounted
    /\ mounted' = FALSE
    /\ UNCHANGED <<rpc, jobs, handled, got>>

\* dispatchEvent(send) runs the listeners synchronously: handleSend calls
\* cb(e.detail) and suspends at its await.  Without a listener the event
\* reaches nobody.
StartHandleSend(r) ==
    IF mounted THEN /\ jobs' = jobs \cup {r}
                    /\ handled' = handled \cup {r}
               ELSE UNCHANGED <<jobs, handled>>

\* A requester sends its request and listens for the receive event.
Request(r) ==
    /\ rpc[r] = "idle"
    /\ StartHandleSend(r)
    /\ rpc' = [rpc EXCEPT ![r] = "waiting"]
    /\ UNCHANGED <<mounted, got>>

\* Every listener on the receive event gets the one dispatched for job j.
Deliver(j, outcome) ==
    LET listening == {r \in Requesters : rpc[r] = "waiting"}
    IN  /\ rpc' = [r \in Requesters |->
                      IF r \in listening THEN outcome ELSE rpc[r]]
        /\ got' = [r \in Requesters |-> IF r \in listening THEN j ELSE got[r]]

\* Mutant of Settle: without the catch, a rejected cb dispatches nothing.
SettleNoCatch(j, ok) ==
    /\ j \in jobs
    /\ jobs' = jobs \ {j}
    /\ IF ok THEN Deliver(j, "answered") ELSE UNCHANGED <<rpc, got>>
    /\ UNCHANGED <<mounted, handled>>

\* The await of cb settles: the receive event carries { data } when cb
\* resolved, { error: e.message } when it threw.
Settle(j, ok) ==
    /\ j \in jobs
    /\ jobs' = jobs \ {j}
    /\ Deliver(j, IF ok THEN "answered" ELSE "failed")
    /\ UNCHANGED <<mounted, handled>>

Next ==
    \/ Mount \/ Unmount
    \/ \E r \in Requesters : Request(r)
    \/ \E j \in Requesters, ok \in BOOLEAN : Settle(j, ok)

Spec == Init /\ [][Next]_vars

\* The promise cb returns settles: the callbacks served this way are
\* getters of the static objects of the app.  Mounting and requests are
\* up to the app and the user and get no fairness.
FairSpec == Spec /\ \A j \in Requesters : WF_vars(\E ok \in BOOLEAN : Settle(j, ok))

-----------------------------------------------------------------------------
(* Properties.                                                             *)

\* The type of every variable.
TypeOK ==
    /\ mounted \in BOOLEAN
    /\ rpc \in [Requesters -> RequestState]
    /\ jobs \subseteq Requesters
    /\ handled \subseteq Requesters
    /\ got \in [Requesters -> Requesters \cup {NoJob}]

\* A request that reached handleSend and is still waiting has its cb run in
\* flight: neither an unmount nor a rejected cb leaves its requester with no
\* receive event to come.
HandledPending ==
    \A r \in handled : rpc[r] = "waiting" => r \in jobs

\* Every request that found handleSend listening is answered, with data or
\* with the error cb threw: the catch of handleSend turns a rejection into
\* a receive event, so no requester whose request reached cb hangs.
HandledAnswered ==
    \A r \in Requesters : r \in handled ~> rpc[r] \in {"answered", "failed"}

=============================================================================
