----------------------- MODULE SendReceiveEventProofs -----------------------
(***************************************************************************)
(* Proofs about the send/receive custom-event hook of SendReceiveEvent,   *)
(* for every set of requesters.                                            *)
(***************************************************************************)
EXTENDS SendReceiveEvent, TLAPS

\* A request reaches handleSend only once it is sent.
SentHandled == \A r \in handled : rpc[r] # "idle"

IInv == TypeOK /\ HandledPending /\ SentHandled

\* A receive event leaves every listener answered or failed, records the
\* job that answered it, and touches no one else.
LEMMA DeliverType ==
    ASSUME TypeOK, NEW j \in Requesters, NEW outcome \in {"answered", "failed"},
           Deliver(j, outcome)
    PROVE  /\ rpc' \in [Requesters -> RequestState]
           /\ got' \in [Requesters -> Requesters \cup {NoJob}]
           /\ \A r \in Requesters : rpc[r] # "waiting" => rpc'[r] = rpc[r]
           /\ \A r \in Requesters : rpc'[r] # "waiting"
           /\ \A r \in Requesters : rpc'[r] = "idle" => rpc[r] = "idle"
BY DEF Deliver, TypeOK, RequestState

\* Every step of the hook and of its requesters keeps the types, and keeps
\* the cb run of every handled, waiting request in flight.
LEMMA IInvStep == IInv /\ [Next]_vars => IInv'
<1> SUFFICES ASSUME IInv, [Next]_vars PROVE IInv'
  OBVIOUS
<1>1. CASE Mount
  BY <1>1 DEF Mount, IInv, TypeOK, HandledPending, SentHandled
<1>2. CASE Unmount
  BY <1>2 DEF Unmount, IInv, TypeOK, HandledPending, SentHandled
<1>3. CASE \E r \in Requesters : Request(r)
  <2>1. PICK r \in Requesters : Request(r)
    BY <1>3
  <2>2. CASE mounted
    <3>1. jobs' = jobs \cup {r} /\ handled' = handled \cup {r}
      BY <2>1, <2>2 DEF Request, StartHandleSend
    <3>2. QED
      BY <2>1, <3>1 DEF Request, IInv, TypeOK, HandledPending, SentHandled, RequestState
  <2>3. CASE ~mounted
    <3>1. jobs' = jobs /\ handled' = handled
      BY <2>1, <2>3 DEF Request, StartHandleSend
    <3>2. r \notin handled
      BY <2>1 DEF Request, IInv, SentHandled, TypeOK
    <3>3. QED
      BY <2>1, <3>1, <3>2 DEF Request, IInv, TypeOK, HandledPending, SentHandled, RequestState
  <2>4. QED
    BY <2>2, <2>3
<1>4. CASE \E j \in Requesters, ok \in BOOLEAN : Settle(j, ok)
  <2>1. PICK j \in Requesters, ok \in BOOLEAN : Settle(j, ok)
    BY <1>4
  <2>2. (IF ok THEN "answered" ELSE "failed") \in {"answered", "failed"}
    OBVIOUS
  <2>3. /\ rpc' \in [Requesters -> RequestState]
        /\ got' \in [Requesters -> Requesters \cup {NoJob}]
        /\ \A r \in Requesters : rpc'[r] # "waiting"
        /\ \A r \in Requesters : rpc'[r] = "idle" => rpc[r] = "idle"
    BY <2>1, <2>2, DeliverType DEF Settle, IInv
  <2>4. QED
    BY <2>1, <2>3 DEF Settle, IInv, TypeOK, HandledPending, SentHandled
<1>5. CASE UNCHANGED vars
  BY <1>5 DEF vars, IInv, TypeOK, HandledPending, SentHandled
<1>6. QED
  BY <1>1, <1>2, <1>3, <1>4, <1>5 DEF Next

\* Whatever requests are sent and whenever the hook's component mounts and
\* unmounts, a request that reached handleSend and is still waiting has its
\* cb run in flight, so a receive event is still to come for it.
THEOREM HandledPendingHolds == Spec => [](TypeOK /\ HandledPending)
<1>1. Init => IInv
  BY DEF Init, IInv, TypeOK, HandledPending, SentHandled, RequestState
<1>2. IInv => TypeOK /\ HandledPending
  BY DEF IInv
<1>3. QED
  BY <1>1, <1>2, IInvStep, PTL DEF Spec

=============================================================================
