--------------------------- MODULE StreamProtocol ---------------------------
(***************************************************************************)
(* What the inference facade promises a caller, whatever the batching does *)
(* behind it (spec sections 4.4, 4.5, 5 and 7):                            *)
(*   - generate_stream fails with Overloaded exactly when every permit is  *)
(*     held; a permit is held from the call's start through validation,    *)
(*     and then as long as its receiver lives;                             *)
(*   - a stream receives Token* then End, End after exactly max_new_tokens *)
(*     tokens, or an Err at any point, and nothing after End or Err;       *)
(*   - each step of the server adds at most one message to each stream;    *)
(*   - generate returns Ok after an End, the error after an Err, and never *)
(*     IncompleteGeneration: a stream is never closed before its end.      *)
(***************************************************************************)
EXTENDS Integers, Sequences, FiniteSets, SequencesExt

CONSTANTS Requests, MaxNewTokens, MaxConcurrent

VARIABLES
    status,   \* per request: "idle", "validating", "overloaded", "invalid", "accepted"
    rx,       \* per request: its receiver, "none", "open" or "dropped"
    need,     \* per request: max_new_tokens
    sent,     \* per request: the messages its receiver has been sent
    result    \* per request: what generate returned, "none", "ok", "error"

vars == <<status, rx, need, sent, result>>

Terminal == {"End", "Err"}

Finished(r) == sent[r] # <<>> /\ Last(sent[r]) \in Terminal

\* The messages a stream may receive next.
Allowed(r) ==
    IF Finished(r) THEN {}
    ELSE {"Err"} \cup IF Len(sent[r]) + 1 = need[r] THEN {"End"} ELSE {"Token"}

Init ==
    /\ status = [r \in Requests |-> "idle"]
    /\ rx = [r \in Requests |-> "none"]
    /\ need = [r \in Requests |-> 0]
    /\ sent = [r \in Requests |-> <<>>]
    /\ result = [r \in Requests |-> "none"]

Open == {r \in Requests : rx[r] = "open"}

Permits == {r \in Requests : status[r] = "validating"} \cup Open

\* A call takes a permit, or fails with Overloaded when none is free.
Submit(r) ==
    /\ status[r] = "idle"
    /\ status' = [status EXCEPT ![r] = IF Cardinality(Permits) >= MaxConcurrent
                                       THEN "overloaded" ELSE "validating"]
    /\ UNCHANGED <<rx, need, sent, result>>

\* The request is rejected (its permit is released) or gets a stream.
Admit(r) ==
    /\ status[r] = "validating"
    /\ \/ status' = [status EXCEPT ![r] = "invalid"] /\ UNCHANGED <<rx, need>>
       \/ /\ status' = [status EXCEPT ![r] = "accepted"]
          /\ rx' = [rx EXCEPT ![r] = "open"]
          /\ \E n \in MaxNewTokens : need' = [need EXCEPT ![r] = n]
    /\ UNCHANGED <<sent, result>>

\* The caller of generate_stream drops its stream, at any time.
Cancel(r) ==
    /\ rx[r] = "open"
    /\ rx' = [rx EXCEPT ![r] = "dropped"]
    /\ UNCHANGED <<status, need, sent, result>>

\* One step of the server: some open streams get one allowed message each.
Deliver ==
    \E S \in SUBSET {r \in Open : ~Finished(r)} \ {{}} :
    \E m \in [S -> {"Token", "End", "Err"}] :
        /\ \A r \in S : m[r] \in Allowed(r)
        /\ sent' = [r \in Requests |-> IF r \in S THEN Append(sent[r], m[r]) ELSE sent[r]]
        /\ UNCHANGED <<status, rx, need, result>>

\* generate returns once its stream has ended, and drops the stream.
Return(r) ==
    /\ rx[r] = "open" /\ Finished(r)
    /\ result' = [result EXCEPT ![r] = IF Last(sent[r]) = "End" THEN "ok" ELSE "error"]
    /\ rx' = [rx EXCEPT ![r] = "dropped"]
    /\ UNCHANGED <<status, need, sent>>

Next ==
    \/ \E r \in Requests : Submit(r) \/ Admit(r) \/ Cancel(r) \/ Return(r)
    \/ Deliver

Spec == Init /\ [][Next]_vars

=============================================================================
