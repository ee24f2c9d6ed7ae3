---------------------------- MODULE PolicyService ----------------------------
(***************************************************************************)
(* What GetPolicyConfig promises its callers (spec.md 4.5 and 6), with no *)
(* lookups, files or HTTP: a request is answered once; the answer is an   *)
(* error only after a failed refresh of the store or once the app has left *)
(* the bus; any other answer is the json of the app's active policy       *)
(* (spec.md 4.3) under the store as it is when the answer is sent.  A    *)
(* request about the daemon itself is answered at once with its own       *)
(* policy.  The store is replaced only by a refresh, as a whole, by any   *)
(* table keyed by policy id.                                               *)
(***************************************************************************)
EXTENDS PolicySelection

CONSTANTS
    Requests,       \* GetPolicyConfig calls
    Peers,          \* bus peers
    Self,           \* the daemon's own name
    Candidates,     \* [Peers -> Seq(tokens)]: the app's valid identity tokens
    DefaultPolicy,  \* the default policy
    SelfReply,      \* the json of the daemon's own policy
    ErrorReply,     \* an error reply
    NoPeer, NoReply \* the app and reply of a request not yet made or answered

VARIABLES
    store,          \* policy id -> policy [id, json]
    present,        \* peers still on the bus
    req             \* request -> [st, app, reply]

vars == <<store, present, req>>

(* A policy table: every entry is filed under its own id.                  *)
IsStore(s) == \A i \in DOMAIN s : s[i].id = i

Init ==
    /\ IsStore(store)
    /\ present = Peers
    /\ req = [r \in Requests |-> [st |-> "idle", app |-> NoPeer, reply |-> NoReply]]

(* A caller asks for app's policy; the daemon's own is answered at once.   *)
Ask(r, app) ==
    /\ req[r].st = "idle"
    /\ req' = [req EXCEPT ![r] =
                 IF app = Self THEN [st |-> "done", app |-> app, reply |-> SelfReply]
                 ELSE [st |-> "pending", app |-> app, reply |-> NoReply]]
    /\ UNCHANGED <<store, present>>

(* The store is refreshed; a failed refresh may end one pending request    *)
(* with an error.                                                          *)
Refresh ==
    /\ IsStore(store')
    /\ \/ req' = req
       \/ \E r \in Requests :
            /\ req[r].st = "pending"
            /\ req' = [req EXCEPT ![r].st = "done", ![r].reply = ErrorReply]
    /\ UNCHANGED present

(* A pending request is answered: an error if its app has left, and       *)
(* otherwise the app's active policy under the current store.             *)
Answer(r) ==
    /\ req[r].st = "pending"
    /\ \E reply \in {ErrorReply,
                     SpecActivePolicy(Candidates[req[r].app], store, DefaultPolicy).json} :
         /\ reply = ErrorReply => req[r].app \notin present
         /\ req' = [req EXCEPT ![r].st = "done", ![r].reply = reply]
    /\ UNCHANGED <<store, present>>

(* A peer leaves the bus.                                                  *)
Leave(p) ==
    /\ p \in present
    /\ present' = present \ {p}
    /\ UNCHANGED <<store, req>>

Next ==
    \/ \E r \in Requests, a \in Peers : Ask(r, a)
    \/ Refresh
    \/ \E r \in Requests : Answer(r)
    \/ \E p \in Peers : Leave(p)

Spec == Init /\ [][Next]_vars
==============================================================================
