------------------------- MODULE MCPolicySelection --------------------------
(***************************************************************************)
(* Checks, from the bus daemon's answers to the policy an app gets, the   *)
(* chain selinux_cb -> user_cb -> pold_policy_watch_app ->               *)
(* get_active_policy against spec.md 4.3 and 4.5, for every SELinux       *)
(* answer of a bounded universe, every uid of a small passwd database and *)
(* every store over a small id universe.  load_policies replaces the      *)
(* table wholesale; here a reload differs from the last by one policy,    *)
(* which reaches every store with few successors per state.  The answer  *)
(* is fixed, as the app's ids are fixed when it is watched.                *)
(***************************************************************************)
EXTENDS Identity, FiniteSets

CONSTANTS OtherIds, Default, Uids

MCOtherIds == {<<"default", "alice">>}
MCDefault == <<"", "">>
(* uid 1000: alice, primary group 100 ("app"); uid 1001: app, primary    *)
(* group 7, which has no group entry; uid 1002: no passwd entry.           *)
MCPasswd == (1000 :> [name |-> "alice", gid |-> 100])
            @@ (1001 :> [name |-> "app", gid |-> 7])
MCGroups == 100 :> "app"

Ids == {Token(ns, n) : ns \in TokenNamespaces, n \in Names} \cup OtherIds

\* A policy is represented by its id here; the default policy by Default.
StoreOf(S) == [i \in S |-> i]

(* Contexts of up to five atoms: "app:app:app", "app::app", "::app\0",   *)
(* "app:app", and every other arrangement of one field text, separators   *)
(* and zero bytes.                                                         *)
Contexts ==
    {c \in BoundedSeq({"app", ":", Nul}, 5) :
        \A i \in 1..(Len(c) - 1) : ~(c[i] = "app" /\ c[i + 1] = "app")}

Answers == {ErrorAnswer, ContextAnswer("s", <<>>)}
           \cup {ContextAnswer("ay", c) : c \in Contexts}

VARIABLES idToPolicy, answer

vars == <<idToPolicy, answer>>

Init == /\ idToPolicy = StoreOf({})
        /\ answer \in Answers

\* load_policies: the table is cleared and refilled from the directory.
Reload == /\ \E i \in Ids :
              idToPolicy' = StoreOf((DOMAIN idToPolicy \ {i}) \cup ({i} \ DOMAIN idToPolicy))
          /\ UNCHANGED answer

Spec == Init /\ [][Reload]_vars

-----------------------------------------------------------------------------
(* The ids pold_policy_watch_app keeps from what user_cb passes.           *)
WatchedIds(a, uid) == SelectSeq(UserCbIds(selinux_cb(a), uid), is_valid_policy_id)

(***************************************************************************)
(* For every uid, the policy get_active_policy returns to an app whose    *)
(* ids come from selinux_cb and user_cb is the one spec.md 4.3 prescribes *)
(* for the candidates of spec.md 4.5: highest-priority present token,     *)
(* first occurrence on ties.                                               *)
(***************************************************************************)
ActiveSelectionMatchesSpec ==
    \A uid \in Uids :
        get_active_policy(WatchedIds(answer, uid), idToPolicy, Default)
            = SpecActivePolicy(SpecCandidates(answer, uid), idToPolicy, Default)
==============================================================================
