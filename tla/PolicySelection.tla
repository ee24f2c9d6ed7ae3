--------------------------- MODULE PolicySelection ---------------------------
(***************************************************************************)
(* Policy identifiers and the choice of an app's active policy             *)
(* (src/src/policy.c).  Pure operators, no state.                          *)
(*                                                                         *)
(* A policy id or identity token "<ns>:<name>" is the pair <<ns, name>>.   *)
(* The daemon builds tokens with the namespaces "selinux", "user" and      *)
(* "group"; policy files may carry any other id ("default:default", the    *)
(* empty id ""), which the pair <<ns, name>> with another ns stands for.   *)
(***************************************************************************)
EXTENDS Integers, Sequences, SequencesExt

CONSTANTS
    Names,        \* names a token can carry after "<ns>:"
    ValidNames    \* those the id regex accepts: g_regex_match is not
                  \* anchored, so a name that starts with a letter ("(null)",
                  \* printed from NULL, does not)

ASSUME ValidNames \subseteq Names

TokenNamespaces == {"selinux", "user", "group"}

Token(ns, name) == <<ns, name>>

(* is_valid_policy_id: the regex "(selinux|user|group):[a-zA-Z]+", found *)
(* anywhere in the id.                                                     *)
is_valid_policy_id(id) == id[1] \in TokenNamespaces /\ id[2] \in ValidNames

(* get_policy_priority: by the namespace prefix, -1 for any other id.     *)
get_policy_priority(id) ==
    CASE id[1] = "selinux" -> 2
      [] id[1] = "user"    -> 1
      [] id[1] = "group"   -> 0
      [] OTHER             -> -1

(* Variant: the search starts from priority 0 instead of -1.              *)
get_active_policy_from0(ids, idToPolicy, defaultPolicy) ==
    LET step(acc, id) ==
            IF get_policy_priority(id) > acc.max /\ id \in DOMAIN idToPolicy
            THEN [policy |-> idToPolicy[id], max |-> get_policy_priority(id)]
            ELSE acc
    IN  FoldLeft(step, [policy |-> defaultPolicy, max |-> 0], ids).policy

(***************************************************************************)
(* get_active_policy: walk the app's policy ids in order and keep a        *)
(* policy only when its priority is strictly above the best so far; fall   *)
(* back to the default policy.  idToPolicy is the id_to_policy table.      *)
(***************************************************************************)
get_active_policy(ids, idToPolicy, defaultPolicy) ==
    LET step(acc, id) ==
            IF get_policy_priority(id) > acc.max /\ id \in DOMAIN idToPolicy
            THEN [policy |-> idToPolicy[id], max |-> get_policy_priority(id)]
            ELSE acc
        found == FoldLeft(step, [policy |-> defaultPolicy, max |-> -1], ids)
    IN  found.policy

(***************************************************************************)
(* The rule as spec.md 4.3 states it: among the candidate tokens present   *)
(* in the store take the highest namespace priority, ties broken by first *)
(* occurrence; the default policy if none is present.                      *)
(***************************************************************************)
SpecActivePolicy(ids, idToPolicy, defaultPolicy) ==
    LET present == {i \in DOMAIN ids : ids[i] \in DOMAIN idToPolicy
                                       /\ ids[i][1] \in TokenNamespaces}
        best(i) == \A j \in present :
                       \/ get_policy_priority(ids[j]) < get_policy_priority(ids[i])
                       \/ get_policy_priority(ids[j]) = get_policy_priority(ids[i]) /\ i <= j
    IN  IF present = {} THEN defaultPolicy
        ELSE idToPolicy[ids[CHOOSE i \in present : best(i)]]
==============================================================================
