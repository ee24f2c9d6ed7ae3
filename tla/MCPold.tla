------------------------------- MODULE MCPold -------------------------------
(***************************************************************************)
(* Model-checking instance of Pold.  Agents 1 and 10 (":1.1" is a string  *)
(* prefix of ":1.10"); app 3 has a SELinux type, a user and a group that  *)
(* all map to valid tokens; app 4 has no passwd or group entry, so every  *)
(* token built for it is "(null)" and invalid.                            *)
(***************************************************************************)
EXTENDS Pold

sel   == Token("selinux", "app")
alice == Token("user", "alice")
eng   == Token("group", "eng")

(* App 3 runs as uid 1000 under the context "u:r:app:s0"; app 4 runs as *)
(* uid 1002, which has no passwd entry, and its SELinux lookup fails.     *)
MCSelinuxAnswer == (3 :> ContextAnswer("ay", <<"u", ":", "r", ":", "app", ":", "s0">>))
                   @@ (4 :> ErrorAnswer)
MCUid    == (3 :> 1000) @@ (4 :> 1002)
MCPasswd == 1000 :> [name |-> "alice", gid |-> 100]
MCGroups == 100 :> "eng"

MCDefaultDoc == [id |-> EmptyId, body |-> 0]
(* The default policy file of the test suite carries an id. *)
MCNamedDefaultDoc == [id |-> Token("default", "default"), body |-> 0]
MCOwnDoc     == [id |-> EmptyId, body |-> 9]
MCEmptyId    == <<"", "">>

groupV1 == [id |-> eng, body |-> 1]
groupV2 == [id |-> eng, body |-> 2]
userV1  == [id |-> alice, body |-> 1]
noId    == [id |-> NoId, body |-> 1]

MCInitialDisk == <<groupV1>>

(* Server answers: a changed set, a set with a document lacking "Id"     *)
(* (saved, then refused by load_policy), and a body that is not a JSON    *)
(* array (refused by save_policies).                                      *)
MCResponses == { <<userV1, groupV2>>, <<groupV2, noId>>, NotArray }

MCSymmetry == Permutations(Requests)

-----------------------------------------------------------------------------
(***************************************************************************)
(* Refinement of the request service.  An app's candidates are the tokens *)
(* spec.md 4.5 names for its SELinux context and uid (SpecCandidates).  A *)
(* request is pending from the call to user_cb, through the sync and both *)
(* lookups.  The daemon's disappearance is not a step of the model.        *)
(***************************************************************************)
MCCandidates ==
    [p \in Agents \cup AppOwners \cup {PoldName} |->
        IF p \in AppOwners THEN SpecCandidates(SelinuxAnswer[p], Uid[p]) ELSE <<>>]

ServiceStage(st) == IF st \in {"idle", "done"} THEN st ELSE "pending"

Service == INSTANCE PolicyService
    WITH Peers <- Agents \cup AppOwners \cup {PoldName}, Self <- PoldName,
         Candidates <- MCCandidates, DefaultPolicy <- Policy(DefaultDoc),
         SelfReply <- Policy(OwnDoc).json, NoPeer <- None, NoReply <- None,
         present <- alive,
         req <- [r \in Requests |-> [st |-> ServiceStage(reqs[r].st),
                                     app |-> reqs[r].app, reply |-> reqs[r].reply]]

(* Every behaviour of the daemon is one of the request service: each      *)
(* GetPolicyConfig (pold_manager_get_policy_config through user_cb) is     *)
(* answered once, with an error only after a failed update_policies_cb or *)
(* a failed uid lookup of a departed app, and otherwise with the active   *)
(* policy under the store at the time of the reply.                        *)
ServiceRefinement == Service!Spec
==============================================================================
