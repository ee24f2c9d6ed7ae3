-------------------------------- MODULE Pold --------------------------------
(***************************************************************************)
(* The policy daemon's core (src/src/policy.c, src/src/pold-manager.c):    *)
(* the policy store and its reload from the server, the agent and app      *)
(* registry with its disconnect watches, the GetPolicyConfig callback      *)
(* chain, and the push of changed policies to agents.                      *)
(*                                                                         *)
(* Everything runs on one GLib main loop, so each handler or callback is   *)
(* one atomic step; concurrency is the interleaving of bus replies, HTTP   *)
(* completions, peer disconnects and new method calls.  Bus peers are      *)
(* their unique-name serials N (":1.N"); a policy document is a record     *)
(* [id, body]; a policy is [id, json] where json is the document or        *)
(* NullJson (a NULL json string).                                            *)
(***************************************************************************)
EXTENDS Integers, Sequences, SequencesExt, FiniteSets, Functions, TLC,
        Identity

CONSTANTS
    Agents,         \* serials of agent connections
    AppOwners,      \* serials of app connections
    PoldName,       \* pold's own serial
    Paths,          \* object paths agents register on
    SelinuxAnswer,  \* [AppOwners -> answers]: the bus daemon's SELinux context reply
    Uid,            \* [AppOwners -> uids]: the bus daemon's GetConnectionUnixUser reply
    DefaultDoc,     \* DEFAULT_POLICY document
    OwnDoc,         \* OWN_POLICY document
    InitialDisk,    \* the *.policy files in POLICYDIR at start
    Responses,      \* what GET /update_policies may return with status 200
    Requests,       \* GetPolicyConfig calls the model issues
    MaxFetches,     \* bound on HTTP fetches
    SenderOutcomes, \* what owner_disconnect may read from its freed name
    InitialStale,   \* possible ages of POLICYDIR at start (stale or not)
    EmptyId, NoId, NullJson, NotArray, NotObject, None, ErrorReply

ASSUME /\ Agents \cap AppOwners = {} /\ PoldName \notin Agents \cup AppOwners
       /\ SenderOutcomes \subseteq {"intact", "garbage"} /\ SenderOutcomes # {}
       /\ InitialStale \subseteq BOOLEAN /\ InitialStale # {}

AppIds == Agents \X AppOwners          \* "agent_owner/app_owner"

VARIABLES
    store,          \* id_to_policy
    defaultPolicy,  \* default_policy (mutable: replace_id_if_empty)
    disk,           \* POLICYDIR: the i.policy files, in index order
    stale,          \* POLICYDIR mtime older than POLICY_TIMEOUT_IN_SECONDS
    objectPaths,    \* object_paths: agent -> path, None if absent
    apps,           \* app_id_to_app: id -> [inc, ids, pushed]
    idToApps,       \* id_to_apps: token -> set of app pointers <<id, inc>>
    updateApps,     \* update_apps: set of app pointers
    watches,        \* installed disconnect watches
    alive,          \* bus peers still connected
    reqs,           \* GetPolicyConfig contexts (struct config_data)
    fetches,        \* HTTP requests queued in the soup session
    nFetches,       \* fetches issued so far (bounded)
    nextInc,        \* next app allocation (tells a freed app from a new one)
    aborted,        \* the process died at a libdbus argument check
    uaf             \* history: places where a freed app struct was used

vars == <<store, defaultPolicy, disk, stale, objectPaths, apps, idToApps,
          updateApps, watches, alive, reqs, fetches, nFetches, nextInc,
          aborted, uaf>>

-----------------------------------------------------------------------------
(* Documents, policies and the policy directory.                           *)

Policy(doc) == [id |-> doc.id, json |-> doc]

RECURSIVE Digits(_)
Digits(n) == IF n < 10 THEN <<n>> ELSE Digits(n \div 10) \o <<n % 10>>

(* g_str_has_prefix(app->id, agent_owner) on "<agent>/<app>" ids.          *)
IdHasPrefix(appId, agent) == IsPrefix(Digits(agent), Digits(appId[1]))

(* load_policies after the table is cleared: files in readdir order, each  *)
(* replacing an entry with the same id; the first file without an "Id"    *)
(* string stops the load with the entries read so far left in place.      *)
RECURSIVE load_policies(_, _, _)
load_policies(files, order, st) ==
    IF order = <<>> THEN [ok |-> TRUE, store |-> st]
    ELSE LET d == files[Head(order)] IN
         IF d.id = NoId THEN [ok |-> FALSE, store |-> st]
         ELSE load_policies(files, Tail(order), (d.id :> Policy(d)) @@ st)

ReaddirOrders(files) == SetToSeqs(DOMAIN files)

(* save_policies: i.policy for each array element until the first one     *)
(* that is not an object; a response that is not an array saves nothing.  *)
SavedFiles(resp) ==
    IF resp = NotArray THEN <<>>
    ELSE LET bad == {i \in DOMAIN resp : resp[i] = NotObject}
         IN  IF bad = {} THEN resp ELSE SubSeq(resp, 1, Min(bad) - 1)

SaveFails(resp) ==
    IF resp = NotArray THEN TRUE ELSE \E i \in DOMAIN resp : resp[i] = NotObject

-----------------------------------------------------------------------------
(* The registry.                                                           *)

Ref(id) == <<id, apps[id].inc>>
LiveRef(r) == r[1] \in DOMAIN apps /\ apps[r[1]].inc = r[2]
Registered(agent) == objectPaths[agent] # None

ActivePolicy(id, st, dp) == get_active_policy(apps[id].ids, st, dp)

(* Variant: stop_watching_app that frees the app but forgets the          *)
(* g_slist_remove from its id lists.                                       *)
StopWatchingKeepLists(R) ==
    /\ idToApps' = idToApps
    /\ apps' = Restrict(apps, DOMAIN apps \ {r[1] : r \in R})

(* stop_watching_app for a set of live apps: drop each from the lists of  *)
(* its own ids, then from app_id_to_app (which frees it).                 *)
StopWatching(R) ==
    /\ idToApps' = [t \in DOMAIN idToApps |->
                      idToApps[t] \ {r \in R : t \in Range(apps[r[1]].ids)}]
    /\ apps' = Restrict(apps, DOMAIN apps \ {r[1] : r \in R})

(* fill_apps_to_remove: every app on any id list whose id has the agent's *)
(* name as a string prefix.                                               *)
FillAppsToRemove(agent) ==
    {r \in UNION Range(idToApps) : IdHasPrefix(r[1], agent)}

(* pold_remove_agent_apps.                                                 *)
RemoveAgentApps(agent) ==
    LET R == FillAppsToRemove(agent) IN
    /\ StopWatching({r \in R : LiveRef(r)})
    /\ uaf' = uaf \cup (IF \E r \in R : ~LiveRef(r) THEN {"cleanup"} ELSE {})

(* mark_update_apps: the table is emptied, then every app whose active    *)
(* policy json differs from the one its agent was last sent is added.     *)
MarkUpdateApps(st, dp) ==
    {Ref(id) : id \in {i \in DOMAIN apps :
                          apps[i].pushed # ActivePolicy(i, st, dp).json}}

(***************************************************************************)
(* pold_manager_update_agent for an agent with no object path passes NULL *)
(* to dbus_message_new_method_call.  libdbus's path != NULL check is      *)
(* fatal by default and aborts the process (were it not, the NULL message *)
(* would reach dbus_message_unref at error_nomem, which checks again).    *)
(* Its -ENOMEM return needs an allocation failure, which is not modelled. *)
(***************************************************************************)
UpdateAgentAborts(agent) == ~Registered(agent)

(***************************************************************************)
(* update_agent_policies: iterate update_apps in hash order, send Update   *)
(* and record the sent json in agent_policy_json.  Whatever the order, the *)
(* process dies on reaching an app whose agent has no object path; its     *)
(* memory is then of no account, so only the abort is recorded.  A freed   *)
(* app on the list is dereferenced (uaf).                                  *)
(***************************************************************************)
UpdateAgentPolicies(U, st, dp) ==
    LET live == {r \in U : LiveRef(r)}
    IN  /\ IF \E r \in live : UpdateAgentAborts(r[1][1])
           THEN aborted' = TRUE /\ apps' = apps
           ELSE /\ UNCHANGED aborted
                /\ apps' = [id \in DOMAIN apps |->
                             IF Ref(id) \in live
                             THEN [apps[id] EXCEPT !.pushed = ActivePolicy(id, st, dp).json]
                             ELSE apps[id]]
        /\ uaf' = uaf \cup (IF \E r \in U : ~LiveRef(r) THEN {"push"} ELSE {})

-----------------------------------------------------------------------------
(* Initial state: pold_policy_init, pold_manager_init.  The daemon exits  *)
(* if loading POLICYDIR fails, so only successful loads start it.          *)

Init ==
    /\ \E o \in ReaddirOrders(InitialDisk) :
          LET loaded == load_policies(InitialDisk, o, <<>>) IN
          loaded.ok /\ store = loaded.store
    /\ defaultPolicy = Policy(DefaultDoc)
    /\ disk = InitialDisk
    /\ stale \in InitialStale
    /\ objectPaths = [a \in Agents |-> None]
    /\ apps = <<>>
    /\ idToApps = <<>>
    /\ updateApps = {}
    /\ watches = {}
    /\ alive = Agents \cup AppOwners \cup {PoldName}
    /\ reqs = [r \in Requests |-> [st |-> "idle", agent |-> None, app |-> None,
                                   label |-> NullStr, uidOk |-> FALSE,
                                   reply |-> None]]
    /\ fetches = {}
    /\ nFetches = 0
    /\ nextInc = 0
    /\ aborted = FALSE
    /\ uaf = {}

-----------------------------------------------------------------------------
(* Time passes: POLICYDIR becomes older than the 10 s threshold.          *)
Tick ==
    /\ ~stale
    /\ stale' = TRUE
    /\ UNCHANGED <<store, defaultPolicy, disk, objectPaths, apps, idToApps,
                   updateApps, watches, alive, reqs, fetches, nFetches,
                   nextInc, aborted, uaf>>

(* pold_http_client_update_policies: the GET of UPDATE_URL is queued on   *)
(* the soup session with its callback data; the fetch is told apart by    *)
(* its number.                                                             *)
pold_http_client_update_policies(req) ==
    /\ fetches' = fetches \cup {[n |-> nFetches, req |-> req]}
    /\ nFetches' = nFetches + 1

(* pold_policy_update_from_server: update_policies_cb_data around the      *)
(* caller's callback, then the HTTP request.                               *)
StartFetch(req) ==
    /\ nFetches < MaxFetches
    /\ pold_http_client_update_policies(req)

(***************************************************************************)
(* pold_fdo_dbus_get_connection_selinux_context: the call to the bus       *)
(* daemon is sent, and the request waits for                               *)
(* get_connection_selinux_context_reply, which runs selinux_cb.  Both      *)
(* callers ignore its error return; the model has no allocation failure,   *)
(* and pold's connection does not close while the loop runs.               *)
(***************************************************************************)
pold_fdo_dbus_get_connection_selinux_context(data) == [data EXCEPT !.st = "label"]

(* SIGUSR2: signal_update starts a fetch with no callback.                 *)
SignalUpdate ==
    /\ StartFetch(None)
    /\ UNCHANGED <<store, defaultPolicy, disk, stale, objectPaths, apps,
                   idToApps, updateApps, watches, alive, reqs, nextInc,
                   aborted, uaf>>

(***************************************************************************)
(* pold_manager_get_policy_config: the request for pold's own name is     *)
(* answered at once with the own policy; otherwise a stale POLICYDIR      *)
(* starts a server update, a fresh one the SELinux lookup.                *)
(***************************************************************************)
GetPolicyConfig(r, agent, app) ==
    /\ reqs[r].st = "idle"
    /\ agent \in alive
    /\ LET base == [reqs[r] EXCEPT !.agent = agent, !.app = app] IN
       \/ /\ app = PoldName
          /\ reqs' = [reqs EXCEPT ![r] = [base EXCEPT !.st = "done",
                                            !.reply = Policy(OwnDoc).json]]
          /\ UNCHANGED <<fetches, nFetches>>
       \/ /\ app # PoldName /\ stale
          /\ StartFetch(r)
          /\ reqs' = [reqs EXCEPT ![r] = [base EXCEPT !.st = "sync"]]
       \/ /\ app # PoldName /\ ~stale
          /\ reqs' = [reqs EXCEPT ![r] = pold_fdo_dbus_get_connection_selinux_context(base)]
          /\ UNCHANGED <<fetches, nFetches>>
    /\ UNCHANGED <<store, defaultPolicy, disk, stale, objectPaths, apps,
                   idToApps, updateApps, watches, alive, nextInc, aborted, uaf>>

(* Variant: update_from_server_cb that sends the error reply but then     *)
(* goes on to the SELinux lookup (a missing goto).                         *)
FromServerCbNoReturn(req, error) ==
    IF req = None THEN reqs' = reqs
    ELSE IF error
         THEN reqs' = [reqs EXCEPT ![req].st = "label", ![req].reply = ErrorReply]
         ELSE reqs' = [reqs EXCEPT ![req].st = "label"]

(* update_from_server_cb: an error ends the request with an error reply;  *)
(* success goes on to the SELinux lookup.                                 *)
FromServerCb(req, error) ==
    IF req = None THEN reqs' = reqs
    ELSE IF error
         THEN reqs' = [reqs EXCEPT ![req].st = "done", ![req].reply = ErrorReply]
         ELSE reqs' = [reqs EXCEPT ![req] = pold_fdo_dbus_get_connection_selinux_context(@)]

(* delete_all_policies: unlink every *.policy file; the directory mtime  *)
(* changes when there was one to unlink.                                  *)
delete_all_policies == disk # <<>>

(***************************************************************************)
(* update_policies_cb, for the body of the HTTP response (None when the   *)
(* status was not 200): delete the *.policy files, save the response,     *)
(* load the directory, mark and update the apps, then call the            *)
(* requester's callback with the error.  Writing a file renews the mtime. *)
(***************************************************************************)
UpdatePoliciesCb(f, resp) ==
    \/ /\ resp = None
       /\ FromServerCb(f.req, TRUE)
       /\ UNCHANGED <<store, disk, stale, apps, updateApps, aborted, uaf>>
    \/ /\ resp # None
       /\ LET files == SavedFiles(resp) IN
          /\ disk' = files
          /\ stale' = (stale /\ ~delete_all_policies /\ files = <<>>)
          /\ \/ /\ SaveFails(resp)
                /\ FromServerCb(f.req, TRUE)
                /\ UNCHANGED <<store, apps, updateApps, aborted, uaf>>
             \/ /\ ~SaveFails(resp)
                /\ \E o \in ReaddirOrders(files) :
                     LET loaded == load_policies(files, o, <<>>) IN
                     /\ store' = loaded.store
                     /\ IF loaded.ok
                        THEN LET U == MarkUpdateApps(loaded.store, defaultPolicy)
                             IN /\ updateApps' = U
                                /\ UpdateAgentPolicies(U, loaded.store, defaultPolicy)
                        ELSE UNCHANGED <<apps, updateApps, aborted, uaf>>
                     /\ FromServerCb(f.req, ~loaded.ok)

(* soup_session_queue_message_cb: a queued GET completes, with the joined *)
(* body if the status is 200 and NULL otherwise.                          *)
HttpComplete(f) ==
    /\ f \in fetches
    /\ fetches' = fetches \ {f}
    /\ \E resp \in Responses \cup {None} : UpdatePoliciesCb(f, resp)
    /\ UNCHANGED <<defaultPolicy, objectPaths, idToApps, watches, alive,
                   nFetches, nextInc>>

(* Variant: selinux_cb that returns on a failed lookup instead of going    *)
(* on to the uid lookup.                                                   *)
SelinuxCbStopOnError(r) ==
    /\ reqs[r].st = "label"
    /\ reqs[r].app \in alive
    /\ reqs' = [reqs EXCEPT ![r].st = "user", ![r].label = selinux_cb(SelinuxAnswer[reqs[r].app])]
    /\ UNCHANGED <<store, defaultPolicy, disk, stale, objectPaths, apps,
                   idToApps, updateApps, watches, alive, fetches, nFetches,
                   nextInc, aborted, uaf>>

(* selinux_cb: a failed lookup means no label; then ask for the uid.      *)
(* The bus daemon answers for a peer that is still connected.              *)
SelinuxCb(r) ==
    /\ reqs[r].st = "label"
    /\ reqs' = [reqs EXCEPT ![r].st = "user",
                            ![r].label = IF reqs[r].app \in alive
                                         THEN selinux_cb(SelinuxAnswer[reqs[r].app])
                                         ELSE selinux_cb(ErrorAnswer)]
    /\ UNCHANGED <<store, defaultPolicy, disk, stale, objectPaths, apps,
                   idToApps, updateApps, watches, alive, fetches, nFetches,
                   nextInc, aborted, uaf>>

(* The bus daemon answers GetConnectionUnixUser: an error once the app has *)
(* gone.  The answer then waits in pold's queue.                           *)
UnixUserAnswered(r) ==
    /\ reqs[r].st = "user"
    /\ reqs' = [reqs EXCEPT ![r].st = "uid", ![r].uidOk = reqs[r].app \in alive]
    /\ UNCHANGED <<store, defaultPolicy, disk, stale, objectPaths, apps,
                   idToApps, updateApps, watches, alive, fetches, nFetches,
                   nextInc, aborted, uaf>>

(* The ids user_cb passes: "selinux:<type>" if known, "user:<name>",      *)
(* "group:<name>".                                                        *)
ConfigIds(req) ==
    UserCbIds(req.label, Uid[req.app])

(* add_app: append the app to the id_to_apps list of each of its ids,     *)
(* creating the list on first use.                                         *)
AddApp(ref, valid) ==
    [t \in DOMAIN idToApps \cup Range(valid) |->
        (IF t \in DOMAIN idToApps THEN idToApps[t] ELSE {})
        \cup (IF t \in Range(valid) THEN {ref} ELSE {})]

(***************************************************************************)
(* pold_policy_watch_app: nothing if the app id is known; otherwise a new  *)
(* app with the valid ids, each added to its id_to_apps list (add_app),   *)
(* remembering the active policy json, and a disconnect watch on the app. *)
(* A watch added for a name that has already left never fires.            *)
(***************************************************************************)
WatchApp(agent, owner, ids) ==
    LET id == <<agent, owner>>
        valid == SelectSeq(ids, is_valid_policy_id)
        ref == <<id, nextInc>>
    IN IF id \in DOMAIN apps
       THEN UNCHANGED <<apps, idToApps, watches, nextInc>>
       ELSE /\ apps' = (id :> [inc |-> nextInc, ids |-> valid,
                               pushed |-> get_active_policy(valid, store,
                                                            defaultPolicy).json])
                       @@ apps
            /\ idToApps' = AddApp(ref, valid)
            /\ watches' = watches \cup
                            (IF owner \in alive
                             THEN {[kind |-> "app", name |-> owner, ref |-> ref]}
                             ELSE {})
            /\ nextInc' = nextInc + 1

(* replace_id_if_empty: json_string() wraps the json text as a string,    *)
(* json_object_set on it fails and json_dumps of a non-container returns  *)
(* NULL, so the policy gets the user token as id and a NULL json.         *)
ReplaceIdIfEmpty(policy, user) ==
    IF policy.id = EmptyId THEN [id |-> user, json |-> NullJson] ELSE policy

(***************************************************************************)
(* user_cb: a failed uid lookup ends with an error reply; otherwise watch *)
(* the app, take its active policy, fill an empty id, and reply.  Only    *)
(* the default policy can have an empty id, so only it is ever rewritten. *)
(***************************************************************************)
UserCb(r) ==
    LET req == reqs[r] IN
    /\ req.st = "uid"
    /\ \/ /\ ~req.uidOk
          /\ reqs' = [reqs EXCEPT ![r].st = "done", ![r].reply = ErrorReply]
          /\ UNCHANGED <<defaultPolicy, apps, idToApps, watches, nextInc>>
       \/ /\ req.uidOk
          /\ WatchApp(req.agent, req.app, ConfigIds(req))
          /\ LET id == <<req.agent, req.app>>
                 ids == IF id \in DOMAIN apps THEN apps[id].ids
                        ELSE SelectSeq(ConfigIds(req), is_valid_policy_id)
                 policy == get_active_policy(ids, store, defaultPolicy)
                 sent == ReplaceIdIfEmpty(policy, Token("user", PrintfS(get_user(Uid[req.app]))))
             IN /\ defaultPolicy' = IF policy = defaultPolicy THEN sent
                                    ELSE defaultPolicy
                /\ reqs' = [reqs EXCEPT ![r].st = "done", ![r].reply = sent.json]
    /\ UNCHANGED <<store, disk, stale, objectPaths, updateApps, alive, fetches,
                   nFetches, uaf, aborted>>

(* pold_manager_register_agent: refused (no reply) when the agent already *)
(* has a path; otherwise store the path and watch the agent's name.       *)
RegisterAgent(agent, path) ==
    /\ agent \in alive
    /\ ~Registered(agent)
    /\ objectPaths' = [objectPaths EXCEPT ![agent] = path]
    /\ watches' = watches \cup {[kind |-> "agent", name |-> agent, ref |-> None]}
    /\ UNCHANGED <<store, defaultPolicy, disk, stale, apps, idToApps,
                   updateApps, alive, reqs, fetches, nFetches, nextInc, aborted, uaf>>

(* pold_manager_unregister_agent: the path must equal the stored one      *)
(* (an error reply otherwise); drop it and the agent's apps.  The         *)
(* agent's disconnect watch stays installed.                               *)
UnregisterAgent(agent, path) ==
    /\ agent \in alive
    /\ objectPaths[agent] = path
    /\ objectPaths' = [objectPaths EXCEPT ![agent] = None]
    /\ RemoveAgentApps(agent)
    /\ UNCHANGED <<store, defaultPolicy, disk, stale, updateApps, watches,
                   alive, reqs, fetches, nFetches, nextInc, aborted>>

(***************************************************************************)
(* A peer leaves the bus: NameOwnerChanged runs every watch on its name.   *)
(* owner_disconnect reads the agent name through the sender pointer of    *)
(* the RegisterAgent message, long since unreferenced: it still reads the *)
(* name ("intact") or reads other bytes that match no agent ("garbage").  *)
(* stop_watching_app runs on the app pointer it was given, which may have *)
(* been freed by an agent cleanup.                                         *)
(***************************************************************************)
Disconnect(n) ==
    LET fired == {w \in watches : w.name = n}
        appRefs == {w.ref : w \in {x \in fired : x.kind = "app"}}
        agentWatch == \E w \in fired : w.kind = "agent"
        freed == IF \E r \in appRefs : ~LiveRef(r) THEN {"app_watch"} ELSE {}
    IN
    /\ n \in alive \ {PoldName}
    /\ alive' = alive \ {n}
    /\ watches' = watches \ fired
    /\ \/ /\ ~agentWatch
          /\ StopWatching({r \in appRefs : LiveRef(r)})
          /\ uaf' = uaf \cup freed
          /\ UNCHANGED objectPaths
       \/ /\ agentWatch
          /\ \E outcome \in SenderOutcomes :
               IF outcome = "intact"
               THEN /\ objectPaths' = [objectPaths EXCEPT ![n] = None]
                    /\ RemoveAgentApps(n)
               ELSE UNCHANGED <<objectPaths, apps, idToApps, uaf>>
    /\ UNCHANGED <<store, defaultPolicy, disk, stale, updateApps, reqs,
                   fetches, nFetches, nextInc, aborted>>

-----------------------------------------------------------------------------
(* Nothing runs once the process has aborted.                              *)
Next ==
    /\ ~aborted
    /\ \/ Tick
       \/ SignalUpdate
       \/ \E r \in Requests, a \in Agents, o \in AppOwners \cup {PoldName} :
             GetPolicyConfig(r, a, o)
       \/ \E f \in fetches : HttpComplete(f)
       \/ \E r \in Requests : SelinuxCb(r) \/ UnixUserAnswered(r) \/ UserCb(r)
       \/ \E a \in Agents, p \in Paths : RegisterAgent(a, p) \/ UnregisterAgent(a, p)
       \/ \E n \in Agents \cup AppOwners : Disconnect(n)

(***************************************************************************)
(* The bus daemon answers every method call, and libdbus turns a missing  *)
(* answer into a timeout error reply, so every bus lookup completes.  The *)
(* soup session has no timeout: an HTTP fetch need not complete.           *)
(***************************************************************************)
Fairness ==
    \A r \in Requests : /\ WF_vars(~aborted /\ SelinuxCb(r))
                        /\ WF_vars(~aborted /\ UnixUserAnswered(r))
                        /\ WF_vars(~aborted /\ UserCb(r))

Spec == Init /\ [][Next]_vars /\ Fairness

-----------------------------------------------------------------------------
(* Properties.                                                             *)

Jsons == {Policy(d).json : d \in Range(InitialDisk) \cup {DefaultDoc, OwnDoc}}
         \cup UNION {Range(SavedFiles(x)) : x \in Responses} \cup {NullJson}

(* struct pold_agent_app: the id is the key of app_id_to_app; policy_ids *)
(* holds valid tokens only; agent_policy_json is the policy last pushed.   *)
(* inc tells one allocation of the struct from a later one.                *)
pold_agent_app ==
    [inc : Nat, ids : Seq(TokenNamespaces \X ValidNames), pushed : Jsons]

(* struct config_data: pending is the call still to be answered (st, and  *)
(* reply once answered), agent_owner, app_owner, selinux, and uid/gid,     *)
(* of which the model keeps whether the uid lookup succeeded.              *)
config_data ==
    [st    : {"idle", "sync", "label", "user", "uid", "done"},
     agent : Agents \cup {None},
     app   : AppOwners \cup {PoldName, None},
     label : {NullStr} \cup {selinux_cb(a) : a \in Range(SelinuxAnswer) \cup {ErrorAnswer}},
     uidOk : BOOLEAN,
     reply : Jsons \cup {None, ErrorReply}]

TypeOK ==
    /\ DOMAIN store \subseteq {d.id : d \in Range(InitialDisk)}
                               \cup UNION {{d.id : d \in Range(SavedFiles(x))} : x \in Responses}
    /\ disk \in Seq(UNION {Range(SavedFiles(x)) : x \in Responses} \cup Range(InitialDisk))
    /\ stale \in BOOLEAN
    /\ objectPaths \in [Agents -> Paths \cup {None}]
    /\ DOMAIN apps \subseteq AppIds
    /\ \A id \in DOMAIN apps : apps[id] \in pold_agent_app /\ apps[id].inc < nextInc
    /\ \A t \in DOMAIN idToApps : is_valid_policy_id(t) /\ idToApps[t] \subseteq AppIds \X Nat
    /\ updateApps \subseteq AppIds \X Nat
    /\ alive \subseteq Agents \cup AppOwners \cup {PoldName} /\ PoldName \in alive
    /\ \A r \in Requests :
          /\ reqs[r] \in config_data
          /\ (reqs[r].st = "done") <=> (reqs[r].reply # None)
    /\ \A f \in fetches : f.n < nFetches /\ f.req \in Requests \cup {None}
    /\ nFetches \in 0..MaxFetches
    /\ aborted \in BOOLEAN
    /\ uaf \subseteq {"cleanup", "push", "app_watch"}

(***************************************************************************)
(* The id_to_apps lists and app_id_to_app agree through every watch,      *)
(* unregister and disconnect cleanup: a token's list holds exactly the    *)
(* live apps that have the token (spec.md 3, "kept consistent by          *)
(* construction"); a freed app left on a list is later dereferenced by    *)
(* fill_apps_to_remove.                                                    *)
(***************************************************************************)
IndexConsistency ==
    /\ \A id \in DOMAIN apps : Range(apps[id].ids) \subseteq DOMAIN idToApps
    /\ \A t \in DOMAIN idToApps :
          idToApps[t] = {Ref(id) : id \in {i \in DOMAIN apps : t \in Range(apps[i].ids)}}

(***************************************************************************)
(* user_cb rewrites the default policy's empty id to the first caller's   *)
(* user token once and never again (spec.md 4.5: "permanently retitled"). *)
(***************************************************************************)
(* Every GetPolicyConfig that reached the identity lookups gets a reply:  *)
(* a failed SELinux lookup still goes on to the uid lookup, and a failed  *)
(* uid lookup still answers with an error.                                *)
(***************************************************************************)
LookupsAnswered ==
    \A r \in Requests :
        reqs[r].st \in {"label", "user", "uid"} ~> reqs[r].reply # None

(***************************************************************************)
(* When an agent's registration ends (UnregisterAgent or its disconnect   *)
(* watch), the apps of every other agent stay (spec.md 4.4 and 9: the     *)
(* cascade matches the exact agent segment, not a string prefix).         *)
(***************************************************************************)
UnregisterSparesOtherAgents ==
    [][\A a \in Agents :
         (Registered(a) /\ ~Registered(a)')
            => \A id \in DOMAIN apps : id[1] # a => id \in DOMAIN apps']_vars

(***************************************************************************)
(* An app's disconnect watch never runs stop_watching_app on an app that  *)
(* an agent cleanup has already freed.                                    *)
(***************************************************************************)
NoFreedAppWatchFired == "app_watch" \notin uaf

(***************************************************************************)
(* Every app in app_id_to_app belongs to a connected peer: an app that    *)
(* leaves the bus is removed by its disconnect watch, also when it leaves *)
(* while its GetPolicyConfig lookups are still outstanding (spec.md 5).   *)
(***************************************************************************)
AppOwnersAlive == \A id \in DOMAIN apps : id[2] \in alive

(***************************************************************************)
(* Every registered agent is connected: owner_disconnect drops the object *)
(* path of an agent that leaves the bus.                                  *)
(***************************************************************************)
RegistrationsLive == \A a \in Agents : Registered(a) => a \in alive

(***************************************************************************)
(* agent_policy_json is what the agent last received for the app, so a    *)
(* reload pushes exactly the apps whose agent holds an outdated policy    *)
(* (spec.md 3, last_pushed_content), across GetPolicyConfig replies and   *)
(* Update pushes alike.                                                    *)
(***************************************************************************)
(* The daemon never dies while pushing policy updates.  spec.md 4.4        *)
(* (push_updates) has a delivery failure leave the rest of the cycle       *)
(* unpushed and return non-zero, and spec.md 7 treats state errors without *)
(* a crash.  update_agent_policies reaches pold_manager_update_agent for   *)
(* an app whose agent has no object path when the agent asked for a       *)
(* policy without registering, or unregistered after.                     *)
(***************************************************************************)
NoPushAbort == ~aborted

(***************************************************************************)
(* Every successful GetPolicyConfig reply carries a policy document       *)
(* (spec.md 4.5: the reply carries the policy with id user:<name>).        *)
(***************************************************************************)
ReplyCarriesPolicy == \A r \in Requests : reqs[r].reply # NullJson

(***************************************************************************)
(* The store only ever changes to the complete load of the policy        *)
(* directory: a failed reload leaves the previous set intact (spec.md    *)
(* 4.3 reload, 8 "Reload failure").                                       *)
(***************************************************************************)
ReloadAtomic ==
    [][store' # store =>
         \E o \in ReaddirOrders(disk') :
            load_policies(disk', o, <<>>) = [ok |-> TRUE, store |-> store']]_vars

===========================================================================================================================================================
