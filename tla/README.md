# TLA+ models of pold

pold decides which network-access policy applies to an application. It
resolves the caller's identity (SELinux type, user, group) and keeps agent
processes informed when that policy changes. This directory holds TLA+
models of its policy core (`src/src/policy.c`, `src/src/pold-manager.c`),
its identity lookups, its JSON codec, its process start and shutdown
(`src/src/main.c`) and its ConnMan session, together with the TLC
configurations that check them.

## The system

All of pold runs on one GLib main loop. Every D-Bus handler, D-Bus reply
callback, disconnect watch, soup callback and signal handler runs to
completion before the next one starts. The only concurrency is therefore the
order in which these events are delivered:

* **Policy store** (`policy.c`). It has four tables:
  * `id_to_policy`, loaded from the `*.policy` files in `POLICYDIR`;
  * `id_to_apps` (token → list of apps);
  * `app_id_to_app`;
  * `update_apps`.

  A server update (`update_policies_cb`) runs these steps in order:
  1. deletes every policy file;
  2. saves the HTTP response as `0.policy`, `1.policy`, …;
  3. clears the table and reloads it from the directory in `readdir` order;
  4. marks the apps whose active policy changed;
  5. pushes `Update` to their agents. An agent without an object path
     (one that asked for a policy without registering) makes libdbus abort
     the process.
* **Active policy selection** (`get_active_policy`). From an app's ids it
  takes the present policy with the highest namespace priority (selinux 2,
  user 1, group 0). A tie goes to the first id in the list. If no id is
  present, it returns the default policy.
* **Agent/App registry** (`pold_policy_watch_app`, `stop_watching_app`,
  `pold_remove_agent_apps`, `pold_manager_register_agent`,
  `pold_manager_unregister_agent`, `owner_disconnect`):
  * an app `"<agent>/<app>"` is created on its first GetPolicyConfig;
  * each app gets its own disconnect watch;
  * agents register an object path and get a disconnect watch that removes
    their apps.
* **Request orchestration** (`pold_manager_get_policy_config` →
  `update_from_server_cb` → `selinux_cb` → `user_cb`):
  * a request about pold itself is answered with pold's own policy;
  * if `POLICYDIR` is older than 10 s, a server update runs first;
  * then come the SELinux lookup and the uid lookup on the bus (`fdo-dbus.c`);
  * then the app is watched, its active policy is chosen, an empty id is
    filled in (`replace_id_if_empty`) and the reply is sent.
* **HTTP client** (`http-client.c`): queues a GET and passes the body (or NULL
  on a non-200 status) to the callback. No timeout is set.
* **Codec** (`dbus-json.c`): JSON → D-Bus signature inference and encoding.
  `pold_policy_append_to_message` (`policy.c:623`) uses it to put a policy's
  json text into every reply and every `Update`.
* **Process** (`main.c`):
  * `main` runs the init functions in order: options, bus, HTTP client, loop
    and signal handlers, policy store, manager, ConnMan notification
    object, session watch;
  * a failure jumps into a ladder of goto labels that finalises what came
    before;
  * `pold_policy_init` undoes its own partial work before returning an
    error;
  * SIGINT, SIGTERM and SIGHUP quit the loop, and the ladder then runs from
    its top;
  * SIGUSR2 starts a server update.
* **ConnMan session** (`session.c`, `connman-manager.c`,
  `connman-notification.c`, `dbus-common.c`):
  * a service watch on ConnMan's name calls `connman_appeared`, which sends
    `CreateSession` with an `a{sv}` of settings;
  * the reply's path is kept in `session_path`;
  * ConnMan calls `Release` and `Update` on pold's notification object;
  * nothing else in pold reads the session path or state.
* Logging is not modelled.

## Modules

| Module | Models |
|---|---|
| `Identity` | `parse_context`, the SELinux reply handler, `parse_selinux_type`, `selinux_cb`, `get_user`/`get_group`/`get_groupid` and the ids `user_cb` builds (`UserCbIds`); the spec's candidates `SpecCandidates` |
| `PolicySelection` | `is_valid_policy_id`, `get_policy_priority`, `get_active_policy` (a fold over the ids), and the spec's rule `SpecActivePolicy` |
| `MCPolicySelection` | checks the chain from the SELinux answer and the uid to the selected policy against `SpecActivePolicy` of `SpecCandidates` |
| `Pold` | store, directory, registry, requests, HTTP fetches, bus peers; one action per handler |
| `MCPold` | bus serials, identities, documents and server responses for TLC |
| `PolicyService` | the abstract request service: a store replaced only as a whole, peers leaving, and requests that are asked, then answered once |
| `DbusJson` | the codec: `get_array_type`, `json_value_to_dbus_type_signature` with `json_array_to_dbus_type_signature`, the `append_*` functions and the two entry points, as (RECURSIVE) operators from a JSON tree to a D-Bus value tree or `Abort`; also `Conforms`, libdbus's rule that a value matches the signature it was opened with |
| `MCDbusJson` | a bounded universe of JSON documents and a decoder of D-Bus values back to JSON |
| `Daemon` | `main`'s init steps and goto ladders, `signal_quit`, the init and final functions as the resources they take and free; the session watch, `CreateSession` (built with `dict_append_entry`), its reply, `Release`, `Update`, libdbus's reply timeout (`CallTimeout`); ConnMan as an environment |

How `Pold` represents the program:

**State**

* **Bus peers** are their unique-name serials N (`:1.N`). The agents are
  1 and 10, so `:1.1` is a string prefix of `:1.10`, and `IdHasPrefix` is
  `g_str_has_prefix` on the decimal digits.
* **Tokens** `"<ns>:<name>"` are pairs. `is_valid_policy_id` uses
  `g_regex_match`, which is not anchored. A name is therefore valid when it
  starts with a letter (`ValidNames`). `(null)`, printed by `user:%s` when
  `getpwuid` fails, is not.
* **Identity answers** (module `Identity`):
  * an app's SELinux reply is an error, or a method return with a
    signature and its bytes;
  * a security context is a sequence of atoms: field text, `":"` and a zero
    byte `Nul`;
  * an app's uid is looked up in small `Passwd` and `Groups` tables.
* **Policies** are `[id, json]`. The json is the document record, or
  `NullJson` after `replace_id_if_empty`.
* **Apps** are records `[inc, ids, pushed]`:
  * `pushed` is `agent_policy_json`;
  * `inc` tells an app from a later one with the same id, so a pointer is
    `<<id, inc>>`;
  * a pointer whose app is gone stands for freed memory.
* **History variables**:
  * `uaf` records where freed memory would be used (`app_watch`, `cleanup`,
    `push`);
  * `aborted` records that the process died at libdbus's argument check in
    `pold_manager_update_agent` (a NULL object path).

**Nondeterminism**

* The order of `readdir` is unknown, so the load takes any order of the files
  (`ReaddirOrders`).
* A push reaches the whole of `update_apps` unless one of its agents has no
  object path. Then libdbus's fatal argument check in
  `dbus_message_new_method_call` aborts the process, modelled by the variable
  `aborted`, after which no action runs. The -ENOMEM return of
  `pold_manager_update_agent` needs an allocation failure and is not modelled.
* `owner_disconnect` reads a name through a pointer that dangles. The outcome
  is undefined behaviour, modelled as a choice between reading the name
  (`intact`) and reading garbage that matches no agent (`garbage`).

**Timing**

* "Older than 10 s" is the boolean `stale`. Time passing is `Tick`.
* `delete_all_policies` and every saved file renew the mtime, which clears
  `stale`.

**Actions**

* `GetPolicyConfig`, `HttpComplete` (`soup_session_queue_message_cb`),
  `UpdatePoliciesCb`, `SelinuxCb`, `UnixUserAnswered` (the bus daemon's
  answer), `UserCb`, `RegisterAgent`, `UnregisterAgent`, `Disconnect` (a
  peer leaves; every watch on its name runs), `SignalUpdate` (SIGUSR2),
  `Tick`.
* The outgoing calls are operators the actions use:
  `pold_http_client_update_policies` queues a fetch (through `StartFetch`,
  `pold_policy_update_from_server`), and
  `pold_fdo_dbus_get_connection_selinux_context` moves a request to the
  `label` stage. Their error returns are ignored by the callers, and
  allocation failure is not modelled (see Not modelled).
* `pold_agent_app` and `config_data` are the record sets of the two C
  structs; `TypeOK` holds every entry of `apps` and `reqs` to them. A
  request's `app` may be pold's own name, which is answered at once with
  the own policy.
* The SELinux answer and `selinux_cb` are one step. The step applies
  `selinux_cb` of `Identity` to the app's answer, or to an error reply once
  the app has left. The ids `user_cb` passes are `UserCbIds`.

**Refinement.** `MCPold` defines `Service == INSTANCE PolicyService WITH
...`. The mapping:

* the abstract store is `store`, and the peers present are `alive`;
* a request is `pending` in every stage from `sync` to `uid`, and its app and
  reply are those of `reqs`;
* the candidates of an app are the tokens of spec.md 4.5, with the invalid
  ones dropped.

The abstract answer uses the spec's selection rule (`SpecActivePolicy`), so
the run also checks `get_active_policy` in place. Under the mapping:

* `GetPolicyConfig` is `Ask`;
* `HttpComplete` is `Refresh`;
* `UserCb` is `Answer`;
* an app's `Disconnect` is `Leave`;
* every other step stutters.

The run uses the named default policy of the test suite (`MCNamedDefaultDoc`).
With the shipped empty-id default, `replace_id_if_empty` turns the default's
json into NULL (the `null_default_reply` finding), so no mapping can hold.
The abstract service makes no liveness promise, because the HTTP sync may
never complete.

How `DbusJson` represents the codec:

* A JSON value is a record whose `k` is its `json_typeof`, with one payload
  field per kind (`int`, `real`, `str`, `items`, `members`). An object's
  members are a sequence in iteration order.
* A `json_int_t` is a pair `<<hi, lo>>` standing for `hi * 2^31 + lo`, so
  64-bit values fit in TLC's integers. `ToInt` is the C conversion to a
  32-bit `int`: the value mod 2^32, read as signed.
* A D-Bus value is `[sig, t, v]`: its type code, the element or contained
  signature of a container or variant, and its payload.
* `assert(false)` is the model value `Abort`. The repository has no build
  files, so the model assumes asserts are compiled in (no `NDEBUG`) and a
  4-byte `int`, which makes the integer code `"i"`.

How `Daemon` represents the process and the session:

* `pc` is where `main` is. `acquired` and `released` are the histories, in
  order, of the resources the init functions take and the finalisers free:
  * `conn` and `name` (`g_dbus_setup_bus`);
  * `creds` and `soup` (`pold_http_client_init`);
  * `loop` and `signals`;
  * `tables`, `regex`, `default` and `own` (`pold_policy_init`);
  * `object_paths` (`pold_manager_init`);
  * `watch` (`pold_session_init`).
* Each init step is one action, with a nondeterministic outcome (in
  `pold_http_client_init`, which of its two calls fails).
* `TeardownSteps` lists the goto labels of `main` with what each releases:
  * `pold_policy_final` frees a policy only if its pointer was ever set, and
    never frees the regex;
  * `pold_http_client_final` never frees the soup session.

  `Ladder` is the release sequence from a label down.
* `inbox` is pold's connection: the bus delivers everything in the order it
  was sent. That covers NameOwnerChanged for the watch, the CreateSession
  reply, and ConnMan's Release and Update calls. A handler runs on the
  message at its head.
* ConnMan (`cm*` variables) starts, answers CreateSession, sends Update and
  Release, and stops. When it stops, the bus fails the calls it has not
  answered, and the watch sees the name vanish.
* `calls` counts pold's pending CreateSession calls, from the send until
  `create_session_cb` runs. `CallTimeout` is libdbus's default reply timeout
  (the `-1` of `dbus_connection_send_with_reply`). It fires for the oldest
  call ConnMan has not answered yet and queues a NoReply error. ConnMan
  still answers that call (`cmOrphans` counts such calls); the session it
  then creates has no reply that reaches pold.
* Session paths are `<<instance, n>>`, so that the sessions of two ConnMan
  instances stay apart.
* `update` changes nothing. Its loop looks for dict entries at the top level
  of the message, where the only argument is the `a{sv}` array itself.

## Runs

| Run | cfg | Expect | Shows |
|---|---|---|---|
| `policy_selection` | MCPolicySelection.cfg | pass | `ActiveSelectionMatchesSpec`: for every SELinux answer, uid and store, the policy selected from the ids `selinux_cb` and `user_cb` build is the one spec.md 4.3 and 4.5 prescribe |
| `core` | MCPold.cfg | pass | `TypeOK`, `IndexConsistency` |
| `lookups_answered` | MCPoldLive.cfg | pass | `LookupsAnswered` under weak fairness of bus replies; `ServiceRefinement`: `Pold` implements `PolicyService` |
| `prefix_overmatch` | MCPoldPrefix.cfg | violation | cleanup for `:1.1` removes the apps of `:1.10` |
| `orphaned_app` | MCPoldOrphan.cfg | violation | an app that left during its lookups stays registered |
| `dangling_sender` | MCPoldSender.cfg | violation | a departed agent stays registered |
| `push_abort` | MCPoldPushAbort.cfg | violation | `NoPushAbort`: an agent that asked for a policy without registering makes the next reload that changes that policy abort pold |
| `null_default_reply` | MCPoldNullReply.cfg | violation | the default policy's reply json is NULL |
| `partial_reload` | MCPoldPartialReload.cfg | violation | a failed reload leaves a partial store |
| `codec` | MCDbusJson.cfg | pass | `WellTyped`: every value written at every depth has the signature its array or variant was opened with; `RoundTripWithinInt`: a document whose integers fit an `int` reads back unchanged |
| `codec_null_abort` | MCDbusJsonNull.cfg | violation | a `null` member of a policy object reaches `assert(false)` |
| `daemon` | MCDaemon.cfg | pass | `TeardownMirrorsStartup`: along every start (each init function failing in turn, or the loop ending on a signal), each resource is released at most once, only if acquired, and in reverse order of acquisition. `ReleasedPathDropped`: pold never keeps a session path ConnMan has released, except while the `Release` is queued. `CreateSessionCompletes`: every CreateSession pold sends ends in `create_session_cb` (or the process exits), however ConnMan behaves; this rests on the reply timeout. |

Each violation is described in `PROJECT.json` under `findings`.

**Bounds** (MCPold)

* Two agents (1, 10), so that one is a prefix of the other.
* Two apps:
  * app 3 has the context `u:r:app:s0` and uid 1000 (user `alice`, group
    `eng`);
  * app 4's SELinux lookup fails, and its uid 1002 has no passwd entry, so
    all its tokens are invalid.
* One object path.
* Two symmetric GetPolicyConfig requests.
* At most two HTTP fetches. Two are needed for a reload after an app is
  subscribed, because the first request must sync.
* Three server responses:
  * a changed valid set;
  * a set containing a document with no `Id`;
  * a body that is not an array.
* With these bounds, two requests interleave through every stage, every
  cleanup path meets a live and a freed app, and each reload outcome happens
  before and after an app is subscribed.
* `core` covers 2.8 M distinct states in about 2 minutes.
* `lookups_answered` uses one request, two fetches (a SIGUSR2 reload can
  land before or after the request's own sync) and no symmetry, because
  symmetry is unsound for liveness.

**Bounds** (MCPolicySelection)

* The answers are:
  * an error;
  * a reply of the wrong signature;
  * every context of up to five atoms over `app`, `":"` and `Nul`.

  That is 260 answers, covering zero, one, two and three fields, empty
  fields, and zero bytes before, inside and after the type.
* The uids are 1000 (user and group), 1001 (a user whose primary group has
  no entry) and 1002 (no passwd entry).
* The stores are all 1024 stores over the tokens of three names (one of them
  invalid) plus one id of another namespace. Reloads add or drop one policy
  at a time, so every store is reached from every answer.
* 266,240 distinct states in about 10 s.

**Bounds** (MCDbusJson)

* The leaves are `true`, `false`, `null`, the integers 3 and 2^31, a real and
  a string.
* The documents are:
  * the leaves;
  * arrays of up to three leaves, so that a mismatch can sit in the last
    place, after two equal entries;
  * objects of up to two leaves;
  * arrays of up to two small containers, and objects holding one small
    container.
* That gives 544 documents. They include empty, one-entry, homogeneous and
  mixed arrays, nested arrays and objects, and `null` at every depth.
* `json_loads` is called without `JSON_DECODE_ANY`, so a top-level leaf
  appends nothing. `codec` takes all 544 documents; `codec_null_abort` takes
  only the top-level objects (`PolicyDocs`), the only documents `load_policy`
  keeps.

**Bounds** (MCDaemon)

* Every outcome of every init step.
* ConnMan can be on the bus at start or not. It comes onto the bus at most
  twice, so that it can crash and return.
* At most three messages are queued for pold. That is enough for a stale
  `appeared` to wait behind a departure and a return, and for a
  CreateSession reply to sit ahead of a Release.
* About 2,000 distinct states in about 2 s.

**Fairness**

* The bus daemon answers every method call, and libdbus turns a missing
  answer into a timeout error (`send_with_reply` with timeout -1 uses the
  default). So `SelinuxCb`, `UnixUserAnswered` and `UserCb` are weakly fair.
* In `Daemon`, pold's own steps (`PoldStep`: `main` and the handlers the
  loop dispatches) and `CallTimeout` are weakly fair: the loop keeps running
  its sources, and libdbus's timeout is one of them. ConnMan and the quit
  signals are the environment and get no fairness: ConnMan may never answer.
* The soup session has no timeout. HTTP completion therefore has no fairness,
  and a request in the sync stage may wait forever (listed as a hazard).

**Deadlock** checking is off. Once every request is done and every fetch is
used, pold waits for events that the bounds no longer allow. That is the
daemon's normal idle state. In `Daemon`, the process really ends once
`main` returns.

## Known issues not checked by a run

* **Stale `appeared` from the ConnMan watch** (`session.c:43`).
  1. ConnMan leaves and returns while its first NameOwnerChanged is still
     queued.
  2. The late `connman_appeared` sends a second `CreateSession`. The call
     goes to the name's new owner.
  3. That ConnMan then holds two sessions for pold.

  `Daemon!AtMostOneSession` states the property. Adding it to
  `MCDaemon.cfg` gives a 16-step counterexample. This rests on gdbus
  calling the connect callback for every NameOwnerChanged with a new owner,
  without re-checking the current owner.
* **Freed app passed to its disconnect watch** (`policy.c:613`).
  `Pold!NoFreedAppWatchFired` is violated when agent cleanup frees an app
  whose own disconnect watch later fires. The `uaf` variable records it.
* **`Update` never records the state** (`connman-notification.c:67`); see
  above. Nothing reads the state.
* **A timed-out CreateSession still creates a session**
  (`connman-manager.c:104`). When libdbus's timeout beats ConnMan's answer,
  `create_session_cb` records no session, but ConnMan holds one for pold and
  later sends its Update and Release. pold keeps no state of it that goes
  wrong: a `Release` of that session clears a path that is already NULL,
  unless a stale `appeared` gave pold a second session (above).
  `CreateSessionCompletes` and `ReleasedPathDropped` hold with the timeout
  in the model.

## Not modelled

* In the codec, the libdbus iterator calls and memory management. Each
  `open_container` / `append_basic` is a node of the value tree.
* What the codec does with an integer beyond 32 bits. It is truncated, as
  spec.md 4.1 records of the original, so only int-sized values are required
  to round-trip.
* The codec gives a one-entry array the signature `av`, which is a
  divergence from spec.md 4.1. Only signature/value agreement is checked,
  and the violation runs are kept for the defects with the widest effect.
* Allocation failures, and with them the error returns of
  `pold_fdo_dbus_get_connection_selinux_context` and
  `pold_fdo_dbus_get_connection_unix_user`. Their only other failure is a
  missing connection.
* Restart after a crash. A restart is `Daemon`'s start-up again, and
  there `pold_policy_init`'s `load_failed` outcome stands for a directory
  that does not load. The `partial_reload` trace shows how the running
  daemon leaves such a directory behind: a saved response whose document
  has no `Id`. Joining the two models would only restate that finding as a
  second violation.
* The order of concurrent fetches against a changing server. `Pold` draws
  every response independently, so a response applied after a later one is
  among its behaviours. A property about it needs server versions, and it
  would fail for the same reason: `update_policies_cb` applies whatever
  completes last.
* How `soup_session_queue_message_cb` joins the body chunks
  (`join_list`, `soup_buffer_to_string`). The model draws the joined body
  from the responses the server may send. An empty 200 body joins to NULL,
  which `update_policies_cb` treats like a failed request; that is the
  `None` response.
* The wire format and logging.
* gdbus (the watch and method-table library) is not in this repository.
  The watch is modelled as reporting each NameOwnerChanged, and as
  reporting an owner already present when the watch is added. What gdbus
  does with a NULL reply from a synchronous method (the `null_default_reply`
  finding) is gdbus's behaviour, so the model stops at the NULL reply.
* `dict_append_array` and `dict_append_list` (`dbus-common.c`) are called
  nowhere.
* `soup_session` is never unreferenced, and `object_paths` leaks when
  registering the manager interface fails. Both are leaks at process exit
  only. `TeardownMirrorsStartup` does not require every acquired resource to
  be released.

## Plan for later work

The hazards without a property (PROJECT.json) each need a violation run:
the tokenless app kept after unregistration (`policy.c:598`), the
unanswered duplicate `RegisterAgent` (`pold-manager.c:408`) and the stale
ConnMan `appeared`. Those are the next runs to add.
